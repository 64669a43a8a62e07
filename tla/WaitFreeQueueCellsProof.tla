---------------------- MODULE WaitFreeQueueCellsProof ----------------------
(***************************************************************************)
(* The queue on cells: nobody comes to the System.exit of the code, and no *)
(* element is given out twice, in programs where no thread enqueues twice. *)
(***************************************************************************)
EXTENDS WaitFreeQueueCellsInvariant, TLAPS

-----------------------------------------------------------------------------
(* Constants and types.                                                    *)

LEMMA Nulls ==
    /\ Null \notin Op /\ Top \notin Op /\ Bot \notin Op /\ None \notin Op /\ Old \notin Op
    /\ Null \notin Thread /\ Top \notin Thread /\ Bot \notin Thread
    /\ Top # Null /\ Top # Bot /\ Null # Bot /\ Top # Old /\ Bot # Old /\ Old # Null
    /\ Null \notin Cell /\ MaxCalls \in Nat /\ Cells \in Nat /\ Used \in Nat
  <1>1. Op \subseteq Thread \X Nat BY DEF Op
  <1>2. \A x \in {Old, Null, Top, Bot, None} : x \notin Thread /\ x \notin Thread \X Nat
    BY CellsAssumption
  <1>3. \A x \in {Old, Null, Top, Bot, None} : x \notin Op BY <1>1, <1>2
  <1>4. MaxCalls \in Nat /\ Cells \in Nat /\ Used \in Nat BY CellsAssumption
  <1>5. /\ Top # Null /\ Top # Bot /\ Null # Bot /\ Top # Old /\ Bot # Old /\ Old # Null
        /\ Null \notin Cell
    BY CellsAssumption
  <1>6. QED BY <1>2, <1>3, <1>4, <1>5

LEMMA OpIs ==
    /\ \A t \in Thread, k \in 1 .. MaxCalls : <<t, k>> \in Op /\ <<t, k>>[1] = t /\ <<t, k>>[2] = k
    /\ \A o \in Op : o[1] \in Thread /\ o[2] \in 1 .. MaxCalls /\ o = <<o[1], o[2]>>
  BY DEF Op

\* Nodes of cells; findCell leads to the cell of its index, if it does not start
\* behind it.
LEMMA Segments ==
    /\ \A i \in Nat : Segment(i) \in Nat
    /\ \A i, j \in Nat : i <= j => Segment(i) <= Segment(j)
    /\ \A i, n \in Nat : n <= Segment(i) => FindCell(n, i) = Segment(i)
    /\ \A i \in Nat : At(Segment(i), i) = i
  <1>1. CELLS_SIZE \in Nat /\ CELLS_SIZE > 0 BY CellsAssumption
  <1>2. ASSUME NEW i \in Nat PROVE Segment(i) \in Nat /\ At(Segment(i), i) = i
    BY <1>1, SMT DEF Segment, At
  <1>3. ASSUME NEW i \in Nat, NEW j \in Nat, i <= j PROVE Segment(i) <= Segment(j)
    BY <1>1, <1>3, SMT DEF Segment
  <1>4. ASSUME NEW i \in Nat, NEW n \in Nat, n <= Segment(i) PROVE FindCell(n, i) = Segment(i)
    BY <1>2, <1>4 DEF FindCell, Later
  <1>5. QED BY <1>2, <1>3, <1>4

LEMMA CurrentIs ==
    ASSUME TypeInv, NEW t \in Thread
    PROVE  /\ Current(t) = <<t, calls[t]>> /\ calls[t] \in 0 .. MaxCalls
           /\ InCall(t) => Current(t) \in Op
  <1>1. calls[t] \in 0 .. MaxCalls /\ MaxCalls \in Nat BY Nulls DEF TypeInv
  <1>2. InCall(t) => calls[t] \in 1 .. MaxCalls BY <1>1 DEF TypeInv
  <1>3. QED BY <1>1, <1>2, OpIs DEF Current

\* The types of one thread and of one cell.
LEMMA LocalIs ==
    ASSUME TypeInv, NEW t \in Thread
    PROVE  LET f == local[t]
           IN  /\ f \in Local
               /\ {f.index, f.cell, f.i, f.ei, f.id, f.did, f.idx, f.old, f.new} \subseteq Int
               /\ f.reserve \in Nat /\ f.dp \in Nat
               /\ f.val \in Item \cup {Null, Top, Bot} /\ f.e \in Thread \cup {Null, Top}
               /\ f.ev \in Item \cup {Null} /\ {f.pe, f.ph} \subseteq Thread \cup {Null}
  <1>1. local[t] \in Local BY DEF TypeInv
  <1>2. QED BY <1>1 DEF Local

LEMMA RequestIs ==
    ASSUME TypeInv, NEW t \in Thread
    PROVE  /\ enq[t].id \in Int /\ enq[t].val \in Item \cup {Null}
           /\ deq[t].id \in Nat /\ deq[t].idx \in Int /\ putNode[t] \in Nat /\ popNode[t] \in Nat
           /\ eh[t] \in Thread /\ dh[t] \in Thread
  BY DEF TypeInv

LEMMA CellIs ==
    ASSUME TypeInv, NEW c \in Number, cells[c] # Null
    PROVE  /\ cells[c] \in Cell /\ cells[c].val \in Item \cup {Null, Top}
           /\ cells[c].enq \in Thread \cup {Null, Top} /\ cells[c].deq \in Thread \cup {Null, Top}
  <1>1. cells[c] \in Cell BY DEF TypeInv
  <1>2. QED BY <1>1 DEF Cell

-----------------------------------------------------------------------------
(* What a step of t does to what others know.                              *)

Apart(t) == \A u \in Thread \ {t} :
    /\ pc'[u] = pc[u] /\ local'[u] = local[u] /\ calls'[u] = calls[u]
    /\ putNode'[u] = putNode[u] /\ popNode'[u] = popNode[u] /\ eh'[u] = eh[u] /\ dh'[u] = dh[u]
    /\ enq'[u].val = enq[u].val
    /\ enq'[u].id = enq[u].id \/ (Open(u) /\ enq[u].id > 0 /\ enq'[u].id < 0 /\ Claimed(u)')
    /\ deq'[u].id = deq[u].id
    /\ \/ deq'[u].idx = deq[u].idx
       \/ deq[u].idx >= 0 /\ deq'[u].idx >= 0 /\ Pending(u)'
       \/ deq[u].idx >= 0 /\ deq'[u].idx < 0 /\ Answered(u)'

Ahead == putIndex <= putIndex' /\ popIndex <= popIndex'

\* Cells are made once, an item stays, and so do the signatures.
Grows(c) == cells[c] # Null =>
    /\ cells'[c] # Null
    /\ cells[c].val # Null => cells'[c].val # Null
    /\ cells[c].val \notin {Null, Top} => cells'[c].val = cells[c].val
    /\ cells'[c].val = cells[c].val \/ cells'[c].val \in Op \cup {Top}
    /\ cells[c].val = Top => cells'[c].val = Top \/ cells[c].enq \in Thread
    /\ cells[c].enq # Null => cells'[c].enq = cells[c].enq
    /\ cells[c].deq # Null => cells'[c].deq = cells[c].deq

Request(e) ==
    /\ \A x \in Nat : Known(e, x) => Known(e, x)'
    /\ \A x \in Nat : x > 0 /\ Known(e, x) /\ enq'[e].id = x => enq[e].id = x /\ enq'[e].val = enq[e].val
    /\ \A c \in Number : Open(e) /\ c > 0 /\ enq[e].id = -c =>
        \/ /\ Open(e)' /\ enq'[e].id = -c /\ Current(e)' = Current(e)
           /\ cells[c] # Null => cells'[c].val \in {cells[c].val, Top, Current(e)}
        \/ cells'[c] # Null /\ cells'[c].val = Current(e)
    /\ InPut(e)' => (InPut(e) /\ local'[e].index = local[e].index) \/ local'[e].index >= putIndex

Wish(p) ==
    /\ deq[p].id <= deq'[p].id
    /\ \A x \in Nat : Prior(p, x) => Prior(p, x)'
    /\ \A id, x \in Nat : id <= deq[p].id /\ Bound(p, id, x) => Bound(p, id, x)'
    /\ \A c \in Nat : Bar(p, c) => Bar(p, c)'
    /\ deq'[p].id = deq[p].id /\ pc[p] # "slowDeqIdx" =>
        /\ pc'[p] # "slowDeqIdx"
        /\ deq'[p].idx >= 0 => deq[p].idx >= 0
        /\ deq[p].idx # deq[p].id => deq'[p].idx # deq[p].id
        /\ \A x \in Number : deq[p].id < x /\ cells[x] # Null /\ Cand(p, x) => Cand(p, x)'

AllGrow == \A c \in Number : Grows(c)
AllRequests == \A u \in Thread : Request(u)
AllWishes == \A p \in Thread : Wish(p)

Effects(t) == Apart(t) /\ Ahead /\ AllGrow /\ AllRequests /\ AllWishes

-----------------------------------------------------------------------------
(* What the others know is still true.                                     *)

\* Where a thread is depends on its pc and its locals.
LEMMA Status ==
    ASSUME NEW u, pc'[u] = pc[u], local'[u] = local[u]
    PROVE  /\ Pc(u)' = Pc(u) /\ (Fast(u)' <=> Fast(u)) /\ (Open(u)' <=> Open(u))
           /\ (InPut(u)' <=> InPut(u)) /\ (Helping(u)' <=> Helping(u)) /\ (Drawn(u)' <=> Drawn(u))
           /\ (Answering(u)' <=> Answering(u)) /\ (Asking(u)' <=> Asking(u))
           /\ (InCall(u)' <=> InCall(u)) /\ (Registered(u)' <=> Registered(u))
  <1>1. Pc(u)' = Pc(u) BY DEF Pc
  <1>2. (Fast(u)' <=> Fast(u)) /\ (Open(u)' <=> Open(u)) BY <1>1 DEF Fast, Open
  <1>3. InPut(u)' <=> InPut(u) BY <1>2 DEF InPut
  <1>4. Helping(u)' <=> Helping(u) BY DEF Helping
  <1>5. Drawn(u)' <=> Drawn(u) BY DEF Drawn
  <1>6. Answering(u)' <=> Answering(u) BY DEF Answering
  <1>7. Asking(u)' <=> Asking(u) BY <1>4, <1>6 DEF Asking
  <1>8. QED BY <1>1, <1>2, <1>3, <1>4, <1>5, <1>6, <1>7 DEF InCall, Registered

\* An enqueue that stands still, and one that is not there.
LEMMA PutKept ==
    ASSUME TypeInv, TypeInv', Ahead, AllGrow, AllRequests, NEW u \in Thread, PutInv(u),
           putNode'[u] = putNode[u],
           (pc'[u] = pc[u] /\ local'[u] = local[u]) \/ (Away(u) /\ Away(u)'), Bounded
    PROVE  PutInv(u)'
  <1>1. /\ putIndex \in Nat /\ putIndex' \in Nat /\ putIndex < Cells /\ putNode[u] \in Nat
        /\ Used \in Nat /\ Cells \in Nat
    BY Nulls DEF TypeInv, Bounded
  <1>2. putNode'[u] <= Segment(putIndex') BY <1>1, Segments DEF PutInv, Ahead
  <1>3. CASE Away(u) /\ Away(u)' BY <1>3, <1>2 DEF Away, InPut, Fast, Open, PutInv, FastPcs, OpenPcs
  <1>4. CASE pc'[u] = pc[u] /\ local'[u] = local[u]
    <2>1. Pc(u)' = Pc(u) /\ (InPut(u)' <=> InPut(u)) BY <1>4, Status
    <2>2. ASSUME InPut(u)'
          PROVE  /\ local'[u].index \in Used .. putIndex' - 1 /\ local[u].index \in Number
                 /\ putNode'[u] <= Segment(local'[u].index)
                 /\ \A v \in Thread \ {u} : InPut(v)' => local'[v].index # local'[u].index
      BY <2>1, <2>2, <1>1, <1>4 DEF PutInv, AllRequests, Request, Ahead, Number, Bounded
    <2>3. Pc(u) \in FastPcs \cup OpenPcs => InPut(u) BY DEF InPut, Fast, Open
    <2>4. Pc(u) \in {"putVal", "putCas", "slowEnq", "slowCas", "slowClaim"}
            => /\ cells[local[u].index] # Null /\ Grows(local[u].index)
      BY <2>1, <2>2, <2>3 DEF PutInv, AllGrow, FastPcs, OpenPcs
    <2>5. /\ Pc(u)' \in {"putVal", "putCas", "slowEnq", "slowCas", "slowClaim"}
                => cells'[local'[u].index] # Null
          /\ Pc(u)' = "slowClaim" => cells'[local'[u].index].enq = u
      BY <1>4, <2>1, <2>4, Nulls DEF PutInv, Grows
    <2>6. QED BY <1>2, <1>4, <2>1, <2>2, <2>5 DEF PutInv
  <1>5. QED BY <1>3, <1>4

LEMMA ReqKept ==
    ASSUME TypeInv, TypeInv', Ahead, AllGrow, AllRequests, NEW u \in Thread, ReqInv(u),
           enq'[u].val = enq[u].val, calls'[u] = calls[u],
           enq'[u].id = enq[u].id \/ (Open(u) /\ enq[u].id > 0 /\ enq'[u].id < 0 /\ Claimed(u)'),
           (pc'[u] = pc[u] /\ local'[u] = local[u]) \/ (Away(u) /\ Away(u)')
    PROVE  ReqInv(u)'
  <1>0. /\ putIndex \in Nat /\ putIndex' \in Nat /\ enq[u].id \in Int /\ Current(u)' = Current(u)
        /\ local[u].i \in Int /\ Cells \in Nat
    BY RequestIs, LocalIs, Nulls DEF TypeInv, Current
  <1>1. ASSUME enq[u].id < 0, -enq[u].id \in Number, cells[-enq[u].id] # Null, enq'[u].id = enq[u].id,
               cells[-enq[u].id].val \in Op
        PROVE  cells'[-enq'[u].id] # Null /\ cells'[-enq'[u].id].val \in Op
    BY <1>1, Nulls DEF AllGrow, Grows
  <1>2. CASE Away(u) /\ Away(u)'
    BY <1>2, <1>1 DEF Away, InPut, Fast, Open, Pc, FastPcs, OpenPcs, ReqInv
  <1>3. CASE pc'[u] = pc[u] /\ local'[u] = local[u]
    <2>1. Open(u)' <=> Open(u) BY <1>3, Status
    <2>2. CASE ~Open(u) BY <2>2, <1>0, <1>1, <1>3, <2>1 DEF Open, Pc, OpenPcs, ReqInv
    <2>3. CASE Open(u)
      <3>0. pc[u] # "slowId" BY <2>3 DEF Open, Pc, OpenPcs
      <3>1. ASSUME Claimed(u), enq[u].id < 0, enq'[u].id = enq[u].id PROVE Claimed(u)'
        <4> DEFINE c == -enq[u].id
        <4>1. c \in Number /\ c > 0 /\ cells[c] # Null /\ cells[c].enq = u
              /\ cells[c].val \in {Null, Top, Current(u)} /\ c >= local[u].id /\ enq[u].id = -c
          BY <1>0, <3>1 DEF Claimed
        <4>2. Grows(c) /\ Request(u) BY <4>1 DEF AllGrow, AllRequests
        <4>3. \/ cells'[c].val \in {cells[c].val, Top, Current(u)}
              \/ cells'[c].val = Current(u)
          <5> HIDE DEF c
          <5> QED BY <2>3, <4>1, <4>2 DEF Request
        <4>4. cells'[c] # Null /\ cells'[c].enq = u BY <4>1, <4>2, Nulls DEF Grows
        <4>5. QED BY <1>0, <1>3, <3>1, <4>1, <4>3, <4>4 DEF Claimed
      <3>2. enq'[u].id = local'[u].id \/ Claimed(u)'
        BY <1>0, <1>3, <2>3, <3>1 DEF Claimed, Number, ReqInv
      <3>3. /\ pc[u] \in {"slowEnd", "slowRaise", "slowSet"} => enq'[u].id = enq[u].id
        BY <1>0 DEF ReqInv
      <3>4. QED BY <1>0, <1>3, <2>1, <2>3, <3>0, <3>2, <3>3 DEF ReqInv, Ahead
    <2>4. QED BY <2>2, <2>3
  <1>4. QED BY <1>2, <1>3

LEMMA HelpKept ==
    ASSUME TypeInv, TypeInv', Ahead, AllGrow, AllRequests, NEW u \in Thread, HelpInv(u),
           pc'[u] = pc[u], local'[u] = local[u]
    PROVE  HelpInv(u)'
  <1>1. CASE pc[u] \notin HelpPcs BY <1>1 DEF HelpInv, HelpAt
  <1>2. ASSUME pc[u] \in HelpPcs,
               NEW c, NEW e, NEW x, NEW v,
               c = local[u].i, e = local[u].e, x = local[u].ei, v = local[u].ev
        PROVE  HelpInv(u)'
    <2>0. putIndex \in Nat /\ putIndex' \in Nat /\ Cells \in Nat /\ x \in Int /\ c \in Int
      BY <1>2, Nulls, LocalIs DEF TypeInv
    <2>1. /\ c \in 1 .. Cells - 1 /\ local[u].cell = c /\ local[u].back \in {"popDeq", "seekDeq"}
          /\ cells[c] # Null
      BY <1>2 DEF HelpInv, HelpAt
    <2>2. c \in Number /\ c > 0 BY <2>0, <2>1 DEF Number
    <2>3. Grows(c) BY <2>2 DEF AllGrow
    <2>4. cells'[c] # Null BY <2>1, <2>3 DEF Grows
    <2>5. pc[u] \notin {"helpVal", "helpSeal"} => cells[c].val # Null /\ cells'[c].val # Null
      BY <1>2, <2>1, <2>3 DEF HelpInv, HelpAt, Grows
    <2>6. pc[u] \in {"helpEnq", "helpPeer", "helpOffer", "helpClose"}
                => (cells'[c].enq = Null => cells'[c].val = Top)
      BY <1>2, <2>1, <2>3, Nulls DEF HelpInv, HelpAt, Grows
    <2>7. pc[u] = "helpEmpty" => cells'[c].enq = Top
      BY <1>2, <2>1, <2>3, Nulls DEF HelpInv, HelpAt, Grows
    <2>8. ASSUME pc[u] \in {"helpId", "helpEv", "helpClaim", "helpId2", "helpVal2", "helpRaise", "helpSet"}
          PROVE  e \in Thread /\ cells[c].enq = e /\ cells'[c].enq = e /\ Request(e)
      BY <1>2, <2>1, <2>3, <2>8, Nulls DEF HelpInv, HelpAt, Grows, AllRequests
    <2>9. ASSUME pc[u] \in {"helpEv", "helpClaim"}, x > 0 PROVE Known(e, x) /\ Known(e, x)'
      BY <1>2, <2>8, <2>9, <2>0 DEF HelpInv, HelpAt, Request
    <2>10. ASSUME pc[u] = "helpClaim", enq'[e].id = x PROVE v = enq'[e].val
      BY <1>2, <2>10, <2>0, <2>8, <2>9 DEF HelpInv, HelpAt, Request
    <2>11. ASSUME pc[u] = "helpVal2", cells'[c].val = Top PROVE Open(e)' /\ enq'[e].id = -c
      <3>1. cells[c].val = Top BY <2>1, <2>3, <2>5, <2>11 DEF Grows
      <3>2. Open(e) /\ enq[e].id = -c /\ Request(e) /\ e \in Thread
        BY <1>2, <2>8, <2>11, <3>1 DEF HelpInv, HelpAt
      <3>3. cells'[c].val # Current(e)
        BY <3>2, CurrentIs, <2>11, Nulls DEF Open, Pc, InCall, OpenPcs, Registered
      <3>4. QED BY <2>2, <3>2, <3>3 DEF Request
    <2>12. ASSUME pc[u] \in {"helpRaise", "helpSet"} PROVE Due(e, c, v)'
      <3>1. Due(e, c, v) /\ Request(e) /\ e \in Thread BY <1>2, <2>8, <2>12 DEF HelpInv, HelpAt
      <3>2. CASE v \in Op /\ cells[c].val = v BY <2>1, <2>3, <3>2, Nulls DEF Grows, Due
      <3>3. CASE Open(e) /\ enq[e].id = -c /\ v = Current(e)
        BY <3>1, <3>3, CurrentIs, <2>2 DEF Open, Pc, InCall, OpenPcs, Registered, Request, Due
      <3>4. QED BY <3>1, <3>2, <3>3 DEF Due
    <2>13. pc[u] = "helpOffer" => local[u].pe \in Thread BY <1>2 DEF HelpInv, HelpAt
    <2>14. pc[u] = "helpClaim" => local[u].ei > 0 BY <1>2 DEF HelpInv, HelpAt
    <2>15. pc[u] = "helpSet" => c < putIndex' BY <1>2, <2>0 DEF HelpInv, HelpAt, Ahead
    <2>16. local'[u].i = c /\ local'[u].e = e /\ local'[u].ei = x /\ local'[u].ev = v BY <1>2
    <2>17. pc[u] \in {"helpEv", "helpClaim"} => (x > 0 => Known(local[u].e, local[u].ei)')
      BY <2>9, <2>16 DEF Known
    <2>18. pc[u] \in {"helpRaise", "helpSet"} => Due(local[u].e, local[u].i, local[u].ev)'
      BY <2>12, <2>16 DEF Due
    <2>19. pc[u] = "helpVal2" => (cells'[c].val = Top => Open(local[u].e)' /\ enq'[e].id = -c)
      BY <2>11, <2>16 DEF Open, Pc
    <2>20. QED
      BY <1>2, <2>1, <2>4, <2>5, <2>6, <2>7, <2>8, <2>10, <2>13, <2>14, <2>15, <2>16, <2>17, <2>18,
         <2>19 DEF HelpInv, HelpAt
  <1>3. QED BY <1>1, <1>2

LEMMA ValKept ==
    ASSUME TypeInv, AllGrow, NEW u \in Thread, ValInv(u), pc'[u] = pc[u], local'[u] = local[u]
    PROVE  ValInv(u)'
  <1>1. CASE pc[u] \in {"popDeq", "seekDeq"}
    <2> DEFINE c == local[u].i
    <2>1. c \in 1 .. Cells - 1 /\ cells[c] # Null BY <1>1 DEF ValInv, ValAt
    <2>2. Grows(c) BY <2>1, Nulls DEF AllGrow, Number
    <2>3. QED BY <1>1, <2>1, <2>2, Nulls DEF ValInv, ValAt, Grows
  <1>2. QED BY <1>1 DEF ValInv, ValAt

LEMMA DrawKept ==
    ASSUME TypeInv, Bounded, Ahead, AllGrow, NEW t, NEW u \in Thread \ {t}, Apart(t), DrawInv(u),
           popIndex' \in Nat
    PROVE  DrawInv(u)'
  <1>1. /\ popIndex \in Nat /\ popIndex < Cells /\ popIndex <= popIndex' /\ Used \in Nat /\ Cells \in Nat
        /\ popNode[u] \in Nat /\ deq[u].idx \in Int
    BY Nulls, RequestIs DEF TypeInv, Bounded, Ahead
  <1>2. /\ pc'[u] = pc[u] /\ local'[u] = local[u] /\ popNode'[u] = popNode[u]
        /\ (Drawn(u)' <=> Drawn(u)) /\ deq'[u].id = deq[u].id
        /\ deq[u].idx < 0 => deq'[u].idx = deq[u].idx
    BY <1>1, Status DEF Apart
  <1>3. popNode'[u] <= Segment(popIndex') BY <1>1, <1>2, Segments DEF DrawInv
  <1>4. ASSUME Drawn(u), pc[u] \notin {"popCell", "popNew"} PROVE cells'[local[u].index] # Null
    BY <1>1, <1>4 DEF DrawInv, Number, AllGrow, Grows
  <1>5. Drawn(u) => local[u].index \in Used .. popIndex' - 1 BY <1>1 DEF DrawInv
  <1>6. QED BY <1>2, <1>3, <1>4, <1>5 DEF DrawInv

\* What answers a request goes on answering it.
LEMMA AnswerStays ==
    ASSUME TypeInv, Bounded, Ahead, AllGrow, NEW u \in Thread, Answered(u), popIndex' \in Nat,
           deq'[u].id = deq[u].id, deq'[u].idx = deq[u].idx
    PROVE  Answered(u)'
  <1> DEFINE c == -deq[u].idx
  <1>1. popIndex \in Nat /\ popIndex < Cells /\ popIndex <= popIndex' /\ Cells \in Nat
        /\ deq[u].id \in Nat /\ c \in Int
    BY Nulls, RequestIs DEF TypeInv, Bounded, Ahead
  <1>2. /\ deq[u].id < c /\ c < popIndex /\ cells[c] # Null
        /\ cells[c].deq = u \/ (cells[c].val = Top /\ cells[c].enq = Top)
    BY DEF Answered
  <1>3. c \in Number BY <1>1, <1>2 DEF Number
  <1>4. Grows(c) BY <1>3 DEF AllGrow
  <1>5. cells'[c] # Null /\ (cells'[c].deq = u \/ (cells'[c].val = Top /\ cells'[c].enq = Top))
    BY <1>2, <1>4, Nulls DEF Grows
  <1>6. QED BY <1>1, <1>2, <1>5 DEF Answered

LEMMA PendingStays ==
    ASSUME TypeInv, Bounded, Ahead, AllGrow, NEW u \in Thread, Pending(u), popIndex' \in Nat,
           deq'[u].id = deq[u].id, deq'[u].idx = deq[u].idx
    PROVE  Pending(u)'
  <1>1. popIndex \in Nat /\ popIndex < Cells /\ popIndex <= popIndex' /\ Cells \in Nat
        /\ deq[u].id \in Nat /\ deq[u].idx \in Int
    BY Nulls, RequestIs DEF TypeInv, Bounded, Ahead
  <1>2. deq[u].idx \in Number /\ deq[u].idx \in deq[u].id .. popIndex' - 1
    BY <1>1 DEF Number, Pending
  <1>3. Grows(deq[u].idx) BY <1>2 DEF AllGrow
  <1>4. QED BY <1>2, <1>3 DEF Pending, Grows

LEMMA DeqKept ==
    ASSUME TypeInv, Bounded, Ahead, AllGrow, NEW t, NEW u \in Thread \ {t}, Apart(t), DeqInv(u),
           popIndex' \in Nat, deq'[u].idx \in Int
    PROVE  DeqInv(u)'
  <1>1. /\ popIndex \in Nat /\ popIndex < Cells /\ popIndex <= popIndex' /\ Used \in Nat /\ Cells \in Nat
        /\ popNode[u] \in Nat /\ deq[u].idx \in Int /\ deq[u].id \in Nat
    BY Nulls, RequestIs DEF TypeInv, Bounded, Ahead
  <1>2. /\ pc'[u] = pc[u] /\ local'[u] = local[u] /\ popNode'[u] = popNode[u]
        /\ (Asking(u)' <=> Asking(u)) /\ (Answering(u)' <=> Answering(u)) /\ (Helping(u)' <=> Helping(u))
        /\ deq'[u].id = deq[u].id
        /\ deq[u].idx < 0 => deq'[u].idx = deq[u].idx
    BY <1>1, Status DEF Apart
  <1>3. deq'[u].idx >= 0 => Asking(u)' /\ Pending(u)' BY <1>1, <1>2, PendingStays DEF DeqInv, Apart
  <1>4. ASSUME Asking(u), deq'[u].idx < 0 PROVE Answered(u)'
    BY <1>1, <1>2, <1>4, AnswerStays DEF DeqInv, Apart
  <1>5. deq'[u].id < popIndex' BY <1>1, <1>2 DEF DeqInv
  <1>6. pc[u] = "slowDeqIdx" => deq'[u].idx = deq[u].idx BY <1>2 DEF DeqInv
  <1>7. Answering(u) => deq'[u].idx = deq[u].idx BY <1>2 DEF DeqInv
  <1>8. deq'[u].idx >= -popIndex' BY <1>1 DEF DeqInv, Answered, Apart
  <1>9. QED BY <1>2, <1>3, <1>4, <1>5, <1>6, <1>7, <1>8 DEF DeqInv

LEMMA SeekKept ==
    ASSUME TypeInv, TypeInv', Bounded, Ahead, AllGrow, AllWishes, NEW t, NEW u \in Thread \ {t},
           Apart(t), SeekInv(u)
    PROVE  SeekInv(u)'
  <1>1. CASE ~Helping(u) BY <1>1, Status DEF Apart, SeekInv, SeekAt
  <1>2. ASSUME Helping(u), NEW p, NEW id, NEW x, NEW i,
               p = local[u].ph, id = local[u].did, x = local[u].idx, i = local[u].i
        PROVE  SeekInv(u)'
    <2>1. pc'[u] = pc[u] /\ local'[u] = local[u] /\ deq'[u].id = deq[u].id
          /\ (deq[u].idx < 0 => deq'[u].idx < 0)
      BY RequestIs DEF Apart
    <2>2. /\ p \in Thread /\ local[u].then \in {"slowDone", "dequeued"}
          /\ local[u].then = "slowDone" => p = u
      BY <1>2 DEF SeekInv, SeekAt
    <2>3. /\ popIndex \in Nat /\ popIndex' \in Nat /\ popIndex < Cells /\ popIndex <= popIndex'
          /\ Cells \in Nat /\ id \in Int /\ x \in Int /\ i \in Int
          /\ deq[p].id \in Nat /\ deq'[p].id \in Nat /\ deq[p].idx \in Int /\ deq'[p].idx \in Int
      BY <1>2, <2>2, Nulls, LocalIs DEF TypeInv, Bounded, Ahead
    <2>4. Wish(p) /\ deq[p].id <= deq'[p].id BY <2>2 DEF AllWishes, Wish
    <2>5. pc[u] = "askId" =>
            /\ x >= 0 => Prior(p, x)'
            /\ local[u].then = "slowDone" /\ x < deq'[u].id => deq'[u].idx < 0
      BY <1>2, <2>1, <2>3, <2>4 DEF SeekInv, SeekAt, Wish
    <2>6. pc[u] \notin {"askIdx", "askId"} => id \in 0 .. deq[p].id /\ id \in 0 .. deq'[p].id
      BY <1>2, <2>3, <2>4 DEF SeekInv, SeekAt
    <2>7. pc[u] \notin {"askIdx", "askId"} /\ id = deq'[p].id =>
            /\ deq'[p].id = deq[p].id /\ pc[p] # "slowDeqIdx" /\ pc'[p] # "slowDeqIdx"
            /\ deq'[p].idx >= 0 => deq[p].idx >= 0
            /\ deq[p].idx # id => deq'[p].idx # id
            /\ \A z \in Number : id < z /\ cells[z] # Null /\ Cand(p, z) => Cand(p, z)'
      BY <2>3, <2>4, <2>6, <1>2 DEF SeekInv, SeekAt, Wish
    <2>8. ASSUME pc[u] \notin {"askIdx", "askId"}, x >= 0, Bound(p, id, x)
          PROVE  Bound(p, id, x)' /\ x \in Number
      BY <2>3, <2>4, <2>6, <2>8 DEF Wish, Bound, Number
    <2>9. \A c \in Number : cells[c] # Null => cells'[c] # Null BY DEF AllGrow, Grows
    <2>10. pc[u] \in {"seekCell", "seekNew", "seekRaise", "seekDeq", "seekAgain"} \cup HelpPcs =>
            /\ i \in id + 1 .. popIndex' /\ local[u].dp = Segment(i) /\ local[u].cell = i
            /\ x = local[u].old /\ x >= 0 /\ Bound(p, id, x)'
            /\ deq'[p].id = id => x >= id
            /\ local[u].back = "seekDeq"
      BY <1>2, <2>3, <2>7, <2>8 DEF HelpPcs, SeekInv, SeekAt
    <2>11. /\ pc[u] \in {"seekRaise", "seekDeq", "seekAgain"} \cup HelpPcs => cells'[i] # Null
           /\ pc[u] \in {"seekDeq", "seekAgain"} \cup HelpPcs => i < popIndex'
      BY <1>2, <2>3, <2>6, <2>9 DEF HelpPcs, SeekInv, SeekAt, Number
    <2>12. pc[u] \in {"offerIdx", "offerId", "offerCas"} =>
            /\ local[u].new = i /\ i \in id + 1 .. popIndex' - 1
            /\ cells'[i] # Null /\ local[u].dp <= Segment(i)
      BY <1>2, <2>3, <2>6, <2>9 DEF SeekInv, SeekAt, Number
    <2>13. ASSUME pc[u] \in {"offerId", "moved", "take", "finish"}, deq'[p].id = id, x > id,
                  Bound(p, id, x), cells[x] # Null, Cand(p, x)
           PROVE  Bound(p, id, x)' /\ cells'[x] # Null /\ Cand(p, x)'
      BY <2>3, <2>6, <2>7, <2>8, <2>9, <2>13
    <2>14. pc[u] = "offerId" =>
            /\ x >= 0
            /\ deq'[p].id = id => /\ x >= id /\ Bound(p, id, x)'
                                  /\ x > id => cells'[x] # Null /\ Cand(p, x)'
      BY <1>2, <2>7, <2>8, <2>13 DEF SeekInv, SeekAt
    <2>15. pc[u] = "offerCas" => x >= 0 /\ x < i /\ Bound(p, id, x)'
      BY <1>2, <2>8 DEF SeekInv, SeekAt
    <2>16. pc[u] = "moved" =>
            /\ i \in id + 1 .. popIndex'
            /\ local[u].then = "slowDone" /\ x < 0 => deq'[u].idx < 0
            /\ deq'[p].id = id /\ x >= 0 =>
                /\ local[u].dp <= Segment(i) /\ x > id /\ Bound(p, id, x)'
                /\ cells'[x] # Null /\ Cand(p, x)'
      BY <1>2, <2>3, <2>1, <2>7, <2>13 DEF SeekInv, SeekAt
    <2>17. ASSUME pc[u] \in {"take", "finish"}
           PROVE  /\ x > id /\ Bound(p, id, x)' /\ cells'[x] # Null
                  /\ local[u].cell = x /\ local[u].dp = Segment(x)
                  /\ deq'[p].id = id => Cand(p, x)'
                  /\ pc[u] = "finish" => cells'[x].deq = p
      <3>1. /\ x > id /\ Bound(p, id, x) /\ cells[x] # Null
            /\ local[u].cell = x /\ local[u].dp = Segment(x)
            /\ deq[p].id = id => Cand(p, x)
            /\ pc[u] = "finish" => cells[x].deq = p
        BY <1>2, <2>17 DEF SeekInv, SeekAt
      <3>2. x >= 0 /\ x \in Number /\ Bound(p, id, x)' BY <2>3, <2>6, <2>8, <2>17, <3>1
      <3>3. Grows(x) BY <3>2 DEF AllGrow
      <3>4. cells'[x] # Null /\ (pc[u] = "finish" => cells'[x].deq = p)
        BY <2>2, <3>1, <3>3, Nulls DEF Grows
      <3>5. QED BY <2>7, <2>13, <2>17, <3>1, <3>2, <3>4
    <2>18. pc[u] = "askAgain" => (deq'[p].id = id /\ deq'[p].idx >= 0 => local[u].dp <= Segment(id))
      BY <1>2, <2>7 DEF SeekInv, SeekAt
    <2>19. pc[u] \notin {"askIdx", "askId"} =>
            /\ local[u].then = "slowDone" => id = deq'[u].id
            /\ id = deq'[p].id => pc'[p] # "slowDeqIdx"
      BY <1>2, <2>1, <2>7 DEF SeekInv, SeekAt
    <2>191. pc[u] \in {"seekCell", "seekNew", "seekRaise", "seekDeq", "seekAgain", "offerId", "offerCas",
                       "moved", "take", "finish"} \cup HelpPcs =>
              (deq'[p].id = id /\ x > id => deq'[p].idx # id)
      BY <1>2, <2>7 DEF HelpPcs, SeekInv, SeekAt
    <2>20. local'[u].ph = p /\ local'[u].did = id /\ local'[u].idx = x /\ local'[u].i = i
      BY <1>2, <2>1
    <2>21. pc[u] = "askId" => (x >= 0 => Prior(local[u].ph, local[u].idx)') BY <2>5, <2>20 DEF Prior
    <2>22. Bound(p, id, x)' => Bound(local[u].ph, local[u].did, local[u].idx)' BY <2>20 DEF Bound
    <2>23. Cand(p, x)' => Cand(local[u].ph, local[u].idx)' BY <2>20 DEF Cand
    <2>24. SeekInv(u)'
      BY <2>1, <2>2, <2>5, <2>6, <2>10, <2>11, <2>12, <2>14, <2>15, <2>16, <2>17, <2>18, <2>19,
         <2>191, <2>20, <2>21, <2>22, <2>23 DEF SeekInv, SeekAt
    <2>25. QED BY <2>24
  <1>3. QED BY <1>1, <1>2

-----------------------------------------------------------------------------
(* What a step of t has to show.                                           *)

Alone(t) == \A u \in Thread \ {t} :
    /\ pc'[u] = pc[u] /\ local'[u] = local[u] /\ calls'[u] = calls[u]
    /\ putNode'[u] = putNode[u] /\ popNode'[u] = popNode[u] /\ eh'[u] = eh[u] /\ dh'[u] = dh[u]

LEMMA StepIs ==
    ASSUME IInv, Bounded, NEW t \in Thread, TypeInv', Effects(t), Own(t)',
           ItemInv', OneCell', TakenInv', TakenOnce', RingInv', NodesInv'
    PROVE  IInv'
  <1>1. TypeInv /\ Ahead /\ AllGrow /\ AllRequests /\ AllWishes /\ Apart(t) BY DEF IInv, Effects
  <1>2. popIndex' \in Nat BY DEF TypeInv
  <1>3. ASSUME NEW u \in Thread \ {t} PROVE Own(u)'
    <2>1. Own(u) BY DEF IInv
    <2>2. /\ pc'[u] = pc[u] /\ local'[u] = local[u] /\ calls'[u] = calls[u]
          /\ putNode'[u] = putNode[u] /\ popNode'[u] = popNode[u] /\ enq'[u].val = enq[u].val
          /\ enq'[u].id = enq[u].id \/ (Open(u) /\ enq[u].id > 0 /\ enq'[u].id < 0 /\ Claimed(u)')
      BY <1>1 DEF Apart
    <2>3. PutInv(u)' BY <1>1, <2>1, <2>2, PutKept DEF Own
    <2>4. ReqInv(u)' BY <1>1, <2>1, <2>2, ReqKept DEF Own
    <2>5. HelpInv(u)' /\ ValInv(u)' BY <1>1, <2>1, <2>2, HelpKept, ValKept DEF Own
    <2>6. DrawInv(u)' BY <1>1, <1>2, <2>1, DrawKept DEF Own
    <2>7. deq'[u].idx \in Int BY DEF TypeInv
    <2>8. DeqInv(u)' BY <1>1, <1>2, <2>1, <2>7, DeqKept DEF Own
    <2>9. SeekInv(u)' BY <1>1, <2>1, SeekKept DEF Own
    <2>10. QED BY <2>3, <2>4, <2>5, <2>6, <2>8, <2>9 DEF Own
  <1>4. QED BY <1>3 DEF IInv, Whole

\* A request that nobody touches.
LEMMA RequestStill ==
    ASSUME TypeInv, TypeInv', Ahead, NEW u \in Thread,
           enq'[u] = enq[u], calls'[u] = calls[u] \/ (Away(u) /\ Away(u)'),
           (pc'[u] = pc[u] /\ local'[u] = local[u]) \/ (Away(u) /\ Away(u)'),
           \A c \in Number : Open(u) /\ c > 0 /\ enq[u].id = -c /\ cells[c] # Null
               => cells'[c].val \in {cells[c].val, Top, Current(u)}
    PROVE  Request(u)
  <1>1. putIndex \in Nat /\ putIndex' \in Nat /\ putIndex <= putIndex' BY DEF TypeInv, Ahead
  <1>2. CASE Away(u) /\ Away(u)' BY <1>2, <1>1 DEF Away, InPut, Request, Known
  <1>3. CASE pc'[u] = pc[u] /\ local'[u] = local[u] /\ calls'[u] = calls[u]
    BY <1>3, Status, <1>1 DEF Current, Request, Known
  <1>4. QED BY <1>2, <1>3

\* A dequeue that nobody touches, but its cells.
LEMMA WishStill ==
    ASSUME TypeInv, TypeInv', Ahead, AllGrow, NEW p \in Thread, deq'[p] = deq[p],
           Drawn(p)' => Drawn(p) /\ local'[p].index = local[p].index,
           pc'[p] = "slowDeqIdx" => pc[p] = "slowDeqIdx",
           Asking(p)' => Asking(p) \/ pc[p] = "slowDeqIdx"
    PROVE  Wish(p)
  <1>1. popIndex \in Nat /\ popIndex' \in Nat /\ popIndex <= popIndex' /\ deq[p].id \in Nat
    BY DEF TypeInv, Ahead
  <1>2. \A x \in Nat : Prior(p, x) => Prior(p, x)' BY <1>1 DEF Prior
  <1>3. \A id, x \in Nat : Bound(p, id, x) => Bound(p, id, x)' BY <1>1 DEF Bound
  <1>4. \A c \in Nat : Bar(p, c) => Bar(p, c)' BY <1>1 DEF Bar
  <1>5. ASSUME NEW x \in Number, cells[x] # Null, Cand(p, x) PROVE Cand(p, x)'
    BY <1>5 DEF AllGrow, Grows, Cand
  <1>6. QED BY <1>1, <1>2, <1>3, <1>4, <1>5 DEF Wish

\* What has been handed out.
LEMMA TakenStays ==
    ASSUME TypeInv, TypeInv', AllGrow, AllWishes, NEW v \in Op, Given(v)
    PROVE  Given(v)'
  <1>1. PICK c \in Number : /\ cells[c] # Null /\ cells[c].val = v /\ cells[c].deq # Null
                            /\ \A p \in Thread : cells[c].deq = p => Bar(p, c)
    BY DEF Given
  <1>2. Grows(c) BY <1>1 DEF AllGrow
  <1>3. cells'[c] # Null /\ cells'[c].val = v /\ cells'[c].deq = cells[c].deq
    BY <1>1, <1>2, Nulls DEF Grows
  <1>4. ASSUME NEW p \in Thread, cells'[c].deq = p PROVE Bar(p, c)'
    BY Nulls, <1>1, <1>3, <1>4 DEF Number, AllWishes, Wish
  <1>5. QED BY <1>1, <1>3, <1>4 DEF Given

LEMMA TakenKept ==
    ASSUME IInv, TypeInv', AllGrow, AllWishes, result' = result
    PROVE  TakenInv' /\ TakenOnce'
  <1>1. TakenOnce' BY DEF IInv, Whole, TakenOnce
  <1>2. ASSUME NEW o \in Op, result'[o] \in Op PROVE Given(result[o])'
    <2>1. PICK v \in Op : v = result[o] BY <1>2
    <2>2. Given(v)' BY <1>2, <2>1, TakenStays DEF IInv, Whole, TakenInv
    <2>3. QED BY <2>1, <2>2 DEF Given
  <1>3. QED BY <1>1, <1>2 DEF TakenInv

\* A cell whose item and signature of an enqueue stay.
LEMMA ItemStays ==
    ASSUME IInv, TypeInv', NEW t \in Thread, Alone(t), putIndex <= putIndex',
           \A u \in Thread \ {t} : enq'[u].id = enq[u].id \/ (Open(u) /\ Claimed(u)' /\ enq[u].id > 0),
           calls[t] <= calls'[t],
           NEW c \in Number, cells[c] # Null,
           cells'[c].val = cells[c].val, cells'[c].enq = cells[c].enq, Placed(t, c)'
    PROVE  ItemAt(c)'
  <1>1. ItemAt(c) BY DEF IInv, Whole, ItemInv
  <1>2. /\ putIndex \in Nat /\ putIndex' \in Nat /\ c \in Nat
        /\ \A v \in Thread : calls[v] \in Nat /\ calls'[v] \in Nat
    BY Nulls DEF IInv, TypeInv, Number
  <1>3. ASSUME cells[c].val \in Op PROVE c < putIndex' /\ cells[c].val[2] <= calls'[cells[c].val[1]]
    BY <1>3, OpIs, <1>2, <1>1, Nulls DEF Alone, ItemAt
  <1>4. ASSUME NEW u \in Thread \ {t} PROVE Placed(u, c)'
    BY Status, <1>1, <1>2 DEF Alone, Current, ItemAt, Placed
  <1>5. QED BY <1>1, <1>2, <1>3, <1>4 DEF ItemAt

\* Items, when no cell changes.
LEMMA ItemStill ==
    ASSUME IInv, TypeInv', NEW t \in Thread, Alone(t), cells' = cells, putIndex <= putIndex',
           \A u \in Thread \ {t} : enq'[u].id = enq[u].id \/ (Open(u) /\ Claimed(u)' /\ enq[u].id > 0),
           calls[t] <= calls'[t],
           \A c \in Number : cells[c] # Null => Placed(t, c)'
    PROVE  ItemInv' /\ OneCell' /\ AllGrow
  <1>1. AllGrow BY DEF AllGrow, Grows
  <1>2. OneCell' BY DEF IInv, Whole, OneCell
  <1>3. ASSUME NEW c \in Number, cells'[c] # Null PROVE ItemAt(c)' BY <1>3, ItemStays
  <1>4. QED BY <1>1, <1>2, <1>3 DEF ItemInv

-----------------------------------------------------------------------------
(* Steps of enqueue.                                                       *)

PutPcs == FastPcs \cup OpenPcs \cup {"idle", "chasePut"}

LEMMA PutSide ==
    ASSUME NEW t, pc[t] \in PutPcs
    PROVE  /\ ~Drawn(t) /\ ~Asking(t) /\ ~Helping(t) /\ ~Answering(t) /\ Registered(t)
           /\ pc[t] \notin HelpPcs \cup SeekPcs \cup NodePcs
                        \cup {"slowDeqIdx", "popDeq", "seekDeq", "slowDone", "slowGot"}
  BY DEF PutPcs, FastPcs, OpenPcs, Drawn, Asking, Helping, Answering, HelpPcs, SeekPcs, NodePcs, Registered

LEMMA PutStep ==
    ASSUME IInv, Bounded, NEW t \in Thread, TypeInv', Alone(t),
           \A u \in Thread \ {t} : enq'[u] = enq[u],
           popIndex' = popIndex, popNode' = popNode, deq' = deq, eh' = eh, dh' = dh,
           ring' = ring, result' = result, nodes'.pop = nodes.pop,
           nodes'.put <= Segment(putIndex'), putIndex <= putIndex', AllGrow, AllRequests,
           pc[t] \in PutPcs, pc'[t] \in PutPcs, pc'[t] = "idle" => local'[t] = Blank,
           PutInv(t)', ReqInv(t)', ItemInv', OneCell'
    PROVE  IInv'
  <1>1. /\ ~Drawn(t) /\ ~Asking(t) /\ ~Helping(t) /\ ~Answering(t) /\ Registered(t)
        /\ pc[t] # "slowDeqIdx"
    BY PutSide
  <1>2. /\ ~Drawn(t)' /\ ~Asking(t)' /\ ~Helping(t)' /\ ~Answering(t)' /\ Registered(t)'
        /\ pc'[t] \notin HelpPcs \cup SeekPcs \cup NodePcs
                     \cup {"slowDeqIdx", "popDeq", "seekDeq", "slowDone", "slowGot"}
        /\ pc'[t] \notin RegisterPcs
    BY DEF PutPcs, FastPcs, OpenPcs, Drawn, Asking, Helping, Answering, HelpPcs, SeekPcs, NodePcs, Registered,
           RegisterPcs
  <1>3. Ahead /\ TypeInv /\ Own(t)
    <2>1. TypeInv /\ Own(t) BY DEF IInv
    <2>2. popIndex \in Nat BY <2>1 DEF TypeInv
    <2>3. QED BY <2>1, <2>2 DEF Ahead
  <1>4. AllWishes
    <2>1. ASSUME NEW p \in Thread PROVE Wish(p) BY <1>1, <1>2, <1>3, WishStill, Status DEF Alone
    <2>2. QED BY <2>1 DEF AllWishes
  <1>5. Apart(t) BY DEF Apart, Alone
  <1>6. DrawInv(t)' /\ DeqInv(t)' BY <1>1, <1>2, <1>3 DEF Own, DrawInv, DeqInv
  <1>7. HelpInv(t)' /\ ValInv(t)' /\ SeekInv(t)' BY <1>2 DEF HelpInv, HelpAt, ValInv, ValAt, SeekInv
  <1>8. RingInv' BY <1>1, <1>2 DEF Alone, Registered, IInv, Whole, RingInv, RingSet
  <1>9. NodesInv' BY DEF IInv, Whole, NodesInv
  <1>10. TakenInv' /\ TakenOnce' BY <1>4, TakenKept
  <1>11. QED BY <1>3, <1>4, <1>5, <1>6, <1>7, <1>8, <1>9, <1>10, StepIs DEF Effects, Own

\* Steps that only look, and leave the cells and the requests as they are.
LEMMA PutMoves ==
    ASSUME IInv, Bounded, NEW t \in Thread, TypeInv', Alone(t),
           putIndex <= putIndex', popIndex' = popIndex, popNode' = popNode, deq' = deq, enq' = enq,
           eh' = eh, dh' = dh, ring' = ring, result' = result, cells' = cells, calls' = calls,
           nodes'.pop = nodes.pop, nodes'.put <= Segment(putIndex'),
           pc[t] \in PutPcs, pc'[t] \in PutPcs \ {"idle"}, InPut(t), InPut(t)',
           Open(t)' <=> Open(t), local'[t].id = local[t].id,
           local'[t].index = local[t].index \/ local'[t].index = putIndex,
           PutInv(t)', ReqInv(t)'
    PROVE  IInv'
  <1>0. TypeInv /\ Own(t) /\ Current(t)' = Current(t) BY DEF IInv, Current
  <1>1. Ahead /\ TypeInv /\ Own(t) /\ Current(t)' = Current(t) /\ calls[t] <= calls'[t]
    <2>1. popIndex \in Nat /\ calls[t] \in Int BY <1>0, CurrentIs DEF TypeInv
    <2>2. QED BY <1>0, <2>1 DEF Ahead
  <1>2. /\ putIndex \in Nat /\ putIndex' \in Nat /\ local[t].index \in Used .. putIndex - 1
        /\ Used \in Nat /\ local[t].id \in Int
    BY <1>1, Nulls, LocalIs DEF TypeInv, Own, PutInv
  <1>3. ASSUME NEW c \in Number, cells[c] # Null PROVE Placed(t, c)'
    BY <1>3, Nulls, <1>1, <1>2 DEF IInv, Whole, ItemInv, ItemAt, Number, Placed
  <1>4. ItemInv' /\ OneCell' /\ AllGrow BY <1>1, <1>3, ItemStill
  <1>5. Fast(t)' <=> Fast(t) BY DEF InPut, Fast, Open, FastPcs, OpenPcs
  <1>6. ASSUME NEW u \in Thread \ {t} PROVE Request(u) BY <1>1, RequestStill DEF Alone
  <1>7. Request(t) BY <1>1, <1>2, <1>5 DEF Request, Known
  <1>8. QED BY <1>4, <1>6, <1>7, PutStep DEF AllRequests

LEMMA IndexStays ==
    ASSUME TypeInv, TypeInv', NEW t \in Thread, PutInv(t), InPut(t), Alone(t), putIndex <= putIndex',
           putNode'[t] = putNode[t], local'[t].index = local[t].index
    PROVE  /\ putNode'[t] <= Segment(putIndex') /\ local'[t].index \in Used .. putIndex' - 1
           /\ putNode'[t] <= Segment(local'[t].index)
           /\ \A u \in Thread \ {t} : InPut(u)' => local'[u].index # local'[t].index
  <1>1. putIndex \in Nat /\ putIndex' \in Nat /\ Used \in Nat /\ putNode[t] \in Nat
    BY Nulls, RequestIs DEF TypeInv
  <1>2. putNode'[t] <= Segment(putIndex') BY <1>1, Segments DEF PutInv
  <1>3. ASSUME NEW u \in Thread \ {t}, InPut(u)' PROVE local'[u].index # local'[t].index
    BY <1>3, Status DEF Alone, PutInv
  <1>4. QED BY <1>1, <1>2, <1>3 DEF PutInv

\* The pc of one thread changes.
LEMMA Moves ==
    ASSUME TypeInv, NEW t \in Thread, NEW l, pc' = [pc EXCEPT ![t] = l]
    PROVE  /\ pc'[t] = l /\ \A u \in Thread \ {t} : pc'[u] = pc[u]
           /\ l \in PcLabels => pc' \in [Thread -> PcLabels]
  BY DEF TypeInv

LEMMA PutLooks ==
    ASSUME IInv, Bounded, NEW t \in Thread, NEW l, pc' = [pc EXCEPT ![t] = l],
           UNCHANGED <<shared, handles, history, local>>,
           pc[t] \in FastPcs \cup OpenPcs, l \in FastPcs \cup OpenPcs,
           pc[t] \in FastPcs <=> l \in FastPcs, l \notin {"slowId", "slowRaise", "slowSet"},
           l \in {"putCell", "putNew", "putVal", "putCas", "slowCell", "slowNew", "slowEnq",
                  "slowCas", "slowClaim"} => local[t].cell = local[t].index,
           l \in {"putVal", "putCas", "slowEnq", "slowCas", "slowClaim"}
               => cells[local[t].index] # Null,
           l = "slowClaim" => cells[local[t].index].enq = t,
           l = "slowEnd" => enq[t].id < 0
    PROVE  IInv'
  <1>1. TypeInv /\ Own(t) /\ NodesInv BY DEF IInv, Whole
  <1>2. pc'[t] = l /\ Alone(t) /\ pc' \in [Thread -> PcLabels]
    <2>1. l \in PcLabels BY DEF FastPcs, OpenPcs, PcLabels
    <2>2. QED BY <1>1, <2>1, Moves DEF Alone, shared, handles, history
  <1>3. TypeInv'
    BY <1>2, <1>1 DEF FastPcs, OpenPcs, InCall, Registered, Alone, TypeInv, shared, handles, history
  <1>4. Pc(t) = pc[t] /\ Pc(t)' = l /\ pc[t] # "chasePut" /\ l # "chasePut"
    BY <1>2 DEF Pc, FastPcs, OpenPcs
  <1>5. InPut(t) /\ InPut(t)' /\ (Open(t)' <=> Open(t))
    BY <1>4 DEF InPut, Fast, Open, FastPcs, OpenPcs
  <1>6. putIndex <= putIndex' /\ nodes'.put <= Segment(putIndex')
    BY <1>1 DEF TypeInv, NodesInv, shared
  <1>7. PutInv(t)' BY <1>1, <1>2, <1>3, <1>5, <1>6, IndexStays, <1>4 DEF Own, shared, PutInv
  <1>8. ReqInv(t)' BY <1>1, <1>2, <1>5 DEF Claimed, Current, shared, history, Own, ReqInv
  <1>9. pc[t] \in PutPcs /\ pc'[t] \in PutPcs \ {"idle"} BY <1>2 DEF PutPcs, FastPcs, OpenPcs
  <1>10. QED
    BY <1>1, <1>2, <1>3, <1>5, <1>6, <1>7, <1>8, <1>9, PutMoves DEF shared, handles, history

LEMMA PutCellStep ==
    ASSUME IInv, Bounded, NEW t \in Thread, PutCell(t)
    PROVE  IInv'
  <1>1. local[t].cell = local[t].index BY DEF IInv, Own, PutInv, Pc, PutCell
  <1>2. QED BY <1>1, PutLooks DEF PutCell, Keep, Goto, Empty, FastPcs, OpenPcs

LEMMA PutValStep ==
    ASSUME IInv, Bounded, NEW t \in Thread, PutVal(t)
    PROVE  IInv'
  <1>1. local[t].cell = local[t].index /\ cells[local[t].index] # Null
    BY DEF IInv, Own, PutInv, Pc, PutVal
  <1>2. QED BY <1>1, PutLooks DEF PutVal, Keep, Goto, FastPcs, OpenPcs

\* The first index of a queue that was used is not 0: a request is open or has
\* a cell.
LEMMA SlowTestStep ==
    ASSUME IInv, Bounded, Used > 0, NEW t \in Thread, SlowTest(t)
    PROVE  IInv'
  <1>1. enq[t].id \in Int /\ Used \in Int /\ local[t].id \in Int /\ Cells \in Nat
    BY RequestIs, LocalIs, Nulls DEF IInv
  <1>2. Open(t) BY DEF SlowTest, Open, Pc, OpenPcs
  <1>3. enq[t].id > 0 \/ enq[t].id < 0 BY <1>1, <1>2 DEF IInv, Own, ReqInv, Claimed
  <1>4. QED BY <1>1, <1>3, PutLooks DEF SlowTest, Keep, Goto, FastPcs, OpenPcs

LEMMA SlowCellStep ==
    ASSUME IInv, Bounded, NEW t \in Thread, SlowCell(t)
    PROVE  IInv'
  <1>1. local[t].cell = local[t].index BY DEF IInv, Own, PutInv, Pc, SlowCell
  <1>2. QED BY <1>1, PutLooks DEF SlowCell, Keep, Goto, Empty, FastPcs, OpenPcs

LEMMA SlowEnqStep ==
    ASSUME IInv, Bounded, NEW t \in Thread, SlowEnq(t)
    PROVE  IInv'
  <1>1. local[t].cell = local[t].index /\ cells[local[t].index] # Null
    BY DEF IInv, Own, PutInv, Pc, SlowEnq
  <1>2. QED BY <1>1, PutLooks DEF SlowEnq, Keep, Goto, FastPcs, OpenPcs

LEMMA ChasePutStep ==
    ASSUME IInv, Bounded, NEW t \in Thread, ChasePut(t)
    PROVE  IInv'
  <1>1. TypeInv /\ Own(t) /\ NodesInv BY DEF IInv, Whole
  <1>2. local[t].back \in {"putCell", "slowCell"} /\ pc[t] = "chasePut"
    BY <1>1 DEF ChasePut, Own, PutInv
  <1>3. /\ pc'[t] = local[t].back /\ Alone(t) /\ pc' \in [Thread -> PcLabels]
    <2>1. local[t].back \in PcLabels BY <1>2 DEF PcLabels
    <2>2. pc' = [pc EXCEPT ![t] = local[t].back] BY DEF ChasePut, Keep, Goto
    <2>3. /\ pc'[t] = local[t].back /\ pc' \in [Thread -> PcLabels]
          /\ \A u \in Thread \ {t} : pc'[u] = pc[u]
      BY <1>1, <2>1, <2>2, Moves
    <2>4. /\ local' = local /\ calls' = calls /\ putNode' = putNode /\ popNode' = popNode
          /\ eh' = eh /\ dh' = dh
      BY DEF ChasePut, Keep, handles, history
    <2>5. QED BY <2>3, <2>4 DEF Alone
  <1>4. /\ nodes.put \in Nat /\ nodes.pop \in Nat /\ putNode[t] \in Nat /\ putIndex \in Nat
        /\ nodes'.pop = nodes.pop /\ nodes'.put = Later(nodes.put, putNode[t])
        /\ nodes' \in [put : Nat, pop : Nat]
    BY <1>1 DEF ChasePut, TypeInv, Later
  <1>5. putIndex <= putIndex' /\ nodes'.put <= Segment(putIndex')
    BY <1>1, <1>4 DEF ChasePut, Own, PutInv, NodesInv, Later
  <1>6. TypeInv'
    BY <1>2, <1>3, <1>1, <1>4 DEF InCall, Registered, Alone, ChasePut, Keep, TypeInv, handles, history
  <1>7. Pc(t) = local[t].back /\ Pc(t)' = local[t].back BY <1>2, <1>3 DEF Pc
  <1>8. InPut(t) /\ InPut(t)' /\ (Open(t)' <=> Open(t))
    BY <1>2, <1>7 DEF InPut, Fast, Open, FastPcs, OpenPcs
  <1>9. PutInv(t)'
    <2>1. /\ putNode'[t] <= Segment(putIndex') /\ local'[t].index \in Used .. putIndex' - 1
          /\ putNode'[t] <= Segment(local'[t].index)
          /\ \A u \in Thread \ {t} : InPut(u)' => local'[u].index # local'[t].index
      BY <1>1, <1>3, <1>5, <1>6, <1>8, IndexStays DEF Own, ChasePut, Keep
    <2>2. QED BY <1>1, <1>2, <1>3, <1>7, <2>1 DEF Own, PutInv, ChasePut, Keep
  <1>10. ReqInv(t)'
    BY <1>1, <1>2, <1>3, <1>8 DEF Claimed, Current, ChasePut, Keep, history, Own, ReqInv
  <1>11. pc[t] \in PutPcs /\ pc'[t] \in PutPcs \ {"idle"} BY <1>2, <1>3 DEF PutPcs, FastPcs, OpenPcs
  <1>12. QED
    BY <1>3, <1>4, <1>5, <1>6, <1>8, <1>9, <1>10, <1>11, PutMoves DEF ChasePut, Keep, handles, history

LEMMA SlowEndStep ==
    ASSUME IInv, Bounded, NEW t \in Thread, SlowEnd(t)
    PROVE  IInv'
  <1>1. TypeInv /\ Own(t) /\ NodesInv /\ pc[t] = "slowEnd" BY DEF IInv, Whole, SlowEnd, SlowEndFrom
  <1> DEFINE i == -enq[t].id
             l == IF i > local[t].index THEN "slowRaise" ELSE "slowSet"
             f == [local[t] EXCEPT !.i = i, !.cell = i]
  <1>2. /\ pc' = [pc EXCEPT ![t] = l]
        /\ local' = [local EXCEPT ![t].i = i, ![t].cell = At(FindCell(local[t].reserve, i), i)]
        /\ UNCHANGED <<shared, handles, history>>
    BY DEF SlowEnd, SlowEndFrom, Goto
  <1>3. Open(t) /\ InPut(t) BY <1>1 DEF Open, InPut, Pc, OpenPcs
  <1>4. /\ local[t].index \in Used .. putIndex - 1 /\ putIndex \in Nat /\ Used \in Nat /\ Cells \in Nat
        /\ local[t].id \in Nat /\ local[t].reserve \in Nat /\ local[t].reserve <= Segment(local[t].id)
        /\ enq[t].id < 0 /\ enq[t].id \in Int
    <2>1. /\ putIndex \in Nat /\ Used \in Nat /\ Cells \in Nat /\ local[t].id \in Int
          /\ local[t].index \in Int /\ enq[t].id \in Int /\ local[t].reserve \in Nat
      BY <1>1, Nulls, RequestIs, LocalIs DEF TypeInv
    <2>2. /\ local[t].index \in Used .. putIndex - 1 /\ local[t].id \in Used .. local[t].index
          /\ local[t].reserve <= Segment(local[t].id) /\ enq[t].id < 0
      BY <1>1, <1>3 DEF Own, PutInv, ReqInv
    <2>3. QED BY <2>1, <2>2
  <1>5. i \in Nat /\ i >= local[t].id BY <1>1, <1>3, <1>4 DEF Own, ReqInv, Claimed
  <1>6. At(FindCell(local[t].reserve, i), i) = i
    <2>1. local[t].reserve <= Segment(i) BY <1>4, <1>5, Segments
    <2>2. QED BY <1>4, <1>5, <2>1, Segments
  <1>7. f \in Local /\ f.i = i /\ f.cell = i /\ f.index = local[t].index /\ f.id = local[t].id
        /\ f.reserve = local[t].reserve
    <2>1. local[t] \in Local /\ i \in Int BY <1>1, <1>5, LocalIs
    <2> HIDE DEF i
    <2>2. QED BY <2>1 DEF Local
  <1>8. pc'[t] = l /\ local'[t] = f /\ Alone(t) /\ pc' \in [Thread -> PcLabels]
    <2> HIDE DEF f
    <2>1. l \in PcLabels BY DEF PcLabels
    <2>2. pc'[t] = l /\ (\A u \in Thread \ {t} : pc'[u] = pc[u]) /\ pc' \in [Thread -> PcLabels]
      BY <1>1, <1>2, <2>1, Moves
    <2>3. local'[t] = f /\ \A u \in Thread \ {t} : local'[u] = local[u]
      BY <1>1, <1>2, <1>6 DEF TypeInv, f
    <2>4. QED BY <1>2, <2>2, <2>3 DEF Alone, shared, handles, history
  <1>9. TypeInv'
    <2> HIDE DEF f, l
    <2>1. ASSUME NEW u \in Thread, InCall(u)' PROVE InCall(u)
      BY <1>1, <1>8, <2>1 DEF InCall, Registered, Alone
    <2>2. local' \in [Thread -> Local] BY <1>1, <1>2, <1>7, <1>8 DEF TypeInv, Alone
    <2>3. QED BY <1>1, <1>2, <1>8, <2>1, <2>2 DEF TypeInv, shared, handles, history
  <1>10. l \in {"slowRaise", "slowSet"} /\ (l = "slowSet" => i < putIndex) BY <1>4, <1>5
  <1> HIDE DEF f, l, i
  <1>11. Open(t)' /\ InPut(t)' /\ Pc(t)' = l BY <1>8, <1>10 DEF Open, InPut, Pc, OpenPcs
  <1>12. putIndex <= putIndex' /\ nodes'.put <= Segment(putIndex')
    BY <1>1, <1>2, <1>4 DEF NodesInv, shared
  <1>13. PutInv(t)'
    <2>1. /\ putNode'[t] <= Segment(putIndex') /\ local'[t].index \in Used .. putIndex' - 1
          /\ putNode'[t] <= Segment(local'[t].index)
          /\ \A u \in Thread \ {t} : InPut(u)' => local'[u].index # local'[t].index
      BY <1>1, <1>2, <1>3, <1>7, <1>8, <1>9, <1>12, IndexStays DEF Own, shared
    <2>2. QED BY <1>8, <1>10, <1>11, <2>1 DEF PutInv
  <1>14. ReqInv(t)'
    <2>1. Claimed(t)' <=> Claimed(t) BY <1>2, <1>7, <1>8 DEF Claimed, Current, shared, history
    <2>2. enq'[t].id < 0 /\ i = -enq'[t].id BY <1>2, <1>4 DEF i, shared
    <2>3. QED
      BY <1>1, <1>2, <1>3, <1>7, <1>8, <1>10, <1>11, <2>1, <2>2 DEF Own, ReqInv, Current, shared, history
  <1>15. pc[t] \in PutPcs /\ pc'[t] \in PutPcs \ {"idle"}
    BY <1>1, <1>8, <1>10 DEF PutPcs, FastPcs, OpenPcs
  <1>16. QED
    BY <1>1, <1>2, <1>3, <1>7, <1>8, <1>9, <1>11, <1>12, <1>13, <1>14, <1>15, PutMoves
       DEF shared, handles, history

LEMMA SlowRaiseStep ==
    ASSUME IInv, Bounded, NEW t \in Thread, SlowRaise(t)
    PROVE  IInv'
  <1>1. TypeInv /\ Own(t) /\ NodesInv /\ pc[t] = "slowRaise" BY DEF IInv, Whole, SlowRaise
  <1>2. /\ pc' = [pc EXCEPT ![t] = "slowSet"] /\ putIndex' = Later(putIndex, local[t].i + 1)
        /\ UNCHANGED <<popIndex, cells, ring, nodes, putNode, popNode, enq, deq, handles, history, local>>
    BY DEF SlowRaise, Keep, Goto, Raise
  <1>3. Open(t) /\ InPut(t) BY <1>1 DEF Open, InPut, Pc, OpenPcs
  <1>4. /\ putIndex \in Nat /\ local[t].i \in Int /\ putIndex' \in Nat /\ putIndex <= putIndex'
        /\ local[t].i < putIndex' /\ nodes'.put <= Segment(putIndex') /\ nodes.put \in Nat /\ Used <= putIndex'
        /\ Used \in Nat
    <2>1. putIndex \in Nat /\ local[t].i \in Int /\ nodes.put \in Nat /\ Used \in Nat /\ Used <= putIndex
      BY <1>1, LocalIs, Nulls DEF TypeInv
    <2>2. putIndex' \in Nat /\ putIndex <= putIndex' /\ local[t].i < putIndex'
      BY <1>2, <2>1 DEF Later
    <2>3. nodes'.put <= Segment(putIndex') BY <1>1, <1>2, <2>1, <2>2, Segments DEF NodesInv
    <2>4. QED BY <2>1, <2>2, <2>3
  <1>5. pc'[t] = "slowSet" /\ Alone(t) /\ pc' \in [Thread -> PcLabels]
    <2>1. "slowSet" \in PcLabels BY DEF PcLabels
    <2>2. QED BY <1>1, <1>2, <2>1, Moves DEF Alone, handles, history
  <1>6. TypeInv' BY <1>1, <1>5, <1>2, <1>4 DEF InCall, Registered, Alone, TypeInv, handles, history
  <1>7. Open(t)' /\ InPut(t)' /\ Pc(t)' = "slowSet" BY <1>5 DEF Open, InPut, Pc, OpenPcs
  <1>8. PutInv(t)'
    <2>1. /\ putNode'[t] <= Segment(putIndex') /\ local'[t].index \in Used .. putIndex' - 1
          /\ putNode'[t] <= Segment(local'[t].index)
          /\ \A u \in Thread \ {t} : InPut(u)' => local'[u].index # local'[t].index
      BY <1>1, <1>2, <1>3, <1>4, <1>5, <1>6, IndexStays DEF Own
    <2>2. QED BY <1>5, <1>7, <2>1 DEF PutInv
  <1>9. ReqInv(t)' BY <1>2, <1>1, <1>3, <1>4, <1>5, <1>7 DEF Claimed, Current, history, Own, ReqInv
  <1>10. pc[t] \in PutPcs /\ pc'[t] \in PutPcs \ {"idle"} BY <1>1, <1>5 DEF PutPcs, FastPcs, OpenPcs
  <1>11. QED
    BY <1>1, <1>2, <1>3, <1>4, <1>5, <1>6, <1>7, <1>8, <1>9, <1>10, PutMoves
       DEF handles, history

\* An index that is drawn is new, and its cell is where the handle says.
LEMMA DrawIs ==
    ASSUME TypeInv, NodesInv, NEW t \in Thread, PutInv(t), NEW l \in {"putCell", "slowCell"},
           NEW r \in Nat, Draw(t, l, r)
    PROVE  /\ putIndex' = putIndex + 1 /\ putIndex \in Nat
           /\ putNode' \in [Thread -> Nat] /\ putNode'[t] = Segment(putIndex)
           /\ putNode'[t] <= Segment(putIndex')
           /\ nodes' = nodes /\ nodes'.put <= Segment(putIndex')
           /\ local'[t].index = putIndex /\ local'[t].cell = putIndex /\ local'[t].back = l
           /\ local'[t].reserve = r /\ local'[t].id = local[t].id /\ local' \in [Thread -> Local]
           /\ pc' \in [Thread -> PcLabels] /\ pc'[t] \in {"chasePut", l} /\ Pc(t)' = l
           /\ \A u \in Thread \ {t} :
                  pc'[u] = pc[u] /\ local'[u] = local[u] /\ putNode'[u] = putNode[u]
           /\ UNCHANGED <<popIndex, cells, ring, popNode, enq, deq, handles, program, result>>
  <1>1. putIndex \in Nat /\ putIndex + 1 \in Nat /\ putNode[t] \in Nat /\ nodes.put \in Nat
    BY RequestIs DEF TypeInv
  <1>2. FindCell(putNode[t], putIndex) = Segment(putIndex) /\ At(Segment(putIndex), putIndex) = putIndex
    BY <1>1, Segments DEF PutInv
  <1>3. Segment(putIndex) \in Nat /\ Segment(putIndex) <= Segment(putIndex + 1)
        /\ Segment(putIndex + 1) \in Nat
    BY <1>1, Segments
  <1> DEFINE f == [local[t] EXCEPT !.index = putIndex, !.cell = putIndex, !.back = l, !.reserve = r]
             m == IF putNode[t] < Segment(putIndex) THEN "chasePut" ELSE l
  <1>4. /\ putIndex' = putIndex + 1 /\ putNode' = [putNode EXCEPT ![t] = Segment(putIndex)]
        /\ local' = [local EXCEPT ![t].index = putIndex, ![t].cell = putIndex, ![t].back = l,
                                  ![t].reserve = r]
        /\ pc' = [pc EXCEPT ![t] = m]
        /\ UNCHANGED <<popIndex, cells, ring, nodes, popNode, enq, deq, handles, program, result>>
    BY <1>2 DEF Draw, Goto
  <1>5. /\ f \in Local /\ f.index = putIndex /\ f.cell = putIndex /\ f.back = l /\ f.reserve = r
        /\ f.id = local[t].id
    <2>1. local[t] \in Local /\ l \in PcLabels /\ putIndex \in Int BY <1>1, LocalIs DEF PcLabels
    <2>2. QED BY <2>1 DEF Local
  <1>6. local'[t] = f /\ \A u \in Thread \ {t} : local'[u] = local[u] BY <1>4 DEF TypeInv
  <1> HIDE DEF f
  <1>7. local' \in [Thread -> Local] BY <1>4, <1>5, <1>6 DEF TypeInv
  <1>8. m \in {"chasePut", l} /\ m \in PcLabels BY DEF PcLabels
  <1> HIDE DEF m
  <1>9. pc'[t] = m /\ pc' \in [Thread -> PcLabels] /\ \A u \in Thread \ {t} : pc'[u] = pc[u]
    BY <1>4, <1>8, Moves
  <1>10. Pc(t)' = l BY <1>5, <1>6, <1>8, <1>9 DEF Pc
  <1>11. nodes.put <= Segment(putIndex + 1) BY <1>1, <1>3 DEF NodesInv
  <1>12. putNode' \in [Thread -> Nat] /\ putNode'[t] = Segment(putIndex)
         /\ \A u \in Thread \ {t} : putNode'[u] = putNode[u]
    BY <1>3, <1>4 DEF TypeInv
  <1>13. QED BY <1>1, <1>3, <1>4, <1>5, <1>6, <1>7, <1>8, <1>9, <1>10, <1>11, <1>12

LEMMA SlowPutStep ==
    ASSUME IInv, Bounded, NEW t \in Thread, SlowPut(t)
    PROVE  IInv'
  <1>1. TypeInv /\ Own(t) /\ NodesInv /\ pc[t] = "slowPut" /\ PutInv(t)
    BY DEF IInv, Whole, SlowPut, Own
  <1>2. local[t].reserve \in Nat BY <1>1, LocalIs
  <1>3. /\ putIndex' = putIndex + 1 /\ putIndex \in Nat
        /\ putNode' \in [Thread -> Nat] /\ putNode'[t] = Segment(putIndex)
        /\ putNode'[t] <= Segment(putIndex') /\ nodes' = nodes /\ nodes'.put <= Segment(putIndex')
        /\ local'[t].index = putIndex /\ local'[t].cell = putIndex /\ local'[t].back = "slowCell"
        /\ local'[t].reserve = local[t].reserve /\ local'[t].id = local[t].id
        /\ local' \in [Thread -> Local]
        /\ pc' \in [Thread -> PcLabels] /\ pc'[t] \in {"chasePut", "slowCell"} /\ Pc(t)' = "slowCell"
        /\ \A u \in Thread \ {t} :
               pc'[u] = pc[u] /\ local'[u] = local[u] /\ putNode'[u] = putNode[u]
        /\ UNCHANGED <<popIndex, cells, ring, popNode, enq, deq, handles, program, result>>
    BY <1>1, <1>2, DrawIs DEF SlowPut
  <1>4. calls' = calls /\ Alone(t) BY <1>3 DEF SlowPut, Alone, handles
  <1>5. Open(t) /\ InPut(t) /\ Open(t)' /\ InPut(t)' BY <1>1, <1>3 DEF Open, InPut, Pc, OpenPcs
  <1>6. putIndex <= putIndex' /\ putIndex' \in Nat BY <1>3
  <1>7. TypeInv'
    <2>1. ASSUME NEW u \in Thread, InCall(u)' PROVE InCall(u)
      BY <1>1, <1>4, <2>1 DEF InCall, Registered, Alone
    <2>2. TypeInv /\ Used <= putIndex' BY SMTT(60), <1>1, <1>3, Nulls DEF TypeInv
    <2>3. UNCHANGED <<popIndex, cells, ring, nodes, popNode, enq, deq, eh, dh, program, calls, result>>
      BY <1>3, <1>4 DEF handles
    <2>4. putIndex' \in Nat /\ putNode' \in [Thread -> Nat] /\ pc' \in [Thread -> PcLabels]
          /\ local' \in [Thread -> Local]
      BY <1>3, <1>6
    <2>5. QED BY <2>1, <2>2, <2>3, <2>4 DEF TypeInv
  <1>8. Used \in Nat /\ Used <= putIndex BY <1>1, Nulls DEF TypeInv
  <1>9. PutInv(t)' BY <1>4, Status, <1>3, <1>8, Segments DEF Alone, IInv, Own, PutInv
  <1>10. ReqInv(t)' BY <1>1, <1>5, <1>3, <1>8, <1>4 DEF Own, ReqInv, PutInv, Claimed, Current
  <1>11. pc[t] \in PutPcs /\ pc'[t] \in PutPcs \ {"idle"} BY <1>1, <1>3 DEF PutPcs, FastPcs, OpenPcs
  <1>12. QED BY <1>3, <1>4, <1>5, <1>6, <1>7, <1>9, <1>10, <1>11, PutMoves DEF handles

LEMMA BeginsIs ==
    ASSUME TypeInv, NEW t \in Thread, NEW k, Begins(t, k)
    PROVE  /\ pc[t] = "idle" /\ calls[t] \in Nat /\ calls'[t] = calls[t] + 1
           /\ calls' \in [Thread -> 0 .. MaxCalls]
           /\ \A u \in Thread \ {t} : calls'[u] = calls[u]
  <1>1. calls \in [Thread -> 0 .. MaxCalls] /\ MaxCalls \in Nat /\ program \in Programs
    BY Nulls DEF TypeInv
  <1>2. program[t] \in Seq({"enqueue", "dequeue"}) /\ Len(program[t]) <= MaxCalls
    BY <1>1, CellsAssumption
  <1>3. calls[t] \in Nat /\ calls[t] < Len(program[t]) /\ Len(program[t]) \in Nat
    BY <1>1, <1>2 DEF Begins
  <1>4. calls[t] + 1 \in 0 .. MaxCalls BY <1>1, <1>2, <1>3
  <1>5. QED BY <1>1, <1>3, <1>4 DEF Begins

LEMMA EnqueueStep ==
    ASSUME IInv, Bounded, NEW t \in Thread, Enqueue(t)
    PROVE  IInv'
  <1>1. TypeInv /\ Own(t) /\ NodesInv /\ PutInv(t) /\ ReqInv(t) BY DEF IInv, Whole, Own
  <1>2. /\ pc[t] = "idle" /\ calls[t] \in Nat /\ calls'[t] = calls[t] + 1
        /\ calls' \in [Thread -> 0 .. MaxCalls]
        /\ \A u \in Thread \ {t} : calls'[u] = calls[u]
    BY <1>1, BeginsIs DEF Enqueue
  <1>3. /\ putIndex' = putIndex + 1 /\ putIndex \in Nat
        /\ putNode' \in [Thread -> Nat] /\ putNode'[t] = Segment(putIndex)
        /\ putNode'[t] <= Segment(putIndex') /\ nodes' = nodes /\ nodes'.put <= Segment(putIndex')
        /\ local'[t].index = putIndex /\ local'[t].cell = putIndex /\ local'[t].back = "putCell"
        /\ local' \in [Thread -> Local]
        /\ pc' \in [Thread -> PcLabels] /\ pc'[t] \in {"chasePut", "putCell"} /\ Pc(t)' = "putCell"
        /\ \A u \in Thread \ {t} :
               pc'[u] = pc[u] /\ local'[u] = local[u] /\ putNode'[u] = putNode[u]
        /\ UNCHANGED <<popIndex, cells, ring, popNode, enq, deq, handles, program, result>>
    BY <1>1, DrawIs DEF Enqueue
  <1>4. Alone(t) BY <1>2, <1>3 DEF Alone, handles
  <1>5. ~Open(t) /\ ~InPut(t) /\ ~Open(t)' /\ InPut(t)' /\ Fast(t)'
    BY <1>2, <1>3 DEF Open, InPut, Fast, Pc, OpenPcs, FastPcs
  <1>6. putIndex <= putIndex' /\ putIndex' \in Nat BY <1>3
  <1>7. TypeInv'
    <2>1. ASSUME NEW u \in Thread, InCall(u)' PROVE calls'[u] # 0
      <3>1. CASE u = t BY <1>2, <3>1
      <3>2. CASE u # t BY <1>4, <2>1, <3>2, <1>1, <1>2 DEF InCall, Registered, Alone, TypeInv
      <3>3. QED BY <3>1, <3>2
    <2>2. putIndex' \in Nat /\ Used <= putIndex' BY <1>1, <1>3, <1>6, Nulls DEF TypeInv
    <2>3. QED BY <1>1, <1>2, <1>3, <2>1, <2>2 DEF TypeInv, handles
  <1>8. Used \in Nat /\ Used <= putIndex BY <1>1, Nulls DEF TypeInv
  <1>9. PutInv(t)' BY <1>4, Status, <1>3, <1>8, Segments DEF Alone, IInv, Own, PutInv
  <1>10. ReqInv(t)' BY <1>1, <1>3, <1>5 DEF ReqInv
  <1>11. ASSUME NEW c \in Number, cells[c] # Null PROVE Placed(t, c)'
    <2>1. /\ cells[c].val \in Op => c < putIndex /\ cells[c].val[2] <= calls[cells[c].val[1]]
          /\ cells[c].val = Null /\ cells[c].enq \in Thread => c < putIndex
      BY <1>11 DEF IInv, Whole, ItemInv, ItemAt
    <2>2. cells[c].val # Current(t)'
      <3>1. SUFFICES ASSUME cells[c].val = Current(t)' PROVE FALSE OBVIOUS
      <3>2. calls'[t] \in 1 .. MaxCalls BY <1>2, Nulls
      <3>3. Current(t)' = <<t, calls'[t]>> BY DEF Current
      <3>4. cells[c].val \in Op /\ cells[c].val[1] = t /\ cells[c].val[2] = calls'[t]
        BY <3>1, <3>2, <3>3, OpIs
      <3>5. calls'[t] <= calls[t] BY <2>1, <3>4
      <3>6. QED BY <1>2, <3>5
    <2>3. c \in Nat BY Nulls DEF Number
    <2>4. QED BY <1>3, <1>5, <2>1, <2>2, <2>3 DEF Placed
  <1>12. ItemInv' /\ OneCell' /\ AllGrow BY <1>1, <1>2, <1>3, <1>4, <1>6, <1>7, <1>11, ItemStill
  <1>13. Ahead BY <1>1, <1>3, <1>6 DEF TypeInv, Ahead
  <1>14. ASSUME NEW u \in Thread \ {t} PROVE Request(u)
    BY <1>1, <1>3, <1>4, <1>7, <1>13, RequestStill DEF Alone
  <1>15. Request(t) BY <1>3, <1>5, <1>6 DEF Request, Known
  <1>16. pc[t] \in PutPcs /\ pc'[t] \in PutPcs \ {"idle"} BY <1>2, <1>3 DEF PutPcs, FastPcs, OpenPcs
  <1>17. QED
    BY <1>3, <1>4, <1>6, <1>7, <1>9, <1>10, <1>12, <1>14, <1>15, <1>16, PutStep DEF AllRequests, handles

LEMMA BlankIs ==
    Blank \in Local
  BY Nulls DEF Blank, Local, PcLabels

\* An enqueue ends with its item in cell c.
LEMMA PutEnds ==
    ASSUME IInv, Bounded, NEW t \in Thread, InPut(t), NEW c \in Number, NEW r \in Cell,
           pc[t] \in PutPcs \ {"idle", "chasePut"}, pc' = [pc EXCEPT ![t] = "idle"],
           local' = [local EXCEPT ![t] = Blank], cells' = [cells EXCEPT ![c] = r],
           UNCHANGED <<putIndex, popIndex, ring, nodes, putNode, popNode, enq, deq, handles, history>>,
           r.val = Current(t), r.enq \in {Null, t}, c < putIndex, Grows(c),
           r.enq = Null => \A u \in Thread \ {t} : InPut(u) => local[u].index # c,
           \A d \in Number : cells[d] # Null /\ cells[d].val = Current(t) => d = c,
           cells[c] # Null => cells[c].enq \notin Thread \ {t},
           enq[t].id <= 0, enq[t].id < 0 => -enq[t].id \in Number /\ cells'[-enq[t].id] # Null
                                            /\ cells'[-enq[t].id].val \in Op,
           Open(t) => enq[t].id = -c
    PROVE  IInv'
  <1>1. TypeInv /\ Own(t) /\ NodesInv /\ PutInv(t) BY DEF IInv, Whole, Own
  <1>2. InCall(t) /\ Current(t) \in Op /\ Current(t) = <<t, calls[t]>> /\ calls[t] \in 1 .. MaxCalls
    <2>1. InCall(t) BY DEF PutPcs, FastPcs, OpenPcs, InCall, Registered
    <2>2. calls[t] \in 1 .. MaxCalls BY <1>1, <2>1, Nulls DEF TypeInv
    <2>3. QED BY <1>1, <2>1, <2>2, CurrentIs
  <1>3. Alone(t) /\ pc'[t] = "idle" /\ pc' \in [Thread -> PcLabels] /\ local'[t] = Blank
        /\ local' \in [Thread -> Local]
    <2>1. "idle" \in PcLabels BY DEF PcLabels
    <2>2. pc'[t] = "idle" /\ pc' \in [Thread -> PcLabels] /\ (\A u \in Thread \ {t} : pc'[u] = pc[u])
      BY <1>1, <2>1, Moves
    <2>3. local'[t] = Blank /\ local' \in [Thread -> Local]
          /\ (\A u \in Thread \ {t} : local'[u] = local[u])
      BY <1>1, BlankIs DEF TypeInv
    <2>4. QED BY <2>2, <2>3 DEF Alone, handles, history
  <1>4. cells' \in [Number -> Cell \cup {Null}] /\ cells'[c] = r
        /\ \A d \in Number \ {c} : cells'[d] = cells[d]
    BY <1>1 DEF TypeInv
  <1>5. TypeInv' BY <1>2, <1>3, <1>1, <1>4 DEF InCall, Registered, Alone, TypeInv, handles, history
  <1>6. /\ putIndex \in Nat /\ popIndex \in Nat /\ c \in Nat /\ enq[t].id \in Int
        /\ MaxCalls \in Nat
    BY <1>1, RequestIs, Nulls DEF TypeInv, Number
  <1>7. ~InPut(t)' /\ ~Open(t)' /\ ~Fast(t)' /\ Pc(t)' = "idle"
    BY <1>3 DEF InPut, Open, Fast, Pc, OpenPcs, FastPcs
  <1>8. AllGrow BY <1>4 DEF AllGrow, Grows
  <1>9. ItemInv'
    <2>1. ASSUME NEW d \in Number \ {c}, cells'[d] # Null PROVE ItemAt(d)'
      <3>1. Placed(t, d)' BY <1>7 DEF Placed
      <3>2. QED BY <1>2, <1>3, <1>4, <1>5, <1>6, <2>1, <3>1, ItemStays DEF history
    <2>2. ASSUME NEW u \in Thread PROVE Placed(u, c)'
      BY <1>7, <1>2, <1>3, Status, <1>4, Nulls DEF Placed, Current, Alone
    <2>3. r.enq # Top /\ r.val \in Op /\ r.val[1] = t /\ r.val[2] = calls[t] BY <1>2, Nulls, OpIs
    <2>4. r.val \notin {Null, Old} BY <2>3, Nulls
    <2>5. c < putIndex' /\ r.val[2] <= calls'[r.val[1]] BY <1>2, <1>6, <2>3 DEF history
    <2>6. ItemAt(c)' BY <1>4, <2>2, <2>3, <2>4, <2>5 DEF ItemAt
    <2>7. QED BY <2>1, <2>6 DEF ItemInv
  <1>10. OneCell' BY <1>1, <1>4 DEF IInv, Whole, OneCell
  <1>11. Ahead BY <1>6 DEF Ahead
  <1>12. ASSUME NEW u \in Thread \ {t} PROVE Request(u)
    <2>1. ASSUME NEW d \in Number, Open(u), d > 0, enq[u].id = -d, cells[d] # Null
          PROVE  cells'[d].val \in {cells[d].val, Top, Current(u)}
      <3>1. CASE d # c BY <1>4, <3>1
      <3>2. CASE d = c BY <2>1, <1>1, Nulls, LocalIs, <1>6, <3>2 DEF IInv, Own, ReqInv, Claimed
      <3>3. QED BY <3>1, <3>2
    <2>2. QED BY <1>1, <1>3, <1>5, <1>11, <2>1, RequestStill DEF Alone
  <1>13. Request(t) BY <1>6, Nulls, <1>4, <1>7 DEF Number, Request, Known
  <1>14. PutInv(t)' BY <1>1, <1>3, <1>7 DEF PutInv
  <1>15. ReqInv(t)' BY <1>3, <1>7 DEF ReqInv
  <1>16. nodes'.pop = nodes.pop /\ nodes'.put <= Segment(putIndex') BY <1>1 DEF NodesInv
  <1>17. "idle" \in PutPcs BY DEF PutPcs
  <1>18. QED
    BY <1>3, <1>5, <1>6, <1>8, <1>9, <1>10, <1>12, <1>13, <1>14, <1>15, <1>16, <1>17, PutStep
       DEF AllRequests, handles, history

\* Before the request, the item of the call is in no cell, and its own cell has
\* no signature of another thread.
LEMMA FastIs ==
    ASSUME IInv, Bounded, NEW t \in Thread, Fast(t)
    PROVE  /\ local[t].index \in Number /\ local[t].index < putIndex /\ local[t].index >= Used
           /\ InPut(t) /\ ~Open(t) /\ enq[t].id <= 0
           /\ \A d \in Number : cells[d] # Null => cells[d].val # Current(t)
           /\ enq[t].id < 0 => /\ -enq[t].id \in Number /\ cells[-enq[t].id] # Null
                               /\ cells[-enq[t].id].val \in Op
           /\ \A u \in Thread \ {t} : InPut(u) => local[u].index # local[t].index
           /\ LET c == local[t].index
              IN  cells[c] # Null /\ cells[c].val = Null => cells[c].enq \in {Null, t}
  <1>1. InPut(t) /\ ~Open(t) BY DEF InPut, Fast, Open, FastPcs, OpenPcs
  <1>2. /\ local[t].index \in Used .. putIndex - 1
        /\ \A u \in Thread \ {t} : InPut(u) => local[u].index # local[t].index
    BY <1>1 DEF IInv, Own, PutInv
  <1>3. Used \in Nat /\ putIndex \in Nat /\ putIndex < Cells /\ Cells \in Nat
    BY Nulls DEF IInv, TypeInv, Bounded
  <1>4. local[t].index \in Number /\ local[t].index < putIndex /\ local[t].index >= Used
    BY <1>2, <1>3 DEF Number
  <1>5. ASSUME NEW d \in Number, cells[d] # Null PROVE Placed(t, d) /\ ItemAt(d)
    BY <1>5 DEF IInv, Whole, ItemInv, ItemAt
  <1>6. enq[t].id <= 0 /\ (enq[t].id < 0 => /\ -enq[t].id \in Number
                                            /\ cells[-enq[t].id] # Null
                                            /\ cells[-enq[t].id].val \in Op)
    BY <1>1 DEF IInv, Own, ReqInv
  <1>7. ASSUME cells[local[t].index] # Null, cells[local[t].index].val = Null
        PROVE  cells[local[t].index].enq \in {Null, t}
    BY <1>4, <1>7, CellIs, <1>5, Nulls, <1>1 DEF IInv, ItemAt, Placed
  <1>8. QED BY <1>1, <1>2, <1>4, <1>5, <1>6, <1>7 DEF Placed

LEMMA PutNewStep ==
    ASSUME IInv, Bounded, NEW t \in Thread, PutNew(t)
    PROVE  IInv'
  <1> DEFINE c == local[t].index
  <1>1. TypeInv /\ pc[t] = "putNew" /\ Fast(t) BY DEF IInv, PutNew, Fast, Pc, FastPcs
  <1>2. local[t].cell = c BY <1>1 DEF IInv, Own, PutInv, Pc
  <1>3. CASE cells[c] # Null
    BY <1>2, <1>3, PutLooks DEF PutNew, Keep, Goto, Empty, FastPcs, OpenPcs, shared
  <1>4. CASE cells[c] = Null
    <2> DEFINE r == NewCell(Current(t), Null)
    <2>1. c \in Number /\ c < putIndex /\ InPut(t) BY <1>1, FastIs
    <2>2. r \in Cell /\ r.val = Current(t) /\ r.enq = Null
      BY <1>1, CurrentIs DEF InCall, Registered, NewCell, Cell, Item
    <2>3. cells' = [cells EXCEPT ![c] = r] BY <1>2, <1>4 DEF PutNew, Empty
    <2> HIDE DEF r
    <2>4. /\ pc' = [pc EXCEPT ![t] = "idle"] /\ local' = [local EXCEPT ![t] = Blank]
          /\ UNCHANGED <<putIndex, popIndex, ring, nodes, putNode, popNode, enq, deq, handles, history>>
      BY <1>2, <1>4 DEF PutNew, Empty, Return, Goto
    <2>5. Grows(c) BY <1>4 DEF Grows
    <2>6. \A d \in Number : d # c => cells'[d] = cells[d] BY <2>3, <1>1 DEF TypeInv
    <2>7. enq[t].id < 0 => -enq[t].id \in Number /\ cells'[-enq[t].id] # Null
                           /\ cells'[-enq[t].id].val \in Op
      BY <1>1, <1>4, <2>6, FastIs
    <2>8. pc[t] \in PutPcs \ {"idle", "chasePut"} BY <1>1 DEF PutPcs, FastPcs
    <2>9. /\ \A u \in Thread \ {t} : InPut(u) => local[u].index # c
          /\ \A d \in Number : cells[d] # Null => cells[d].val # Current(t)
          /\ enq[t].id <= 0 /\ ~Open(t)
      BY <1>1, FastIs
    <2>10. QED BY <1>4, <2>1, <2>2, <2>3, <2>4, <2>5, <2>7, <2>8, <2>9, PutEnds
  <1>5. QED BY <1>3, <1>4

LEMMA PutCasStep ==
    ASSUME IInv, Bounded, NEW t \in Thread, PutCas(t)
    PROVE  IInv'
  <1> DEFINE c == local[t].index
  <1>1. TypeInv /\ pc[t] = "putCas" /\ Fast(t) BY DEF IInv, PutCas, Fast, Pc, FastPcs
  <1>2. local[t].cell = c /\ cells[c] # Null BY <1>1 DEF IInv, Own, PutInv, Pc
  <1>3. CASE cells[c].val # Null
    BY <1>2, <1>3, PutLooks DEF PutCas, Keep, Goto, Cas, FastPcs, OpenPcs, shared
  <1>4. CASE cells[c].val = Null
    <2> DEFINE r == [cells[c] EXCEPT !.val = Current(t)]
    <2>1. c \in Number /\ c < putIndex /\ InPut(t) BY <1>1, FastIs
    <2>2. /\ r \in Cell /\ r.val = Current(t) /\ r.enq = cells[c].enq /\ r.deq = cells[c].deq
          /\ r.enq \in {Null, t}
      BY <1>1, <1>2, <2>1, CurrentIs, CellIs, <1>4, FastIs DEF InCall, Registered, Cell, Item
    <2>3. cells' = [cells EXCEPT ![c] = r] BY <1>2, <1>4 DEF PutCas, Cas
    <2> HIDE DEF r
    <2>4. /\ pc' = [pc EXCEPT ![t] = "idle"] /\ local' = [local EXCEPT ![t] = Blank]
          /\ UNCHANGED <<putIndex, popIndex, ring, nodes, putNode, popNode, enq, deq, handles, history>>
      BY <1>2, <1>4 DEF PutCas, Return, Goto
    <2>5. cells'[c] = r /\ \A d \in Number : d # c => cells'[d] = cells[d]
      BY <2>1, <2>3, <1>1 DEF TypeInv
    <2>6. Grows(c) /\ r # Null
      BY <1>1, CurrentIs, <1>4, <2>2, <2>5, Nulls DEF InCall, Registered, Grows
    <2>7. enq[t].id < 0 => -enq[t].id \in Number /\ cells'[-enq[t].id] # Null
                           /\ cells'[-enq[t].id].val \in Op
      BY <1>1, <1>4, <2>5, FastIs, Nulls
    <2>8. pc[t] \in PutPcs \ {"idle", "chasePut"} BY <1>1 DEF PutPcs, FastPcs
    <2>9. /\ \A u \in Thread \ {t} : InPut(u) => local[u].index # c
          /\ \A d \in Number : cells[d] # Null => cells[d].val # Current(t)
          /\ enq[t].id <= 0 /\ ~Open(t)
      BY <1>1, FastIs
    <2>10. cells[c].enq \notin Thread \ {t} BY <2>2, Nulls
    <2>11. QED BY <2>1, <2>2, <2>3, <2>4, <2>6, <2>7, <2>8, <2>9, <2>10, PutEnds
  <1>5. QED BY <1>3, <1>4

\* A request that is open, or has its cell.
LEMMA OpenIs ==
    ASSUME IInv, Bounded, NEW t \in Thread, Open(t)
    PROVE  /\ local[t].index \in Number /\ local[t].index < putIndex /\ local[t].index >= Used
           /\ InPut(t) /\ ~Fast(t) /\ enq[t].val = Current(t)
           /\ local[t].id \in Nat /\ local[t].id >= Used /\ local[t].id <= local[t].index
           /\ local[t].reserve <= Segment(local[t].id)
           /\ enq[t].id = local[t].id \/ (enq[t].id < 0 /\ Claimed(t))
           /\ \A d \in Number : cells[d] # Null /\ cells[d].val = Current(t) => enq[t].id = -d
           /\ \A u \in Thread \ {t} : InPut(u) => local[u].index # local[t].index
  <1>1. InPut(t) /\ ~Fast(t) BY DEF InPut, Fast, Open, FastPcs, OpenPcs
  <1>2. /\ local[t].index \in Used .. putIndex - 1
        /\ \A u \in Thread \ {t} : InPut(u) => local[u].index # local[t].index
    BY <1>1 DEF IInv, Own, PutInv
  <1>3. Used \in Nat /\ putIndex \in Nat /\ putIndex < Cells /\ Cells \in Nat /\ local[t].id \in Int
        /\ enq[t].id \in Int
    BY Nulls, LocalIs, RequestIs DEF IInv, TypeInv, Bounded
  <1>4. local[t].index \in Number /\ local[t].index < putIndex /\ local[t].index >= Used
    BY <1>2, <1>3 DEF Number
  <1>5. /\ enq[t].val = Current(t) /\ local[t].id \in Used .. local[t].index
        /\ local[t].reserve <= Segment(local[t].id)
        /\ enq[t].id = local[t].id \/ Claimed(t)
    BY DEF IInv, Own, ReqInv
  <1>6. Claimed(t) => enq[t].id < 0 BY <1>3 DEF Claimed
  <1>7. ASSUME NEW d \in Number, cells[d] # Null, cells[d].val = Current(t) PROVE enq[t].id = -d
    BY <1>1, <1>7 DEF IInv, Whole, ItemInv, ItemAt, Placed
  <1>8. QED BY <1>1, <1>2, <1>3, <1>4, <1>5, <1>6, <1>7

\* An enqueue writes to its request.
LEMMA PutWrites ==
    ASSUME IInv, Bounded, NEW t \in Thread, NEW l \in {"slowId", "slowTest", "slowEnd"},
           NEW f \in Local, NEW e \in [id : Int, val : Item \cup {Null}],
           pc[t] \in FastPcs \cup OpenPcs, pc' = [pc EXCEPT ![t] = l],
           local' = [local EXCEPT ![t] = f], enq' = [enq EXCEPT ![t] = e],
           UNCHANGED <<putIndex, popIndex, cells, ring, nodes, putNode, popNode, deq, handles, history>>,
           f.index = local[t].index, ReqInv(t)', Request(t),
           \A c \in Number : cells[c] # Null /\ Placed(t, c) => Placed(t, c)'
    PROVE  IInv'
  <1>1. TypeInv /\ Own(t) /\ NodesInv /\ PutInv(t) BY DEF IInv, Whole, Own
  <1>2. Alone(t) /\ pc'[t] = l /\ pc' \in [Thread -> PcLabels] /\ local'[t] = f
        /\ local' \in [Thread -> Local]
    <2>1. l \in PcLabels BY DEF PcLabels
    <2>2. pc'[t] = l /\ pc' \in [Thread -> PcLabels] /\ (\A u \in Thread \ {t} : pc'[u] = pc[u])
      BY <1>1, <2>1, Moves
    <2>3. local'[t] = f /\ local' \in [Thread -> Local]
          /\ (\A u \in Thread \ {t} : local'[u] = local[u])
      BY <1>1 DEF TypeInv
    <2>4. QED BY <2>2, <2>3 DEF Alone, handles, history
  <1>3. enq' \in [Thread -> [id : Int, val : Item \cup {Null}]] /\ \A u \in Thread \ {t} : enq'[u] = enq[u]
    BY <1>1 DEF TypeInv
  <1>4. pc[t] \in PutPcs /\ pc'[t] \in PutPcs \ {"idle"} /\ pc[t] # "chasePut"
    BY <1>2 DEF PutPcs, FastPcs, OpenPcs
  <1>5. TypeInv'
    BY <1>2, <1>4, <1>1, <1>3 DEF InCall, Registered, Alone, PutPcs, FastPcs, OpenPcs, TypeInv,
       handles, history
  <1>6. Pc(t)' = l /\ Pc(t) = pc[t] BY <1>2, <1>4 DEF Pc
  <1>7. InPut(t) /\ InPut(t)' BY <1>6 DEF InPut, Fast, Open, FastPcs, OpenPcs
  <1>8. putIndex \in Nat /\ popIndex \in Nat /\ calls[t] \in Int BY <1>1, CurrentIs DEF TypeInv
  <1>9. putIndex <= putIndex' /\ nodes'.put <= Segment(putIndex') /\ Ahead
    BY <1>1, <1>8 DEF NodesInv, Ahead
  <1>10. PutInv(t)' BY <1>1, <1>2, <1>5, <1>7, <1>9, IndexStays, <1>6 DEF PutInv
  <1>11. ASSUME NEW c \in Number, cells[c] # Null PROVE Placed(t, c)'
    BY <1>11 DEF IInv, Whole, ItemInv, ItemAt
  <1>12. ItemInv' /\ OneCell' /\ AllGrow
    BY <1>8, <1>2, <1>3, <1>5, <1>9, <1>11, ItemStill DEF history
  <1>13. ASSUME NEW u \in Thread \ {t} PROVE Request(u)
    BY <1>1, <1>2, <1>3, <1>5, <1>9, RequestStill DEF Alone
  <1>14. QED
    BY <1>2, <1>3, <1>4, <1>5, <1>9, <1>10, <1>12, <1>13, PutStep DEF AllRequests, handles, history

LEMMA SlowValStep ==
    ASSUME IInv, Bounded, NEW t \in Thread, SlowVal(t)
    PROVE  IInv'
  <1> DEFINE f == [local[t] EXCEPT !.reserve = putNode[t], !.id = local[t].index]
             e == [enq[t] EXCEPT !.val = Current(t)]
  <1>1. TypeInv /\ pc[t] = "slowVal" /\ Fast(t) BY DEF IInv, SlowVal, Fast, Pc, FastPcs
  <1>2. /\ local[t].index \in Number /\ local[t].index < putIndex /\ local[t].index >= Used
        /\ InPut(t) /\ ~Open(t) /\ enq[t].id <= 0
        /\ \A d \in Number : cells[d] # Null => cells[d].val # Current(t)
    BY <1>1, FastIs
  <1>3. InCall(t) /\ Current(t) \in Op BY <1>1, CurrentIs DEF InCall, Registered
  <1>4. f \in Local /\ f.index = local[t].index /\ f.id = local[t].index /\ f.reserve = putNode[t]
    <2>1. local[t] \in Local /\ putNode[t] \in Nat /\ local[t].index \in Int
      BY <1>1, LocalIs, RequestIs
    <2>2. QED BY <2>1 DEF Local
  <1>5. e \in [id : Int, val : Item \cup {Null}] /\ e.id = enq[t].id /\ e.val = Current(t)
    BY <1>1, <1>3 DEF TypeInv, Item
  <1>6. /\ pc' = [pc EXCEPT ![t] = "slowId"] /\ local' = [local EXCEPT ![t] = f]
        /\ enq' = [enq EXCEPT ![t] = e]
        /\ UNCHANGED <<putIndex, popIndex, cells, ring, nodes, putNode, popNode, deq, handles, history>>
    BY DEF SlowVal, Goto
  <1> HIDE DEF f, e
  <1>7. pc'[t] = "slowId" /\ local'[t] = f /\ enq'[t] = e /\ Current(t)' = Current(t)
    BY <1>1, <1>6 DEF TypeInv, Current, history
  <1>8. Fast(t)' /\ ~Open(t)' /\ InPut(t)' BY <1>7 DEF Fast, Open, InPut, Pc, FastPcs, OpenPcs
  <1>9. ReqInv(t)' BY <1>2, <1>4, <1>5, <1>6, <1>7, <1>8 DEF IInv, Own, PutInv, ReqInv
  <1>10. putIndex \in Nat /\ enq[t].id \in Int BY <1>1, RequestIs DEF TypeInv
  <1>11. Request(t) BY <1>1, <1>2, <1>4, <1>5, <1>6, <1>7, <1>8, <1>10 DEF Request, Known
  <1>12. ASSUME NEW c \in Number, cells[c] # Null, Placed(t, c) PROVE Placed(t, c)'
    BY <1>2, <1>4, <1>6, <1>7, <1>8, <1>12 DEF Placed
  <1>13. QED BY <1>1, <1>4, <1>5, <1>6, <1>9, <1>11, <1>12, PutWrites DEF FastPcs

LEMMA SlowIdStep ==
    ASSUME IInv, Bounded, NEW t \in Thread, SlowId(t)
    PROVE  IInv'
  <1> DEFINE e == [enq[t] EXCEPT !.id = local[t].index]
  <1>1. TypeInv /\ pc[t] = "slowId" /\ Fast(t) BY DEF IInv, SlowId, Fast, Pc, FastPcs
  <1>2. /\ local[t].index \in Number /\ local[t].index < putIndex /\ local[t].index >= Used
        /\ InPut(t) /\ ~Open(t) /\ enq[t].id <= 0
        /\ \A d \in Number : cells[d] # Null => cells[d].val # Current(t)
    BY <1>1, FastIs
  <1>3. local[t] \in Local /\ local[t].index \in Int BY <1>1, LocalIs
  <1>4. e \in [id : Int, val : Item \cup {Null}] /\ e.id = local[t].index /\ e.val = enq[t].val
    BY <1>1, <1>3 DEF TypeInv
  <1>5. /\ pc' = [pc EXCEPT ![t] = "slowTest"] /\ local' = local /\ enq' = [enq EXCEPT ![t] = e]
        /\ UNCHANGED <<putIndex, popIndex, cells, ring, nodes, putNode, popNode, deq, handles, history>>
    BY DEF SlowId, Keep, Goto
  <1> HIDE DEF e
  <1>6. pc'[t] = "slowTest" /\ local'[t] = local[t] /\ enq'[t] = e /\ Current(t)' = Current(t)
        /\ local' = [local EXCEPT ![t] = local[t]]
    BY <1>1, <1>5 DEF TypeInv, Current, history
  <1>7. Open(t)' /\ ~Fast(t)' /\ InPut(t)' BY <1>6 DEF Fast, Open, InPut, Pc, FastPcs, OpenPcs
  <1>8. ReqInv(t) /\ local[t].id = local[t].index BY <1>1 DEF IInv, Own, ReqInv
  <1>9. putIndex \in Nat /\ enq[t].id \in Int /\ Used \in Nat BY <1>1, RequestIs, Nulls DEF TypeInv
  <1>10. ReqInv(t)' BY <1>1, <1>2, <1>3, <1>4, <1>5, <1>6, <1>7, <1>8, <1>9 DEF ReqInv
  <1>11. Request(t) BY <1>1, <1>2, <1>3, <1>4, <1>5, <1>6, <1>7, <1>8, <1>9 DEF Request, Known
  <1>12. ASSUME NEW c \in Number, cells[c] # Null, Placed(t, c) PROVE Placed(t, c)'
    BY <1>2, <1>4, <1>5, <1>6, <1>7, <1>8, <1>12 DEF Placed
  <1>13. QED BY <1>1, <1>3, <1>4, <1>5, <1>6, <1>10, <1>11, <1>12, PutWrites DEF FastPcs

LEMMA SlowClaimStep ==
    ASSUME IInv, Bounded, Used > 0, NEW t \in Thread, SlowClaim(t)
    PROVE  IInv'
  <1> DEFINE c == local[t].index
             e == [enq[t] EXCEPT !.id = IF enq[t].id = local[t].id THEN -c ELSE enq[t].id]
  <1>1. TypeInv /\ pc[t] = "slowClaim" /\ Open(t) BY DEF IInv, SlowClaim, Open, Pc, OpenPcs
  <1>2. /\ c \in Number /\ c < putIndex /\ c >= Used
        /\ InPut(t) /\ ~Fast(t) /\ enq[t].val = Current(t)
        /\ local[t].id \in Nat /\ local[t].id >= Used /\ local[t].id <= c
        /\ local[t].reserve <= Segment(local[t].id)
        /\ enq[t].id = local[t].id \/ (enq[t].id < 0 /\ Claimed(t))
        /\ \A d \in Number : cells[d] # Null /\ cells[d].val = Current(t) => enq[t].id = -d
    BY <1>1, OpenIs
  <1>3. local[t] \in Local /\ local[t].index \in Int /\ enq[t].id \in Int /\ putIndex \in Nat
        /\ Used \in Nat
    BY <1>1, LocalIs, RequestIs, Nulls DEF TypeInv
  <1>4. /\ e \in [id : Int, val : Item \cup {Null}] /\ e.val = enq[t].val
        /\ e.id = IF enq[t].id = local[t].id THEN -c ELSE enq[t].id
    <2>1. enq[t] \in [id : Int, val : Item \cup {Null}] BY <1>1 DEF TypeInv
    <2>2. QED BY <1>3, <2>1
  <1>5. /\ pc' = [pc EXCEPT ![t] = "slowEnd"] /\ local' = local /\ enq' = [enq EXCEPT ![t] = e]
        /\ UNCHANGED <<putIndex, popIndex, cells, ring, nodes, putNode, popNode, deq, handles, history>>
    BY DEF SlowClaim, Keep, Goto
  <1> HIDE DEF e
  <1>6. pc'[t] = "slowEnd" /\ local'[t] = local[t] /\ enq'[t] = e /\ Current(t)' = Current(t)
        /\ local' = [local EXCEPT ![t] = local[t]]
    BY <1>1, <1>5 DEF TypeInv, Current, history
  <1>7. Open(t)' /\ ~Fast(t)' /\ InPut(t)' BY <1>6 DEF Fast, Open, InPut, Pc, FastPcs, OpenPcs
  <1>8. cells[c] # Null /\ cells[c].enq = t BY <1>1 DEF IInv, Own, PutInv, Pc
  <1>9. ItemAt(c) /\ Placed(t, c) BY <1>2, <1>8 DEF IInv, Whole, ItemInv, ItemAt
  <1>10. enq[t].id = local[t].id => cells[c].val \in {Null, Top}
    <2>1. SUFFICES ASSUME enq[t].id = local[t].id PROVE cells[c].val \in {Null, Top} OBVIOUS
    <2>2. cells[c].val \in Item \cup {Null, Top} BY <1>1, <1>2, <1>8, CellIs
    <2>3. cells[c].val # Old BY <1>2, <1>3, <1>9 DEF ItemAt
    <2>4. cells[c].val # Current(t) BY <1>2, <1>3, <1>8, <2>1
    <2>5. cells[c].val \notin Op BY <1>1, <1>2, <1>3, <1>8, <1>9, <2>4 DEF Placed
    <2>6. QED BY <2>2, <2>3, <2>5 DEF Item
  <1>11. Claimed(t)' /\ enq'[t].id < 0
    <2>1. CASE enq[t].id = local[t].id
      <3>1. enq'[t].id = -c /\ -enq'[t].id = c /\ c > 0 /\ enq'[t].id < 0
        BY <1>2, <1>3, <1>4, <1>6, <2>1
      <3>2. QED BY <1>2, <1>5, <1>6, <1>8, <1>10, <2>1, <3>1 DEF Claimed
    <2>2. CASE enq[t].id # local[t].id BY <1>2, <1>3, <1>4, <1>5, <1>6, <2>2 DEF Claimed
    <2>3. QED BY <2>1, <2>2
  <1>12. ReqInv(t)' BY <1>2, <1>3, <1>4, <1>5, <1>6, <1>7, <1>11 DEF ReqInv
  <1>13. Request(t)
    <2>1. ASSUME NEW x \in Nat, x > 0, enq'[t].id = x PROVE enq[t].id = x BY <1>11, <2>1
    <2>2. ASSUME NEW d \in Number, d > 0, enq[t].id = -d PROVE enq'[t].id = -d
      BY <1>2, <1>3, <1>4, <1>6, <2>2 DEF Number
    <2>3. QED BY <1>1, <1>2, <1>3, <1>4, <1>5, <1>6, <1>7, <2>1, <2>2 DEF Request, Known
  <1>14. ASSUME NEW d \in Number, cells[d] # Null, Placed(t, d) PROVE Placed(t, d)'
    <2>1. ASSUME cells[d].val = Current(t) PROVE enq'[t].id = -d
      BY <1>2, <1>14, <2>1, Nulls, <1>3, <1>4, <1>6 DEF Number
    <2>2. QED BY <1>1, <1>2, <1>5, <1>6, <1>7, <1>14, <2>1 DEF Placed
  <1>15. QED BY <1>1, <1>3, <1>4, <1>5, <1>6, <1>12, <1>13, <1>14, PutWrites DEF OpenPcs

\* A request signs the cell of its index.
LEMMA PutSigns ==
    ASSUME IInv, Bounded, NEW t \in Thread, NEW r \in Cell, pc[t] \in {"slowNew", "slowCas"},
           pc' = [pc EXCEPT ![t] = "slowClaim"], local' = local,
           cells' = [cells EXCEPT ![local[t].index] = r],
           UNCHANGED <<putIndex, popIndex, ring, nodes, putNode, popNode, enq, deq, handles, history>>,
           r.enq = t, Grows(local[t].index),
           IF cells[local[t].index] = Null THEN r.val = Top
           ELSE r.val = cells[local[t].index].val /\ cells[local[t].index].enq = Null
    PROVE  IInv'
  <1> DEFINE c == local[t].index
  <1>1. TypeInv /\ Own(t) /\ NodesInv /\ PutInv(t) /\ Open(t)
    BY DEF IInv, Whole, Own, Open, Pc, OpenPcs
  <1>2. /\ c \in Number /\ c < putIndex /\ c >= Used
        /\ InPut(t) /\ ~Fast(t) /\ enq[t].val = Current(t)
        /\ local[t].id \in Nat /\ local[t].id >= Used /\ local[t].id <= c
        /\ enq[t].id = local[t].id \/ (enq[t].id < 0 /\ Claimed(t))
        /\ \A d \in Number : cells[d] # Null /\ cells[d].val = Current(t) => enq[t].id = -d
        /\ \A u \in Thread \ {t} : InPut(u) => local[u].index # c
    BY <1>1, OpenIs
  <1>3. /\ putIndex \in Nat /\ popIndex \in Nat /\ calls[t] \in Int /\ c \in Nat /\ enq[t].id \in Int
    BY <1>1, <1>2, CurrentIs, RequestIs, Nulls DEF TypeInv, Number
  <1>4. /\ Alone(t) /\ pc'[t] = "slowClaim" /\ pc' \in [Thread -> PcLabels]
    <2>1. "slowClaim" \in PcLabels BY DEF PcLabels
    <2>2. QED BY <1>1, <2>1, Moves DEF Alone, handles, history
  <1>5. cells' \in [Number -> Cell \cup {Null}] /\ cells'[c] = r /\ r # Null
        /\ \A d \in Number \ {c} : cells'[d] = cells[d]
    BY <1>1, <1>2, Nulls DEF TypeInv
  <1>6. TypeInv' BY <1>4, <1>1, <1>5 DEF InCall, Registered, Alone, TypeInv, handles, history
  <1>7. Pc(t)' = "slowClaim" /\ Open(t)' /\ InPut(t)' /\ ~Fast(t)' /\ Current(t)' = Current(t)
    BY <1>4 DEF Pc, Open, InPut, Fast, OpenPcs, FastPcs, Current, history
  <1>8. AllGrow BY <1>5 DEF AllGrow, Grows
  <1>9. putIndex <= putIndex' /\ nodes'.put <= Segment(putIndex') /\ Ahead
    BY <1>1, <1>3 DEF NodesInv, Ahead
  <1>10. PutInv(t)'
    <2>1. /\ putNode'[t] <= Segment(putIndex') /\ local'[t].index \in Used .. putIndex' - 1
          /\ putNode'[t] <= Segment(local'[t].index)
          /\ \A u \in Thread \ {t} : InPut(u)' => local'[u].index # local'[t].index
      BY <1>1, <1>2, <1>4, <1>6, <1>9, IndexStays
    <2>2. local[t].cell = c BY <1>1 DEF PutInv, Pc
    <2>3. QED BY <1>4, <1>5, <1>7, <2>1, <2>2 DEF PutInv
  <1>11. ReqInv(t)'
    <2>1. ASSUME enq[t].id < 0, Claimed(t) PROVE Claimed(t)'
      <3> DEFINE d == -enq[t].id
      <3>1. /\ d \in Number /\ d > 0 /\ d >= local[t].id /\ cells[d] # Null /\ cells[d].enq = t
            /\ cells[d].val \in {Null, Top, Current(t)}
        BY <2>1 DEF Claimed
      <3>2. d # c BY <1>1, <3>1, Nulls
      <3>3. cells'[d] = cells[d] BY <1>5, <3>1, <3>2
      <3>4. QED BY <1>7, <3>1, <3>3 DEF Claimed
    <2>2. ReqInv(t) BY <1>1 DEF Own
    <2>3. QED BY <1>1, <1>2, <1>4, <1>7, <2>1, <2>2 DEF ReqInv
  <1>12. ASSUME NEW d \in Number, cells[d] # Null PROVE ItemAt(d) /\ Placed(t, d)
    BY <1>12 DEF IInv, Whole, ItemInv, ItemAt
  <1>13. ASSUME NEW d \in Number \ {c}, cells'[d] # Null PROVE ItemAt(d)'
    <2>1. cells'[d] = cells[d] /\ cells[d] # Null BY <1>5, <1>13
    <2>2. Placed(t, d)' BY <1>1, <1>2, <1>7, <1>12, <2>1 DEF Placed
    <2>3. calls[t] <= calls'[t] BY <1>3 DEF history
    <2>4. QED BY <1>4, <1>6, <1>9, <2>1, <2>2, <2>3, ItemStays
  <1>14. ItemAt(c)'
    <2>1. CASE cells[c] = Null
      <3>1. r.val = Top /\ r.val \notin Op /\ r.val \notin {Null, Old} BY <2>1, Nulls
      <3>2. r.enq # Top BY Nulls
      <3>3. ASSUME NEW u \in Thread PROVE Placed(u, c)'
        <4>1. InPut(u)' => Current(u)' \in Op
          <5>1. InPut(u)' => InCall(u)'
            BY DEF InPut, Fast, Open, Pc, FastPcs, OpenPcs, InCall, Registered
          <5>2. InCall(u)' => calls'[u] \in 1 .. MaxCalls BY <1>6, Nulls DEF TypeInv
          <5>3. QED BY <5>1, <5>2, OpIs DEF Current
        <4>2. QED BY <1>5, <3>1, <4>1 DEF Placed
      <3>4. QED BY <1>5, <3>1, <3>2, <3>3 DEF ItemAt
    <2>2. CASE cells[c] # Null
      <3>1. r.val = cells[c].val /\ cells[c].enq = Null /\ r.enq # Top BY <2>2, Nulls
      <3>2. ItemAt(c) BY <1>2, <1>12, <2>2
      <3>3. ASSUME NEW u \in Thread \ {t} PROVE Placed(u, c)'
        BY <1>4, Status, <3>2, <1>2, <1>5, <3>1, Nulls DEF Alone, Current, ItemAt, Placed
      <3>4. Placed(t, c)' BY <3>2, <1>2, <3>1, <1>1, <1>5, <1>7 DEF ItemAt, Placed
      <3>5. QED BY <1>2, <1>5, <3>1, <3>2, <3>3, <3>4 DEF ItemAt, history
    <2>3. QED BY <2>1, <2>2
  <1>15. ItemInv' BY <1>13, <1>14 DEF ItemInv
  <1>16. OneCell' BY <1>5, Nulls DEF IInv, Whole, OneCell
  <1>17. ASSUME NEW d \in Number, cells[d] # Null PROVE cells'[d].val = cells[d].val BY <1>5, <1>17
  <1>18. ASSUME NEW u \in Thread \ {t} PROVE Request(u)
    BY <1>1, <1>4, <1>6, <1>9, <1>17, RequestStill DEF Alone
  <1>19. Request(t) BY <1>1, <1>2, <1>3, <1>7, <1>17 DEF Request, Known
  <1>20. "slowClaim" \in PutPcs /\ pc[t] \in PutPcs BY DEF PutPcs, OpenPcs
  <1>21. QED
    BY <1>4, <1>6, <1>8, <1>9, <1>10, <1>11, <1>15, <1>16, <1>18, <1>19, <1>20, PutStep
       DEF AllRequests, handles, history

LEMMA SlowNewStep ==
    ASSUME IInv, Bounded, NEW t \in Thread, SlowNew(t)
    PROVE  IInv'
  <1> DEFINE c == local[t].index
  <1>1. TypeInv /\ pc[t] = "slowNew" /\ Open(t) BY DEF IInv, SlowNew, Open, Pc, OpenPcs
  <1>2. local[t].cell = c BY <1>1 DEF IInv, Own, PutInv, Pc
  <1>3. CASE cells[c] # Null
    BY <1>2, <1>3, PutLooks DEF SlowNew, Keep, Goto, Empty, FastPcs, OpenPcs, shared
  <1>4. CASE cells[c] = Null
    <2> DEFINE r == NewCell(Top, t)
    <2>1. r \in Cell /\ r.val = Top /\ r.enq = t BY DEF NewCell, Cell
    <2>2. cells' = [cells EXCEPT ![c] = r] /\ pc' = [pc EXCEPT ![t] = "slowClaim"] /\ local' = local
          /\ UNCHANGED <<putIndex, popIndex, ring, nodes, putNode, popNode, enq, deq, handles, history>>
      BY <1>2, <1>4 DEF SlowNew, Empty, Keep, Goto
    <2> HIDE DEF r
    <2>3. Grows(c) BY <1>4 DEF Grows
    <2>4. QED BY <1>1, <1>4, <2>1, <2>2, <2>3, PutSigns
  <1>5. QED BY <1>3, <1>4

LEMMA SlowCasStep ==
    ASSUME IInv, Bounded, NEW t \in Thread, SlowCas(t)
    PROVE  IInv'
  <1> DEFINE c == local[t].index
  <1>1. TypeInv /\ pc[t] = "slowCas" /\ Open(t) BY DEF IInv, SlowCas, Open, Pc, OpenPcs
  <1>2. local[t].cell = c /\ cells[c] # Null BY <1>1 DEF IInv, Own, PutInv, Pc
  <1>3. CASE cells[c].enq # Null
    BY <1>2, <1>3, <1>1, PutLooks DEF SlowCas, Cas, Keep, Goto, FastPcs, OpenPcs, shared
  <1>4. CASE cells[c].enq = Null
    <2> DEFINE r == [cells[c] EXCEPT !.enq = t]
    <2>1. c \in Number BY <1>1, OpenIs
    <2>2. r \in Cell /\ r.val = cells[c].val /\ r.enq = t /\ r.deq = cells[c].deq
      BY <1>1, <1>2, <2>1, CellIs DEF Cell
    <2>3. cells' = [cells EXCEPT ![c] = r] BY <1>2, <1>4 DEF SlowCas, Cas
    <2> HIDE DEF r
    <2>4. cells'[c] = r /\ r # Null BY <1>1, <2>1, <2>2, <2>3, Nulls DEF TypeInv
    <2>5. pc' = [pc EXCEPT ![t] = "slowClaim"] /\ local' = local
          /\ UNCHANGED <<putIndex, popIndex, ring, nodes, putNode, popNode, enq, deq, handles, history>>
      BY <1>2, <2>2, <2>4 DEF SlowCas, Keep, Goto
    <2>6. Grows(c) BY <1>4, <2>2, <2>4 DEF Grows
    <2>7. QED BY <1>1, <1>2, <1>4, <2>2, <2>3, <2>5, <2>6, PutSigns
  <1>5. QED BY <1>3, <1>4

LEMMA SlowSetStep ==
    ASSUME IInv, Bounded, Used > 0, NEW t \in Thread, SlowSet(t)
    PROVE  IInv'
  <1> DEFINE c == -enq[t].id
  <1>1. TypeInv /\ pc[t] = "slowSet" /\ Open(t) BY DEF IInv, SlowSet, Open, Pc, OpenPcs
  <1>2. /\ enq[t].id < 0 /\ local[t].i = c /\ local[t].cell = c /\ c < putIndex
    BY <1>1 DEF IInv, Own, ReqInv
  <1>3. InPut(t) /\ Claimed(t)
        /\ (\A d \in Number : cells[d] # Null /\ cells[d].val = Current(t) => enq[t].id = -d)
        /\ enq[t].id \in Int
    BY <1>1, <1>2, OpenIs, RequestIs
  <1>4. c \in Number /\ cells[c] # Null /\ cells[c].enq = t /\ cells[c].val \in {Null, Top, Current(t)}
    BY <1>3 DEF Claimed
  <1> DEFINE r == [cells[c] EXCEPT !.val = Current(t)]
  <1>5. Current(t) \in Op /\ cells[c] \in Cell
    BY <1>1, <1>4, CurrentIs, CellIs DEF InCall, Registered
  <1>6. r \in Cell /\ r.val = Current(t) /\ r.enq = t /\ r.deq = cells[c].deq
    BY <1>4, <1>5 DEF Cell, Item
  <1>7. /\ cells' = [cells EXCEPT ![c] = r]
        /\ pc' = [pc EXCEPT ![t] = "idle"] /\ local' = [local EXCEPT ![t] = Blank]
        /\ UNCHANGED <<putIndex, popIndex, ring, nodes, putNode, popNode, enq, deq, handles, history>>
    BY <1>2, <1>4 DEF SlowSet, Empty, Return, Goto
  <1> HIDE DEF r
  <1>8. cells'[c] = r /\ r # Null BY <1>1, <1>4, <1>6, <1>7, Nulls DEF TypeInv
  <1>9. Grows(c) BY <1>4, <1>5, <1>6, <1>8, Nulls DEF Grows
  <1>10. pc[t] \in PutPcs \ {"idle", "chasePut"} BY <1>1 DEF PutPcs, OpenPcs
  <1>11. cells[c].enq \notin Thread \ {t} BY <1>4
  <1>12. \A d \in Number : cells[d] # Null /\ cells[d].val = Current(t) => d = c
    BY <1>3, Nulls DEF Number
  <1>13. enq[t].id = -c BY <1>3
  <1>14. r.enq # Null BY <1>6, Nulls
  <1>15. cells'[-enq[t].id].val \in Op /\ cells'[-enq[t].id] # Null /\ -enq[t].id \in Number
    BY <1>4, <1>5, <1>6, <1>8
  <1>16. enq[t].id <= 0 /\ c < putIndex /\ r.val = Current(t) /\ r.enq \in {Null, t}
    BY <1>2, <1>3, <1>6
  <1> HIDE DEF c
  <1>17. QED
    BY <1>16, <1>2, <1>3, <1>4, <1>6, <1>7, <1>9, <1>10, <1>11, <1>12, <1>13, <1>14, <1>15, PutEnds

-----------------------------------------------------------------------------
(* Steps of help_enq.                                                      *)

LEMMA NextIs ==
    ASSUME ring \in Seq(Thread), NEW t \in RingSet
    PROVE  NextHandle(t) \in RingSet /\ NextHandle(t) \in Thread
  <1> DEFINE k == CHOOSE j \in 1 .. Len(ring) : ring[j] = t
             n == (k % Len(ring)) + 1
  <1>1. k \in 1 .. Len(ring) BY DEF RingSet
  <1>2. Len(ring) \in Nat /\ Len(ring) > 0 BY <1>1
  <1> HIDE DEF k
  <1>3. n \in 1 .. Len(ring) BY <1>1, <1>2
  <1>4. NextHandle(t) = ring[n] BY DEF NextHandle, k
  <1> HIDE DEF n
  <1>5. ring[n] \in RingSet /\ ring[n] \in Thread BY <1>3 DEF RingSet
  <1>6. QED BY <1>4, <1>5

\* What help_enq leaves alone of the locals.
Agrees(f, g) ==
    /\ f.index = g.index /\ f.i = g.i /\ f.cell = g.cell /\ f.dp = g.dp /\ f.then = g.then
    /\ f.back = g.back /\ f.ph = g.ph /\ f.did = g.did /\ f.idx = g.idx /\ f.old = g.old
    /\ f.new = g.new

LEMMA HelpIs ==
    ASSUME IInv, Bounded, NEW t \in Thread, pc[t] \in HelpPcs
    PROVE  /\ local[t].i \in Number /\ local[t].i > 0 /\ local[t].cell = local[t].i
           /\ local[t].back \in {"popDeq", "seekDeq"}
           /\ cells[local[t].i] # Null /\ cells[local[t].i] \in Cell /\ ItemAt(local[t].i)
           /\ Away(t) /\ ~InPut(t) /\ ~Open(t) /\ ~Fast(t) /\ InCall(t) /\ eh[t] \in RingSet
           /\ eh[t] \in Thread /\ ring \in Seq(Thread)
  <1>1. /\ local[t].i \in 1 .. Cells - 1 /\ local[t].cell = local[t].i
        /\ local[t].back \in {"popDeq", "seekDeq"} /\ cells[local[t].i] # Null
    BY DEF IInv, Own, HelpInv, HelpAt
  <1>2. local[t].i \in Number /\ local[t].i > 0 BY <1>1, Nulls DEF Number
  <1>3. cells[local[t].i] \in Cell /\ ItemAt(local[t].i)
    BY <1>1, <1>2, CellIs DEF IInv, Whole, ItemInv
  <1>4. Away(t) /\ ~InPut(t) /\ ~Open(t) /\ ~Fast(t) /\ InCall(t) /\ Registered(t)
    BY DEF HelpPcs, Away, InPut, Fast, Open, Pc, FastPcs, OpenPcs, InCall, Registered
  <1>5. eh[t] \in RingSet /\ eh[t] \in Thread /\ ring \in Seq(Thread)
    BY <1>4 DEF IInv, Whole, RingInv, TypeInv
  <1>6. QED BY <1>1, <1>2, <1>3, <1>4, <1>5

LEMMA HelpStep ==
    ASSUME IInv, Bounded, NEW t \in Thread, TypeInv', Alone(t), Agrees(local'[t], local[t]),
           pc[t] \in HelpPcs, pc'[t] \in HelpPcs \cup {local[t].back},
           UNCHANGED <<popIndex, ring, nodes, putNode, popNode, deq, dh, history>>,
           eh'[t] \in RingSet, putIndex <= putIndex', AllGrow, AllRequests, enq'[t] = enq[t],
           \A u \in Thread \ {t} : /\ enq'[u].val = enq[u].val
                                   /\ \/ enq'[u].id = enq[u].id
                                      \/ Open(u) /\ enq[u].id > 0 /\ enq'[u].id < 0 /\ Claimed(u)',
           HelpInv(t)', ValInv(t)', ItemInv', OneCell'
    PROVE  IInv'
  <1>1. TypeInv /\ Own(t) /\ NodesInv /\ local[t].back \in {"popDeq", "seekDeq"} /\ Away(t)
        /\ Registered(t)
    BY HelpIs DEF IInv, Whole, InCall
  <1>2. /\ putIndex \in Nat /\ popIndex \in Nat /\ putIndex' \in Nat /\ popIndex' \in Nat
        /\ deq[t].idx \in Int /\ deq[t].id \in Nat
    BY <1>1, RequestIs DEF TypeInv
  <1>3. Ahead BY <1>2 DEF Ahead
  <1>4. /\ (Drawn(t)' <=> Drawn(t)) /\ (Helping(t)' <=> Helping(t)) /\ (Asking(t)' <=> Asking(t))
        /\ ~Answering(t) /\ ~Answering(t)' /\ Away(t)'
        /\ pc'[t] \notin {"idle", "slowDeqIdx", "slowDone", "slowGot", "popCell", "popNew"}
        /\ pc[t] \notin {"idle", "slowDeqIdx", "slowDone", "slowGot", "popCell", "popNew"}
    <2>1. /\ pc[t] \notin SeekPcs \cup NodePcs \cup {"idle", "slowDeqIdx", "popCell", "popNew", "popDeq",
                                                     "slowDeqId", "slowDone", "slowGot"}
      BY DEF HelpPcs, SeekPcs, NodePcs
    <2>2. CASE local[t].back = "popDeq"
      <3>1. /\ pc'[t] \in HelpPcs \cup {"popDeq"} /\ local'[t].back = "popDeq"
            /\ local'[t].then = local[t].then
        BY <2>2 DEF Agrees
      <3>2. Drawn(t) /\ ~Helping(t) /\ ~Answering(t) /\ ~Asking(t)
        BY <2>1, <2>2 DEF Drawn, Helping, Answering, Asking
      <3>3. pc'[t] \notin SeekPcs \cup NodePcs \cup {"idle", "slowDeqIdx", "slowDone", "slowGot",
                                                     "popCell", "popNew"}
        BY <3>1 DEF HelpPcs, SeekPcs, NodePcs
      <3>4. Drawn(t)' /\ ~Helping(t)' /\ ~Answering(t)' /\ ~Asking(t)'
        BY <3>1, <3>3 DEF Drawn, Helping, Answering, Asking
      <3>5. Away(t)' BY <3>1 DEF HelpPcs, Away, InPut, Fast, Open, Pc, FastPcs, OpenPcs
      <3>6. QED BY <2>1, <3>2, <3>3, <3>4, <3>5
    <2>3. CASE local[t].back = "seekDeq"
      <3>1. /\ pc'[t] \in HelpPcs \cup {"seekDeq"} /\ local'[t].back = "seekDeq"
            /\ local'[t].then = local[t].then
        BY <2>3 DEF Agrees
      <3>2. ~Drawn(t) /\ Helping(t) /\ ~Answering(t) BY <2>1, <2>3 DEF Drawn, Helping, Answering
      <3>3. pc'[t] \notin NodePcs \cup {"idle", "slowDeqIdx", "slowDone", "slowGot", "popCell", "popNew",
                                        "popDeq", "slowDeqId"}
        BY <3>1 DEF HelpPcs, NodePcs
      <3>4. ~Drawn(t)' /\ Helping(t)' /\ ~Answering(t)'
        BY <3>1, <3>3 DEF Drawn, Helping, Answering, SeekPcs
      <3>5. Asking(t)' <=> Asking(t) BY <3>1, <3>2, <3>4 DEF Asking
      <3>6. Away(t)' BY <3>1 DEF HelpPcs, Away, InPut, Fast, Open, Pc, FastPcs, OpenPcs
      <3>7. QED BY <2>1, <3>2, <3>3, <3>4, <3>5, <3>6
    <2>4. QED BY <1>1, <2>2, <2>3
  <1>5. AllWishes
    <2>1. ASSUME NEW p \in Thread PROVE Wish(p)
      BY <1>1, <1>3, <1>4, WishStill, Status DEF Agrees, Alone
    <2>2. QED BY <2>1 DEF AllWishes
  <1>6. Apart(t) BY DEF Apart, Alone
  <1>7. PutInv(t)' /\ ReqInv(t)' BY <1>1, <1>3, <1>4, PutKept, ReqKept DEF Own, history
  <1>8. DrawInv(t)'
    BY <1>1, HelpIs, <1>4 DEF Own, DrawInv, AllGrow, Grows, RegisterPcs, HelpPcs, Agrees
  <1>9. DeqInv(t)' BY <1>1, <1>2, <1>3, AnswerStays, PendingStays, <1>4 DEF Own, DeqInv
  <1>10. SeekInv(t)'
    <2>1. CASE ~Helping(t) BY <1>4, <2>1 DEF SeekInv, SeekAt
    <2>2. ASSUME Helping(t), NEW p, NEW id, NEW x, NEW i, p = local[t].ph, id = local[t].did,
                 x = local[t].idx, i = local[t].i
          PROVE  SeekInv(t)'
      <3>1. /\ local'[t].ph = p /\ local'[t].did = id /\ local'[t].idx = x /\ local'[t].i = i
            /\ local'[t].then = local[t].then /\ local'[t].dp = local[t].dp
            /\ local'[t].cell = local[t].cell /\ local'[t].old = local[t].old
            /\ local'[t].back = local[t].back
        BY <2>2 DEF Agrees
      <3>2. pc[t] \notin {"askIdx", "askId"} BY DEF HelpPcs
      <3>3. /\ p \in Thread /\ local[t].then \in {"slowDone", "dequeued"}
            /\ local[t].then = "slowDone" => p = t
            /\ id \in 0 .. deq[p].id
            /\ local[t].then = "slowDone" => id = deq[t].id
            /\ id = deq[p].id => pc[p] # "slowDeqIdx"
            /\ i \in id + 1 .. popIndex /\ local[t].dp = Segment(i) /\ local[t].cell = i
            /\ x = local[t].old /\ x >= 0 /\ Bound(p, id, x)
            /\ deq[p].id = id => x >= id
            /\ deq[p].id = id /\ x > id => deq[p].idx # id
            /\ local[t].back = "seekDeq" /\ cells[i] # Null /\ i < popIndex
        BY <1>1, <2>2, <3>2 DEF Own, SeekInv, SeekAt
      <3>4. pc'[p] # "slowDeqIdx" \/ (pc[p] = "slowDeqIdx" /\ p # t) BY <1>4, <3>3 DEF Alone
      <3>5. x \in Nat /\ id \in Nat /\ id <= deq[p].id BY <1>1, <2>2, <3>3, LocalIs, RequestIs
      <3>6. Bound(p, id, x)' BY <1>5, <3>3, <3>5 DEF AllWishes, Wish
      <3>7. cells'[i] # Null BY <2>2, HelpIs, <3>3 DEF AllGrow, Grows
      <3>8. pc'[t] \in HelpPcs \cup {"seekDeq"} BY <3>3
      <3>9. pc'[t] \notin {"askIdx", "askId", "askAgain", "seekCell", "seekNew", "seekRaise", "seekAgain",
                           "offerIdx", "offerId", "offerCas", "moved", "take", "finish"}
        BY <3>8 DEF HelpPcs
      <3>10. Bound(local[t].ph, local[t].did, local[t].idx)' BY <3>1, <3>6 DEF Bound
      <3>11. QED BY <3>1, <3>3, <3>4, <3>7, <3>9, <3>10 DEF SeekInv, SeekAt
    <2>3. QED BY <2>1, <2>2
  <1>11. RingInv'
    <2>1. ASSUME NEW u \in Thread, Registered(u)' PROVE Registered(u)
      BY <1>1, <2>1 DEF Alone, Registered
    <2>2. RingSet' = RingSet BY DEF RingSet
    <2>3. ASSUME NEW u \in Thread, ~Registered(u)' PROVE ~Registered(u) /\ u # t
      BY <1>1, <2>3 DEF HelpPcs, Registered, Alone
    <2>4. QED BY <2>1, <2>2, <2>3 DEF IInv, Whole, RingInv, Alone
  <1>12. NodesInv' BY <1>2, Segments, <1>1 DEF TypeInv, NodesInv
  <1>13. TakenInv' /\ TakenOnce' BY <1>5, TakenKept DEF history
  <1>14. QED
    BY <1>1, <1>3, <1>5, <1>6, <1>7, <1>8, <1>9, <1>10, <1>11, <1>12, <1>13, StepIs
       DEF Effects, Own

\* Steps that only look at the cells and the requests.
LEMMA HelpLooks ==
    ASSUME IInv, Bounded, NEW t \in Thread, pc[t] \in HelpPcs, NEW l \in HelpPcs \cup {local[t].back},
           NEW f \in Local, NEW h \in RingSet, Agrees(f, local[t]),
           pc' = [pc EXCEPT ![t] = l], local' = [local EXCEPT ![t] = f], eh' = [eh EXCEPT ![t] = h],
           UNCHANGED <<shared, dh, history>>, HelpAt(l, f), ValAt(l, f)
    PROVE  IInv'
  <1>1. TypeInv /\ Away(t) /\ local[t].back \in {"popDeq", "seekDeq"} /\ ring \in Seq(Thread)
        /\ ~Open(t) /\ ~Fast(t) /\ InCall(t)
    BY HelpIs DEF IInv
  <1>2. h \in Thread BY <1>1 DEF RingSet
  <1>3. /\ Alone(t) /\ pc'[t] = l /\ pc' \in [Thread -> PcLabels] /\ local'[t] = f /\ eh'[t] = h
        /\ local' \in [Thread -> Local] /\ eh' \in [Thread -> Thread]
    <2>1. l \in PcLabels BY <1>1 DEF PcLabels, HelpPcs
    <2>2. pc'[t] = l /\ pc' \in [Thread -> PcLabels] /\ (\A u \in Thread \ {t} : pc'[u] = pc[u])
      BY <1>1, <2>1, Moves
    <2>3. /\ local'[t] = f /\ local' \in [Thread -> Local]
          /\ \A u \in Thread \ {t} : local'[u] = local[u]
      BY <1>1 DEF TypeInv
    <2>4. /\ eh'[t] = h /\ eh' \in [Thread -> Thread]
          /\ \A u \in Thread \ {t} : eh'[u] = eh[u]
      BY <1>1, <1>2 DEF TypeInv
    <2>5. QED BY <2>2, <2>3, <2>4 DEF Alone, shared, history
  <1>4. TypeInv' BY <1>1, <1>3 DEF InCall, Registered, Alone, TypeInv, shared, history
  <1>5. Away(t)' /\ ~InPut(t)' /\ ~Open(t)' /\ ~Fast(t)'
    BY <1>1, <1>3 DEF HelpPcs, Away, InPut, Fast, Open, Pc, FastPcs, OpenPcs
  <1>6. Ahead /\ calls[t] <= calls'[t] BY <1>1, CurrentIs DEF TypeInv, Ahead, shared, history
  <1>7. AllRequests
    BY <1>1, <1>3, <1>4, <1>5, <1>6, RequestStill DEF Alone, shared, history, AllRequests
  <1>8. ItemInv' /\ OneCell' /\ AllGrow
    BY <1>5, <1>3, <1>4, <1>6, ItemStill DEF Placed, Ahead, shared
  <1>9. \A e \in Thread : /\ (Open(e)' <=> Open(e)) /\ Current(e)' = Current(e)
                          /\ \A x : Known(e, x)' <=> Known(e, x)
                          /\ \A c, v : Due(e, c, v)' <=> Due(e, c, v)
    BY <1>1, <1>3, <1>5, Status DEF Alone, Current, history, Known, Due, shared
  <1>10. HelpInv(t)' BY <1>9, <1>3 DEF HelpAt, shared, HelpInv, Known, Due, Current, Open, Fast, Pc
  <1>11. ValInv(t)' BY <1>3 DEF ValInv, ValAt, shared
  <1>12. Agrees(local'[t], local[t]) BY <1>3
  <1>13. QED
    BY <1>3, <1>4, <1>6, <1>7, <1>8, <1>10, <1>11, <1>12, HelpStep DEF Ahead, shared, history

LEMMA HelpGoes ==
    ASSUME IInv, Bounded, NEW t \in Thread, pc[t] \in HelpPcs, NEW l \in HelpPcs, Keep(t, l),
           UNCHANGED <<shared, handles, history>>, HelpAt(l, local[t])
    PROVE  IInv'
  <1>1. TypeInv /\ eh[t] \in RingSet BY HelpIs DEF IInv
  <1>2. local[t] \in Local /\ local' = [local EXCEPT ![t] = local[t]] /\ eh' = [eh EXCEPT ![t] = eh[t]]
    BY <1>1, LocalIs DEF TypeInv, Keep, handles
  <1>3. Agrees(local[t], local[t]) BY DEF Agrees
  <1>4. ValAt(l, local[t]) BY DEF ValAt, HelpPcs
  <1>5. QED BY <1>1, <1>2, <1>3, <1>4, HelpLooks DEF Keep, Goto, handles

LEMMA LocalGives ==
    ASSUME NEW g \in Local, NEW v \in Item \cup {Null, Top, Bot}, NEW z \in Int, NEW o \in BOOLEAN
    PROVE  [g EXCEPT !.val = v, !.e = Null, !.ei = z, !.ev = Null, !.pe = Null, !.id = z, !.outer = o]
               \in Local
  BY DEF Local

LEMMA HelpGives ==
    ASSUME IInv, Bounded, NEW t \in Thread, pc[t] \in HelpPcs, NEW v \in Item \cup {Null, Top, Bot},
           Gives(t, v), UNCHANGED <<shared, handles, history>>,
           v \in Op => cells[local[t].i].val = v,
           v = Bot => cells[local[t].i].val = Top /\ cells[local[t].i].enq = Top
    PROVE  IInv'
  <1> DEFINE f == [local[t] EXCEPT !.val = v, !.e = Null, !.ei = 0, !.ev = Null,
                                   !.pe = Null, !.id = 0, !.outer = FALSE]
  <1>1. TypeInv /\ eh[t] \in RingSet /\ local[t].back \in {"popDeq", "seekDeq"}
        /\ local[t].i \in Number /\ local[t].i > 0 /\ local[t].cell = local[t].i
        /\ cells[local[t].i] # Null
    BY HelpIs DEF IInv
  <1>2. local[t] \in Local BY <1>1, LocalIs
  <1>3. f \in Local /\ Agrees(f, local[t]) /\ f.val = v /\ f.i = local[t].i /\ f.cell = local[t].i
    <2>1. f \in Local
      <3>1. 0 \in Int OBVIOUS
      <3>2. PICK z \in Int, o \in BOOLEAN : z = 0 /\ o = FALSE BY <3>1
      <3>3. QED BY <1>2, <3>2, LocalGives
    <2>2. Agrees(f, local[t]) BY <1>2 DEF Local, Agrees
    <2>3. f.val = v /\ f.i = local[t].i /\ f.cell = local[t].cell BY <1>2 DEF Local
    <2>4. QED BY <1>1, <2>1, <2>2, <2>3
  <1>4. local' = [local EXCEPT ![t] = f] /\ pc' = [pc EXCEPT ![t] = local[t].back]
        /\ eh' = [eh EXCEPT ![t] = eh[t]]
    BY <1>1 DEF TypeInv, Gives, Goto, handles
  <1> HIDE DEF f
  <1>5. HelpAt(local[t].back, f) BY <1>1 DEF HelpAt, HelpPcs
  <1>6. ValAt(local[t].back, f) BY <1>1, Nulls, <1>3 DEF Number, ValAt
  <1>7. QED BY <1>1, <1>3, <1>4, <1>5, <1>6, HelpLooks DEF handles

LEMMA HelpValStep ==
    ASSUME IInv, Bounded, NEW t \in Thread, HelpVal(t)
    PROVE  IInv'
  <1> DEFINE c == local[t].i
             v == cells[c].val
  <1>1. pc[t] = "helpVal" /\ pc[t] \in HelpPcs BY DEF HelpVal, HelpPcs
  <1>2. c \in Number /\ c > 0 /\ local[t].cell = c /\ cells[c] # Null /\ cells[c] \in Cell /\ ItemAt(c)
        /\ HelpAt(pc[t], local[t])
    BY <1>1, HelpIs DEF IInv, Own, HelpInv
  <1>3. v \in Item \cup {Null, Top} BY <1>2 DEF Cell
  <1>4. CASE v = Null BY <1>2, <1>4, Nulls, <1>1, HelpGoes DEF HelpVal, HelpAt, HelpPcs
  <1>5. CASE v = Top BY <1>2, <1>5, Nulls, <1>1, HelpGoes DEF HelpVal, HelpAt, HelpPcs
  <1>6. CASE v \notin {Null, Top} BY <1>2, <1>6, <1>3, Nulls, <1>1, HelpGives DEF HelpVal, Item
  <1>7. QED BY <1>4, <1>5, <1>6

LEMMA HelpLostStep ==
    ASSUME IInv, Bounded, NEW t \in Thread, HelpLost(t)
    PROVE  IInv'
  <1> DEFINE c == local[t].i
             v == cells[c].val
  <1>1. pc[t] = "helpLost" /\ pc[t] \in HelpPcs BY DEF HelpLost, HelpPcs
  <1>2. c \in Number /\ c > 0 /\ local[t].cell = c /\ cells[c] # Null /\ cells[c] \in Cell /\ ItemAt(c)
        /\ HelpAt(pc[t], local[t])
    BY <1>1, HelpIs DEF IInv, Own, HelpInv
  <1>3. v \in Item \cup {Null, Top} BY <1>2 DEF Cell
  <1>4. CASE v = Top BY <1>2, <1>4, Nulls, <1>1, HelpGoes DEF HelpLost, HelpAt, HelpPcs
  <1>5. CASE v # Top BY <1>2, <1>5, <1>3, Nulls, <1>1, HelpGives DEF HelpLost, Item
  <1>6. QED BY <1>4, <1>5

LEMMA HelpEnqStep ==
    ASSUME IInv, Bounded, NEW t \in Thread, HelpEnq(t)
    PROVE  IInv'
  <1> DEFINE c == local[t].i
             e == cells[c].enq
  <1>1. pc[t] = "helpEnq" /\ pc[t] \in HelpPcs BY DEF HelpEnq, HelpPcs
  <1>2. c \in Number /\ c > 0 /\ local[t].cell = c /\ cells[c] # Null /\ cells[c] \in Cell /\ ItemAt(c)
        /\ HelpAt(pc[t], local[t]) /\ eh[t] \in RingSet /\ local[t] \in Local
    BY <1>1, HelpIs, LocalIs DEF IInv, Own, HelpInv
  <1>3. e \in Thread \cup {Null, Top} BY <1>2 DEF Cell
  <1>4. CASE e = Null BY <1>2, <1>4, <1>1, HelpGoes DEF HelpEnq, HelpAt, HelpPcs
  <1>5. CASE e = Top BY <1>2, <1>5, Nulls, <1>1, HelpGoes DEF HelpEnq, Found, HelpAt, HelpPcs
  <1>6. CASE e \in Thread
    <2> DEFINE f == [local[t] EXCEPT !.e = e]
    <2>1. /\ local' = [local EXCEPT ![t] = f] /\ pc' = [pc EXCEPT ![t] = "helpId"]
          /\ UNCHANGED <<shared, handles, history>>
      BY <1>2, <1>6, Nulls DEF HelpEnq, Found, Goto
    <2>2. f \in Local /\ Agrees(f, local[t]) /\ f.e = e BY <1>2, <1>3 DEF Local, Agrees
    <2>3. eh' = [eh EXCEPT ![t] = eh[t]] BY <2>1 DEF IInv, TypeInv, handles
    <2> HIDE DEF f
    <2>4. HelpAt("helpId", f) /\ ValAt("helpId", f)
      BY <1>1, <1>2, <1>6, <2>2 DEF HelpAt, HelpPcs, Agrees, ValAt
    <2>5. "helpId" \in HelpPcs BY DEF HelpPcs
    <2>6. QED BY <1>1, <1>2, <2>1, <2>2, <2>3, <2>4, <2>5, HelpLooks DEF handles
  <1>7. QED BY <1>3, <1>4, <1>5, <1>6

LEMMA HelpPeerStep ==
    ASSUME IInv, Bounded, NEW t \in Thread, HelpPeer(t)
    PROVE  IInv'
  <1> DEFINE c == local[t].i
             id == enq[eh[t]].id
             fits == id > 0 /\ id <= local[t].i
             l == IF fits THEN "helpOffer" ELSE "helpClose"
             f == [local[t] EXCEPT !.pe = eh[t], !.id = id, !.outer = ~fits]
  <1>1. pc[t] = "helpPeer" /\ pc[t] \in HelpPcs BY DEF HelpPeer, HelpPcs
  <1>2. HelpAt(pc[t], local[t]) /\ eh[t] \in RingSet /\ local[t] \in Local /\ TypeInv
        /\ eh[t] \in Thread
    BY <1>1, HelpIs, LocalIs DEF IInv, Own, HelpInv
  <1>3. id \in Int BY <1>2, RequestIs
  <1>4. /\ local' = [local EXCEPT ![t] = f] /\ pc' = [pc EXCEPT ![t] = l]
        /\ eh' = [eh EXCEPT ![t] = eh[t]] /\ UNCHANGED <<shared, handles, history>>
    BY <1>2 DEF TypeInv, HelpPeer, Goto, handles
  <1>5. l \in {"helpOffer", "helpClose"} /\ l \in HelpPcs BY DEF HelpPcs
  <1> HIDE DEF id, fits, l
  <1>6. f \in Local
    <2>1. PICK o \in BOOLEAN : o = ~fits OBVIOUS
    <2>2. [local[t] EXCEPT !.pe = eh[t], !.id = id, !.outer = o] \in Local BY <1>2, <1>3 DEF Local
    <2>3. QED BY <2>1, <2>2
  <1>7. Agrees(f, local[t]) /\ f.pe = eh[t] BY <1>2 DEF Local, Agrees
  <1> HIDE DEF f
  <1>8. HelpAt(l, f) /\ ValAt(l, f) BY <1>1, <1>2, <1>5, <1>7 DEF HelpAt, HelpPcs, Agrees, ValAt
  <1>9. QED BY <1>1, <1>2, <1>4, <1>5, <1>6, <1>7, <1>8, HelpLooks DEF handles

LEMMA HelpEmptyStep ==
    ASSUME IInv, Bounded, NEW t \in Thread, HelpEmpty(t)
    PROVE  IInv'
  <1>1. pc[t] = "helpEmpty" /\ pc[t] \in HelpPcs BY DEF HelpEmpty, HelpPcs
  <1>2. cells[local[t].i].enq = Top /\ cells[local[t].i].val = Top
    BY <1>1, HelpIs DEF IInv, Own, HelpInv, HelpAt, ItemAt
  <1>3. PICK v \in {Bot, Top} : Gives(t, v) /\ UNCHANGED <<shared, handles, history>>
    BY DEF HelpEmpty
  <1>4. QED BY <1>1, <1>2, <1>3, HelpGives, Nulls

LEMMA HelpDoneStep ==
    ASSUME IInv, Bounded, NEW t \in Thread, HelpDone(t)
    PROVE  IInv'
  <1> DEFINE v == cells[local[t].i].val
  <1>1. pc[t] = "helpDone" /\ pc[t] \in HelpPcs BY DEF HelpDone, HelpPcs
  <1>2. cells[local[t].i] \in Cell /\ local[t].cell = local[t].i BY <1>1, HelpIs
  <1>3. v \in Item \cup {Null, Top} /\ v # Bot BY <1>2, Nulls DEF Cell, Item
  <1>4. Gives(t, v) /\ UNCHANGED <<shared, handles, history>> BY <1>2 DEF HelpDone
  <1>5. QED BY <1>1, <1>3, <1>4, HelpGives

\* What a helper reads of a request is no greater than the next id.
LEMMA HelpIdStep ==
    ASSUME IInv, Bounded, NEW t \in Thread, HelpId(t)
    PROVE  IInv'
  <1> DEFINE e == local[t].e
             x == enq[e].id
             f == [local[t] EXCEPT !.ei = x]
  <1>1. pc[t] = "helpId" /\ pc[t] \in HelpPcs BY DEF HelpId, HelpPcs
  <1>2. HelpAt(pc[t], local[t]) /\ eh[t] \in RingSet /\ local[t] \in Local /\ TypeInv
    BY <1>1, HelpIs, LocalIs DEF IInv, Own, HelpInv
  <1>3. e \in Thread /\ cells[local[t].i].enq = e BY <1>1, <1>2 DEF HelpAt, HelpPcs
  <1>4. x \in Int BY <1>2, <1>3, RequestIs
  <1>5. x > 0 => Known(e, x)
    <2>1. SUFFICES ASSUME x > 0 PROVE Known(e, x) OBVIOUS
    <2>2. Open(e) BY <1>3, <1>4, <2>1 DEF IInv, Own, ReqInv
    <2>3. /\ local[e].id \in Nat /\ local[e].id <= local[e].index /\ local[e].index < putIndex
          /\ x = local[e].id /\ ~Fast(e) /\ local[e].index \in Number
      BY <1>3, <1>4, <2>1, <2>2, OpenIs
    <2>4. local[e].index \in Int /\ putIndex \in Int
      <3>1. putIndex \in Nat BY <1>2 DEF TypeInv
      <3>2. local[e].index \in Int BY <1>2, <1>3, LocalIs
      <3>3. QED BY <3>1, <3>2
    <2>5. QED BY <2>3, <2>4 DEF Known
  <1>6. /\ local' = [local EXCEPT ![t] = f] /\ pc' = [pc EXCEPT ![t] = "helpEv"]
        /\ eh' = [eh EXCEPT ![t] = eh[t]] /\ UNCHANGED <<shared, handles, history>>
    BY <1>2 DEF TypeInv, HelpId, Goto, handles
  <1>7. f \in Local /\ Agrees(f, local[t]) /\ f.ei = x /\ f.e = e BY <1>2, <1>4 DEF Local, Agrees
  <1> HIDE DEF f
  <1>8. HelpAt("helpEv", f) /\ ValAt("helpEv", f)
    BY <1>1, <1>2, <1>3, <1>5, <1>7 DEF HelpAt, HelpPcs, Agrees, ValAt
  <1>9. "helpEv" \in HelpPcs BY DEF HelpPcs
  <1>10. QED BY <1>1, <1>2, <1>6, <1>7, <1>8, <1>9, HelpLooks DEF handles

LEMMA HelpEvStep ==
    ASSUME IInv, Bounded, NEW t \in Thread, HelpEv(t)
    PROVE  IInv'
  <1> DEFINE e == local[t].e
             v == enq[e].val
             l == IF local[t].ei > 0 THEN "helpClaim" ELSE "helpId2"
             f == [local[t] EXCEPT !.ev = v]
  <1>1. pc[t] = "helpEv" /\ pc[t] \in HelpPcs BY DEF HelpEv, HelpPcs
  <1>2. HelpAt(pc[t], local[t]) /\ eh[t] \in RingSet /\ local[t] \in Local /\ TypeInv
    BY <1>1, HelpIs, LocalIs DEF IInv, Own, HelpInv
  <1>3. e \in Thread /\ cells[local[t].i].enq = e BY <1>1, <1>2 DEF HelpAt, HelpPcs
  <1>4. v \in Item \cup {Null} BY <1>2, <1>3, RequestIs
  <1>5. /\ local' = [local EXCEPT ![t] = f] /\ pc' = [pc EXCEPT ![t] = l]
        /\ eh' = [eh EXCEPT ![t] = eh[t]] /\ UNCHANGED <<shared, handles, history>>
    BY <1>2 DEF TypeInv, HelpEv, Goto, handles
  <1>6. f \in Local /\ Agrees(f, local[t]) /\ f.ev = v /\ f.e = e /\ f.ei = local[t].ei
    BY <1>2, <1>4 DEF Local, Agrees
  <1>7. l \in HelpPcs /\ l \in {"helpClaim", "helpId2"} /\ (l = "helpClaim" => local[t].ei > 0)
    BY DEF HelpPcs
  <1> HIDE DEF f, l
  <1>8. HelpAt(l, f) /\ ValAt(l, f)
    BY <1>1, <1>2, <1>3, <1>6, <1>7 DEF HelpAt, HelpPcs, Agrees, ValAt
  <1>9. QED BY <1>1, <1>2, <1>5, <1>6, <1>7, <1>8, HelpLooks DEF handles

\* A request that was given cell c and has not been answered is still open.
LEMMA HelpId2Step ==
    ASSUME IInv, Bounded, NEW t \in Thread, HelpId2(t)
    PROVE  IInv'
  <1> DEFINE c == local[t].i
             e == local[t].e
             l == IF enq[e].id = -c THEN "helpVal2" ELSE "helpNext"
  <1>1. pc[t] = "helpId2" /\ pc[t] \in HelpPcs BY DEF HelpId2, HelpPcs
  <1>2. HelpAt(pc[t], local[t]) /\ TypeInv BY <1>1 DEF IInv, Own, HelpInv
  <1>3. e \in Thread /\ cells[c].enq = e /\ c \in Number /\ c > 0
    BY <1>1, <1>2, HelpIs DEF HelpAt, HelpPcs
  <1>4. enq[e].id = -c /\ cells[c].val = Top => Open(e)
    BY <1>2, <1>3, RequestIs, Nulls DEF Number, IInv, Own, ReqInv
  <1>5. Keep(t, l) /\ UNCHANGED <<shared, handles, history>> BY DEF HelpId2
  <1>6. l \in HelpPcs /\ l \in {"helpVal2", "helpNext"} /\ (l = "helpVal2" => enq[e].id = -c)
    BY DEF HelpPcs
  <1> HIDE DEF l
  <1>7. HelpAt(l, local[t]) BY <1>1, <1>2, <1>3, <1>4, <1>6 DEF HelpAt, HelpPcs
  <1>8. QED BY <1>1, <1>5, <1>6, <1>7, HelpGoes

LEMMA HelpVal2Step ==
    ASSUME IInv, Bounded, ItemsFit, NEW t \in Thread, HelpVal2(t)
    PROVE  IInv'
  <1> DEFINE c == local[t].i
             e == local[t].e
             l == IF cells[c].val = Top THEN "helpRaise" ELSE "helpNext"
  <1>1. pc[t] = "helpVal2" /\ pc[t] \in HelpPcs BY DEF HelpVal2, HelpPcs
  <1>2. HelpAt(pc[t], local[t]) /\ TypeInv /\ local[t].cell = c
    BY <1>1, HelpIs DEF IInv, Own, HelpInv
  <1>3. e \in Thread /\ cells[c].enq = e BY <1>1, <1>2 DEF HelpAt, HelpPcs
  <1>4. cells[c].val = Top => Due(e, c, local[t].ev)
    <2>1. SUFFICES ASSUME cells[c].val = Top PROVE Due(e, c, local[t].ev) OBVIOUS
    <2>2. Open(e) /\ enq[e].id = -c BY <1>1, <1>2, <2>1 DEF HelpAt, HelpPcs
    <2>3. local[t].ev = enq[e].val BY <1>1, <1>2, <2>1 DEF ItemsFit
    <2>4. enq[e].val = Current(e) BY <1>3, <2>2, OpenIs
    <2>5. QED BY <2>2, <2>3, <2>4 DEF Due
  <1>5. Keep(t, l) /\ UNCHANGED <<shared, handles, history>> BY <1>2 DEF HelpVal2
  <1>6. l \in HelpPcs /\ l \in {"helpRaise", "helpNext"} /\ (l = "helpRaise" => cells[c].val = Top)
    BY DEF HelpPcs
  <1> HIDE DEF l
  <1>7. HelpAt(l, local[t]) BY <1>1, <1>2, <1>3, <1>4, <1>6 DEF HelpAt, HelpPcs
  <1>8. QED BY <1>1, <1>5, <1>6, <1>7, HelpGoes

LEMMA HelpNextStep ==
    ASSUME IInv, Bounded, NEW t \in Thread, HelpNext(t)
    PROVE  IInv'
  <1>1. pc[t] = "helpNext" /\ pc[t] \in HelpPcs BY DEF HelpNext, HelpPcs
  <1>2. HelpAt(pc[t], local[t]) /\ TypeInv /\ local[t] \in Local /\ eh[t] \in RingSet
        /\ ring \in Seq(Thread)
    BY <1>1, HelpIs, LocalIs DEF IInv, Own, HelpInv
  <1>3. NextHandle(eh[t]) \in RingSet BY <1>2, NextIs
  <1>4. PICK h \in RingSet : eh' = [eh EXCEPT ![t] = h] BY <1>2, <1>3 DEF HelpNext, TypeInv
  <1>5. /\ local' = [local EXCEPT ![t] = local[t]] /\ pc' = [pc EXCEPT ![t] = "helpDone"]
        /\ UNCHANGED <<shared, dh, history>>
    BY <1>2 DEF HelpNext, Keep, Goto, TypeInv
  <1>6. HelpAt("helpDone", local[t]) /\ ValAt("helpDone", local[t]) /\ "helpDone" \in HelpPcs
        /\ Agrees(local[t], local[t])
    BY <1>1, <1>2 DEF HelpAt, HelpPcs, ValAt, Agrees
  <1>7. QED BY <1>1, <1>2, <1>4, <1>5, <1>6, HelpLooks


-----------------------------------------------------------------------------
(* Steps of help_enq that write.                                           *)

LEMMA HelpFrame ==
    ASSUME IInv, Bounded, NEW t \in Thread, pc[t] \in HelpPcs, NEW l \in HelpPcs,
           NEW f \in Local, NEW h \in RingSet, Agrees(f, local[t]),
           pc' = [pc EXCEPT ![t] = l], local' = [local EXCEPT ![t] = f], eh' = [eh EXCEPT ![t] = h],
           UNCHANGED <<popIndex, ring, nodes, putNode, popNode, deq, dh, history>>,
           putIndex' \in Nat, putIndex <= putIndex', cells' \in [Number -> Cell \cup {Null}],
           enq' \in [Thread -> [id : Int, val : Item \cup {Null}]]
    PROVE  /\ Alone(t) /\ TypeInv' /\ Ahead /\ calls[t] <= calls'[t]
           /\ Away(t) /\ Away(t)' /\ ~InPut(t)' /\ ~Open(t)' /\ ~Fast(t)'
           /\ pc'[t] = l /\ local'[t] = f /\ eh'[t] = h /\ Agrees(local'[t], local[t])
           /\ ValInv(t)' /\ (\A c \in Number : Placed(t, c)')
           /\ \A u \in Thread \ {t} : /\ (InPut(u)' <=> InPut(u)) /\ (Open(u)' <=> Open(u))
                                      /\ Current(u)' = Current(u) /\ local'[u] = local[u]
  <1>1. TypeInv /\ Away(t) /\ ring \in Seq(Thread) /\ ~Open(t) /\ ~Fast(t) /\ InCall(t)
    BY HelpIs DEF IInv
  <1>2. h \in Thread BY <1>1 DEF RingSet
  <1>3. /\ Alone(t) /\ pc'[t] = l /\ pc' \in [Thread -> PcLabels] /\ local'[t] = f /\ eh'[t] = h
        /\ local' \in [Thread -> Local] /\ eh' \in [Thread -> Thread]
    <2>1. l \in PcLabels BY <1>1 DEF PcLabels, HelpPcs
    <2>2. pc'[t] = l /\ pc' \in [Thread -> PcLabels] /\ (\A u \in Thread \ {t} : pc'[u] = pc[u])
      BY <1>1, <2>1, Moves
    <2>3. /\ local'[t] = f /\ local' \in [Thread -> Local]
          /\ \A u \in Thread \ {t} : local'[u] = local[u]
      BY <1>1 DEF TypeInv
    <2>4. /\ eh'[t] = h /\ eh' \in [Thread -> Thread]
          /\ \A u \in Thread \ {t} : eh'[u] = eh[u]
      BY <1>1, <1>2 DEF TypeInv
    <2>5. QED BY <2>2, <2>3, <2>4 DEF Alone, history
  <1>4. TypeInv'
    <2>1. ASSUME NEW u \in Thread, InCall(u)' PROVE InCall(u)
      BY <1>1, <1>3, <2>1 DEF InCall, Registered, Alone
    <2>2. putIndex \in Nat /\ Used \in Nat BY <1>1, Nulls DEF TypeInv
    <2>3. Used <= putIndex' BY <1>1, <2>2 DEF TypeInv
    <2>4. QED BY <1>1, <1>3, <2>1, <2>3 DEF TypeInv, history
  <1>5. Away(t)' /\ ~InPut(t)' /\ ~Open(t)' /\ ~Fast(t)'
    BY <1>1, <1>3 DEF HelpPcs, Away, InPut, Fast, Open, Pc, FastPcs, OpenPcs
  <1>6. Ahead /\ calls[t] <= calls'[t] BY <1>1, CurrentIs DEF TypeInv, Ahead, history
  <1>7. ValInv(t)' /\ (\A c \in Number : Placed(t, c)')
    BY <1>3, <1>5 DEF ValInv, ValAt, HelpPcs, Placed
  <1>8. ASSUME NEW u \in Thread \ {t}
        PROVE  /\ (InPut(u)' <=> InPut(u)) /\ (Open(u)' <=> Open(u))
               /\ Current(u)' = Current(u) /\ local'[u] = local[u]
    BY <1>3, Status DEF Alone, Current
  <1>9. QED BY <1>1, <1>3, <1>4, <1>5, <1>6, <1>7, <1>8

LEMMA HelpKeeps ==
    ASSUME IInv, Bounded, NEW t \in Thread, pc[t] \in HelpPcs, NEW l \in HelpPcs, Keep(t, l),
           UNCHANGED <<popIndex, ring, nodes, putNode, popNode, deq, eh, dh, history>>,
           putIndex' \in Nat, putIndex <= putIndex', cells' \in [Number -> Cell \cup {Null}],
           enq' \in [Thread -> [id : Int, val : Item \cup {Null}]]
    PROVE  /\ Alone(t) /\ TypeInv' /\ Ahead /\ calls[t] <= calls'[t]
           /\ Away(t) /\ Away(t)' /\ ~InPut(t)' /\ ~Open(t)' /\ ~Fast(t)'
           /\ pc'[t] = l /\ local'[t] = local[t] /\ eh'[t] = eh[t] /\ Agrees(local'[t], local[t])
           /\ eh'[t] \in RingSet
           /\ ValInv(t)' /\ (\A c \in Number : Placed(t, c)')
           /\ \A u \in Thread \ {t} : /\ (InPut(u)' <=> InPut(u)) /\ (Open(u)' <=> Open(u))
                                      /\ Current(u)' = Current(u) /\ local'[u] = local[u]
  <1>1. PICK f \in Local, h \in RingSet : f = local[t] /\ h = eh[t] BY HelpIs, LocalIs DEF IInv
  <1>2. /\ pc' = [pc EXCEPT ![t] = l] /\ local' = [local EXCEPT ![t] = f] /\ eh' = [eh EXCEPT ![t] = h]
    BY <1>1 DEF IInv, TypeInv, Keep, Goto
  <1>3. Agrees(f, local[t]) BY <1>1 DEF Agrees
  <1>4. UNCHANGED <<popIndex, ring, nodes, putNode, popNode, deq, dh, history>> OBVIOUS
  <1>5. /\ Alone(t) /\ TypeInv' /\ Ahead /\ calls[t] <= calls'[t]
        /\ Away(t) /\ Away(t)' /\ ~InPut(t)' /\ ~Open(t)' /\ ~Fast(t)'
        /\ pc'[t] = l /\ local'[t] = f /\ eh'[t] = h
        /\ ValInv(t)' /\ (\A c \in Number : Placed(t, c)')
        /\ \A u \in Thread \ {t} : /\ (InPut(u)' <=> InPut(u)) /\ (Open(u)' <=> Open(u))
                                   /\ Current(u)' = Current(u) /\ local'[u] = local[u]
    BY ZenonT(120), <1>1, <1>2, <1>3, <1>4, HelpFrame
  <1>6. QED BY <1>1, <1>3, <1>5

\* A helper writes to its cell.
LEMMA HelpMarks ==
    ASSUME IInv, Bounded, NEW t \in Thread, pc[t] \in HelpPcs, NEW l \in HelpPcs,
           NEW f \in Local, NEW h \in RingSet, Agrees(f, local[t]),
           NEW c \in Number, c = local[t].i, NEW r \in Cell, Grows(c),
           pc' = [pc EXCEPT ![t] = l], local' = [local EXCEPT ![t] = f], eh' = [eh EXCEPT ![t] = h],
           cells' = [cells EXCEPT ![c] = r],
           UNCHANGED <<putIndex, popIndex, ring, nodes, putNode, popNode, enq, deq, dh, history>>,
           \A u \in Thread : Open(u) /\ enq[u].id = -c => r.val \in {cells[c].val, Top, Current(u)},
           HelpInv(t)', ItemAt(c)', OneCell'
    PROVE  IInv'
  <1>1. TypeInv BY DEF IInv
  <1>2. cells' \in [Number -> Cell \cup {Null}] /\ cells'[c] = r
        /\ \A d \in Number \ {c} : cells'[d] = cells[d]
    BY <1>1 DEF TypeInv
  <1>3. putIndex' \in Nat /\ putIndex <= putIndex'
        /\ enq' \in [Thread -> [id : Int, val : Item \cup {Null}]]
    BY <1>1 DEF TypeInv
  <1>4. /\ Alone(t) /\ TypeInv' /\ Ahead /\ calls[t] <= calls'[t] /\ Away(t) /\ Away(t)'
        /\ pc'[t] = l /\ local'[t] = f /\ eh'[t] = h /\ Agrees(local'[t], local[t])
        /\ ValInv(t)' /\ (\A d \in Number : Placed(t, d)')
    <2>1. UNCHANGED <<popIndex, ring, nodes, putNode, popNode, deq, dh, history>> OBVIOUS
    <2>2. cells' \in [Number -> Cell \cup {Null}] BY <1>2
    <2> HIDE <1>2
    <2>3. QED BY ZenonT(120), <1>3, <2>1, <2>2, HelpFrame
  <1>5. AllGrow BY <1>2 DEF AllGrow, Grows
  <1>6. ASSUME NEW d \in Number, cells'[d] # Null PROVE ItemAt(d)'
    BY <1>2, <1>6, <1>3, <1>4, ItemStays
  <1>7. ASSUME NEW u \in Thread PROVE Request(u) BY <1>2, <1>1, <1>4, RequestStill DEF Alone
  <1>8. QED BY <1>3, <1>4, <1>5, <1>6, <1>7, HelpStep DEF AllRequests, ItemInv, history

\* With Top in its val.
LEMMA HelpTops ==
    ASSUME IInv, Bounded, NEW t \in Thread, pc[t] \in HelpPcs, NEW l \in HelpPcs,
           NEW f \in Local, NEW h \in RingSet, Agrees(f, local[t]),
           NEW c \in Number, c = local[t].i, NEW r \in Cell, r.val = Top, Grows(c),
           pc' = [pc EXCEPT ![t] = l], local' = [local EXCEPT ![t] = f], eh' = [eh EXCEPT ![t] = h],
           cells' = [cells EXCEPT ![c] = r],
           UNCHANGED <<putIndex, popIndex, ring, nodes, putNode, popNode, enq, deq, dh, history>>,
           HelpInv(t)'
    PROVE  IInv'
  <1>1. TypeInv BY DEF IInv
  <1>2. cells' \in [Number -> Cell \cup {Null}] /\ cells'[c] = r
        /\ \A d \in Number \ {c} : cells'[d] = cells[d]
    BY <1>1 DEF TypeInv
  <1>3. putIndex' \in Nat /\ putIndex <= putIndex'
        /\ enq' \in [Thread -> [id : Int, val : Item \cup {Null}]]
    BY <1>1 DEF TypeInv
  <1>4. TypeInv' BY <1>2, <1>3, HelpFrame
  <1>5. ASSUME NEW u \in Thread PROVE Placed(u, c)'
    <2>1. InPut(u)' => Current(u)' \in Op
      <3>1. InPut(u)' => InCall(u)'
        BY DEF InPut, Fast, Open, Pc, FastPcs, OpenPcs, InCall, Registered
      <3>2. InCall(u)' => calls'[u] \in 1 .. MaxCalls
        <4>1. calls' \in [Thread -> 0 .. MaxCalls] /\ (InCall(u)' => calls'[u] # 0)
          BY <1>4 DEF TypeInv
        <4>2. QED BY <4>1, Nulls
      <3>3. QED BY <3>1, <3>2, OpIs DEF Current
    <2>2. QED BY <1>2, <2>1, Nulls DEF Placed
  <1>6. ItemAt(c)' BY <1>2, <1>5, Nulls DEF ItemAt
  <1>7. OneCell' BY <1>2, Nulls DEF IInv, Whole, OneCell
  <1>8. QED BY <1>6, <1>7, HelpMarks

\* With a cell that somebody has signed.
LEMMA HelpFound ==
    ASSUME IInv, Bounded, NEW t \in Thread, pc[t] \in {"helpEnq", "helpOffer", "helpClose"},
           NEW e \in Thread \cup {Top}, cells[local[t].i].enq = e, Found(t, e),
           NEW h \in RingSet, eh' = [eh EXCEPT ![t] = h], UNCHANGED <<shared, dh, history>>
    PROVE  IInv'
  <1>1. pc[t] \in HelpPcs BY DEF HelpPcs
  <1>2. HelpAt(pc[t], local[t]) /\ local[t] \in Local /\ TypeInv
    BY <1>1, HelpIs, LocalIs DEF IInv, Own, HelpInv
  <1>3. CASE e = Top
    <2>1. /\ local' = [local EXCEPT ![t] = local[t]] /\ pc' = [pc EXCEPT ![t] = "helpEmpty"]
      BY <1>2, <1>3 DEF Found, Keep, Goto, TypeInv
    <2>2. HelpAt("helpEmpty", local[t]) /\ ValAt("helpEmpty", local[t]) /\ "helpEmpty" \in HelpPcs
          /\ Agrees(local[t], local[t])
      BY <1>1, <1>2, <1>3 DEF HelpAt, HelpPcs, ValAt, Agrees
    <2>3. QED BY <1>1, <1>2, <2>1, <2>2, HelpLooks
  <1>4. CASE e \in Thread
    <2> DEFINE f == [local[t] EXCEPT !.e = e]
    <2>1. /\ local' = [local EXCEPT ![t] = f] /\ pc' = [pc EXCEPT ![t] = "helpId"]
      BY <1>2, <1>4, Nulls DEF Found, Goto
    <2>2. f \in Local /\ Agrees(f, local[t]) /\ f.e = e BY <1>2 DEF Local, Agrees
    <2> HIDE DEF f
    <2>3. HelpAt("helpId", f) /\ ValAt("helpId", f)
      BY <1>1, <1>2, <1>4, <2>2 DEF HelpAt, HelpPcs, Agrees, ValAt
    <2>4. "helpId" \in HelpPcs BY DEF HelpPcs
    <2>5. QED BY <1>1, <1>2, <2>1, <2>2, <2>3, <2>4, HelpLooks
  <1>5. QED BY <1>3, <1>4

LEMMA HelpSealStep ==
    ASSUME IInv, Bounded, NEW t \in Thread, HelpSeal(t)
    PROVE  IInv'
  <1>1. pc[t] = "helpSeal" /\ pc[t] \in HelpPcs BY DEF HelpSeal, HelpPcs
  <1>2. PICK c \in Number : c = local[t].i BY <1>1, HelpIs
  <1>3. c \in Number /\ c > 0 /\ local[t].cell = c /\ cells[c] # Null /\ cells[c] \in Cell
        /\ HelpAt(pc[t], local[t]) /\ eh[t] \in RingSet /\ local[t] \in Local /\ TypeInv
    BY <1>1, <1>2, HelpIs, LocalIs DEF IInv, Own, HelpInv
  <1>4. CASE cells[c].val # Null
    BY <1>3, <1>4, <1>1, <1>2, HelpGoes DEF HelpSeal, Cas, shared, HelpAt, HelpPcs
  <1>5. CASE cells[c].val = Null
    <2> DEFINE r == [cells[c] EXCEPT !.val = Top]
    <2>1. r \in Cell /\ r.val = Top /\ r.enq = cells[c].enq /\ r.deq = cells[c].deq BY <1>3 DEF Cell
    <2>2. /\ cells' = [cells EXCEPT ![c] = r] /\ pc' = [pc EXCEPT ![t] = "helpEnq"]
          /\ local' = [local EXCEPT ![t] = local[t]] /\ eh' = [eh EXCEPT ![t] = eh[t]]
          /\ UNCHANGED <<putIndex, popIndex, ring, nodes, putNode, popNode, enq, deq, dh, history>>
      BY <1>3, <1>5 DEF HelpSeal, Cas, Keep, Goto, TypeInv, handles
    <2> HIDE DEF r
    <2>3. pc'[t] = "helpEnq" /\ local'[t] = local[t] /\ cells'[c] = r BY <1>3, <2>2 DEF TypeInv
    <2>4. Grows(c) BY <1>5, <2>1, <2>3, Nulls DEF Grows
    <2>5. HelpInv(t)' BY <1>1, <1>2, <1>3, <2>1, <2>3, Nulls DEF HelpInv, HelpAt, HelpPcs
    <2>6. "helpEnq" \in HelpPcs /\ Agrees(local[t], local[t]) BY DEF HelpPcs, Agrees
    <2>7. QED BY <1>1, <1>2, <1>3, <2>1, <2>2, <2>4, <2>5, <2>6, HelpTops
  <1>6. QED BY <1>4, <1>5

LEMMA HelpOfferStep ==
    ASSUME IInv, Bounded, NEW t \in Thread, HelpOffer(t)
    PROVE  IInv'
  <1>1. pc[t] = "helpOffer" /\ pc[t] \in HelpPcs BY DEF HelpOffer, HelpPcs
  <1>2. PICK c \in Number, p \in Thread : c = local[t].i /\ p = local[t].pe
    BY <1>1, HelpIs DEF IInv, Own, HelpInv, HelpAt
  <1>3. c \in Number /\ c > 0 /\ local[t].cell = c /\ cells[c] # Null /\ cells[c] \in Cell
        /\ HelpAt(pc[t], local[t]) /\ eh[t] \in RingSet /\ local[t] \in Local /\ TypeInv
    BY <1>1, <1>2, HelpIs, LocalIs DEF IInv, Own, HelpInv
  <1>4. CASE cells[c].enq # Null
    <2>1. Found(t, cells[c].enq) /\ UNCHANGED <<shared, dh, history>> /\ eh' = [eh EXCEPT ![t] = eh[t]]
      BY <1>3, <1>4 DEF HelpOffer, Cas, shared, handles, TypeInv
    <2>2. cells[c].enq \in Thread \cup {Top} BY <1>3, <1>4 DEF Cell
    <2>3. QED BY <1>1, <1>2, <1>3, <2>1, <2>2, HelpFound
  <1>5. CASE cells[c].enq = Null
    <2> DEFINE r == [cells[c] EXCEPT !.enq = p]
               f == [local[t] EXCEPT !.e = p]
    <2>1. r \in Cell /\ r.val = cells[c].val /\ r.enq = p /\ r.deq = cells[c].deq BY <1>3 DEF Cell
    <2>2. r.val = Top BY <1>1, <1>2, <1>3, <1>5, <2>1 DEF HelpAt, HelpPcs
    <2>3. cells' = [cells EXCEPT ![c] = r] BY <1>2, <1>3, <1>5 DEF HelpOffer, Cas
    <2>4. f \in Local /\ Agrees(f, local[t]) /\ f.e = p BY <1>3 DEF Local, Agrees
    <2> HIDE DEF r
    <2>5. cells'[c] = r BY <1>3, <2>3 DEF TypeInv
    <2>6. /\ pc' = [pc EXCEPT ![t] = "helpId"]
          /\ local' = [local EXCEPT ![t] = f] /\ eh' = [eh EXCEPT ![t] = eh[t]]
          /\ UNCHANGED <<putIndex, popIndex, ring, nodes, putNode, popNode, enq, deq, dh, history>>
      BY <1>3, <2>1, <2>5, Nulls DEF HelpOffer, Found, Goto, TypeInv, handles
    <2> HIDE DEF f
    <2>7. pc'[t] = "helpId" /\ local'[t] = f BY <1>3, <2>6 DEF TypeInv
    <2>8. Grows(c) BY <1>5, <2>1, <2>5, Nulls DEF Grows
    <2>9. HelpInv(t)'
      BY <1>1, <1>2, <1>3, <2>1, <2>2, <2>4, <2>5, <2>7, Nulls DEF HelpInv, HelpAt, HelpPcs, Agrees
    <2>10. "helpId" \in HelpPcs BY DEF HelpPcs
    <2>11. QED BY <1>1, <1>2, <1>3, <2>1, <2>2, <2>3, <2>4, <2>6, <2>8, <2>9, <2>10, HelpTops
  <1>6. QED BY <1>4, <1>5

LEMMA HelpCloseStep ==
    ASSUME IInv, Bounded, NEW t \in Thread, HelpClose(t)
    PROVE  IInv'
  <1>1. pc[t] = "helpClose" /\ pc[t] \in HelpPcs BY DEF HelpClose, HelpPcs
  <1>2. PICK c \in Number : c = local[t].i BY <1>1, HelpIs
  <1>3. c \in Number /\ c > 0 /\ local[t].cell = c /\ cells[c] # Null /\ cells[c] \in Cell
        /\ HelpAt(pc[t], local[t]) /\ eh[t] \in RingSet /\ local[t] \in Local /\ TypeInv
        /\ ring \in Seq(Thread)
    BY <1>1, <1>2, HelpIs, LocalIs DEF IInv, Own, HelpInv
  <1>4. NextHandle(eh[t]) \in RingSet BY <1>3, NextIs
  <1>5. PICK h \in RingSet : eh' = [eh EXCEPT ![t] = h] BY <1>3, <1>4 DEF HelpClose, TypeInv
  <1>6. CASE cells[c].enq # Null
    BY <1>3, <1>6, <1>1, <1>2, <1>5, HelpFound DEF HelpClose, Cas, shared, Cell
  <1>7. CASE cells[c].enq = Null
    <2> DEFINE r == [cells[c] EXCEPT !.enq = Top]
    <2>1. r \in Cell /\ r.val = cells[c].val /\ r.enq = Top /\ r.deq = cells[c].deq BY <1>3 DEF Cell
    <2>2. r.val = Top BY <1>1, <1>2, <1>3, <1>7, <2>1 DEF HelpAt, HelpPcs
    <2>3. cells' = [cells EXCEPT ![c] = r] BY <1>3, <1>7 DEF HelpClose, Cas
    <2> HIDE DEF r
    <2>4. cells'[c] = r BY <1>3, <2>3 DEF TypeInv
    <2>5. /\ pc' = [pc EXCEPT ![t] = "helpEmpty"] /\ local' = [local EXCEPT ![t] = local[t]]
          /\ UNCHANGED <<putIndex, popIndex, ring, nodes, putNode, popNode, enq, deq, dh, history>>
      BY <1>3, <2>1, <2>4 DEF HelpClose, Found, Keep, Goto, TypeInv
    <2>6. pc'[t] = "helpEmpty" /\ local'[t] = local[t] BY <1>3, <2>5 DEF TypeInv
    <2>7. Grows(c) BY <1>7, <2>1, <2>4, Nulls DEF Grows
    <2>8. HelpInv(t)'
      BY <1>1, <1>2, <1>3, <2>1, <2>2, <2>4, <2>6, Nulls DEF HelpInv, HelpAt, HelpPcs
    <2>9. "helpEmpty" \in HelpPcs /\ Agrees(local[t], local[t]) BY DEF HelpPcs, Agrees
    <2>10. QED BY <1>1, <1>2, <1>3, <1>5, <2>1, <2>2, <2>3, <2>5, <2>7, <2>8, <2>9, HelpTops
  <1>8. QED BY <1>6, <1>7

LEMMA HelpSetStep ==
    ASSUME IInv, Bounded, NEW t \in Thread, HelpSet(t)
    PROVE  IInv'
  <1>1. pc[t] = "helpSet" /\ pc[t] \in HelpPcs BY DEF HelpSet, HelpPcs
  <1>2. PICK c \in Number, e \in Thread, v \in Op :
            c = local[t].i /\ e = local[t].e /\ v = local[t].ev
    <2>1. local[t].e \in Thread /\ Due(local[t].e, local[t].i, local[t].ev)
      BY <1>1 DEF IInv, Own, HelpInv, HelpAt, HelpPcs
    <2>2. Open(local[t].e) => Current(local[t].e) \in Op
      BY <2>1, CurrentIs DEF Open, Pc, InCall, OpenPcs, Registered, IInv
    <2>3. local[t].ev \in Op BY <2>1, <2>2 DEF Due
    <2>4. QED BY <1>1, <2>1, <2>3, HelpIs
  <1>3. c > 0 /\ local[t].cell = c /\ cells[c] # Null /\ cells[c] \in Cell
        /\ HelpAt(pc[t], local[t]) /\ eh[t] \in RingSet /\ local[t] \in Local /\ TypeInv
        /\ ~Open(t) /\ ItemAt(c)
    BY <1>1, <1>2, HelpIs, LocalIs DEF IInv, Own, HelpInv
  <1>4. cells[c].enq = e /\ Due(e, c, v) /\ c < putIndex BY <1>1, <1>2, <1>3 DEF HelpAt, HelpPcs
  <1> DEFINE r == [cells[c] EXCEPT !.val = v]
  <1>5. r \in Cell /\ r.val = v /\ r.enq = e /\ r.deq = cells[c].deq BY <1>3, <1>4 DEF Cell, Item
  <1>6. /\ cells' = [cells EXCEPT ![c] = r] /\ pc' = [pc EXCEPT ![t] = "helpNext"]
        /\ local' = [local EXCEPT ![t] = local[t]] /\ eh' = [eh EXCEPT ![t] = eh[t]]
        /\ UNCHANGED <<putIndex, popIndex, ring, nodes, putNode, popNode, enq, deq, dh, history>>
    BY <1>2, <1>3 DEF HelpSet, Keep, Goto, TypeInv, handles
  <1>7. CASE cells[c].val = v
    <2>1. r = cells[c] BY <1>3, <1>7 DEF Cell
    <2>2. cells' = cells BY <1>3, <1>6, <2>1 DEF TypeInv
    <2>3. Keep(t, "helpNext") /\ UNCHANGED <<shared, handles, history>> BY <2>2 DEF HelpSet, shared
    <2>4. HelpAt("helpNext", local[t]) /\ "helpNext" \in HelpPcs BY <1>1, <1>3 DEF HelpAt, HelpPcs
    <2>5. QED BY <1>1, <2>3, <2>4, HelpGoes
  <1>8. CASE cells[c].val # v
    <2> HIDE DEF r
    <2>1. Open(e) /\ enq[e].id = -c /\ v = Current(e) /\ e # t BY <1>3, <1>4, <1>8 DEF Due
    <2>2. \A u \in Thread : Open(u) /\ enq[u].id = -c
              => u = e /\ cells[c].val \in {Null, Top, Current(u)}
      BY OpenIs, Nulls, <1>3, <1>4 DEF IInv, Own, ReqInv, Number, Claimed
    <2>3. cells[c].val \in {Null, Top} BY <1>8, <2>1, <2>2
    <2>4. pc'[t] = "helpNext" /\ local'[t] = local[t] /\ cells'[c] = r /\ r # Null
          /\ \A d \in Number \ {c} : cells'[d] = cells[d]
      BY <1>3, <1>5, <1>6, Nulls DEF TypeInv
    <2>5. Grows(c) BY <1>4, <1>5, <2>3, <2>4, Nulls DEF Grows
    <2>6. \A d \in Number : cells[d] # Null /\ cells[d].val = v => d = c
      BY <2>1, OpenIs, Nulls DEF Number
    <2>7. OneCell' BY <1>8, <2>4, <2>6, <1>5 DEF IInv, Whole, OneCell
    <2>8. HelpInv(t)' BY <1>1, <1>2, <1>3, <1>5, <2>4, Nulls DEF HelpInv, HelpAt, HelpPcs
    <2>9. "helpNext" \in HelpPcs /\ Agrees(local[t], local[t]) BY DEF HelpPcs, Agrees
    <2>10. \A u \in Thread : Open(u) /\ enq[u].id = -c => r.val \in {cells[c].val, Top, Current(u)}
      BY <1>5, <2>1, <2>2
    <2>11. /\ \A u \in Thread \ {t} : /\ (InPut(u)' <=> InPut(u)) /\ (Open(u)' <=> Open(u))
                                      /\ Current(u)' = Current(u) /\ local'[u] = local[u]
           /\ Placed(t, c)'
      <3>1. cells' \in [Number -> Cell \cup {Null}] /\ putIndex' \in Nat /\ putIndex <= putIndex'
            /\ enq' \in [Thread -> [id : Int, val : Item \cup {Null}]]
        <4>1. cells' \in [Number -> Cell \cup {Null}] BY <1>3, <1>5, <1>6 DEF TypeInv
        <4>2. putIndex' = putIndex /\ enq' = enq BY <1>6
        <4>3. putIndex \in Nat /\ enq \in [Thread -> [id : Int, val : Item \cup {Null}]]
          BY <1>3 DEF TypeInv
        <4>4. QED BY <4>1, <4>2, <4>3
      <3>2. Keep(t, "helpNext") /\ UNCHANGED <<popIndex, ring, nodes, putNode, popNode, deq, eh, dh, history>>
        BY DEF HelpSet, handles
      <3>3. QED BY <1>1, <2>9, <3>1, <3>2, HelpKeeps
    <2>12. ItemAt(c)'
      <3>1. ASSUME NEW u \in Thread \ {t} PROVE Placed(u, c)'
        BY <1>5, <1>6, <2>1, <2>4, <2>11, Nulls DEF Placed, Current
      <3>2. v[2] <= calls[v[1]] BY <1>3, <2>1, CurrentIs DEF Current
      <3>3. v \notin {Null, Top, Old} BY Nulls
      <3>4. e # Top BY Nulls
      <3>5. QED BY <1>4, <1>5, <1>6, <2>4, <2>11, <3>1, <3>2, <3>3, <3>4 DEF ItemAt, history
    <2>13. QED BY <1>1, <1>2, <1>3, <1>5, <1>6, <2>5, <2>7, <2>8, <2>9, <2>10, <2>12, HelpMarks
  <1>9. QED BY <1>7, <1>8

\* putIndex is raised past the cell.
LEMMA HelpRaiseStep ==
    ASSUME IInv, Bounded, NEW t \in Thread, HelpRaise(t)
    PROVE  IInv'
  <1>1. pc[t] = "helpRaise" /\ pc[t] \in HelpPcs BY DEF HelpRaise, HelpPcs
  <1>2. PICK c \in Number, e \in Thread, v \in Item \cup {Null} :
            c = local[t].i /\ e = local[t].e /\ v = local[t].ev
    BY LocalIs, <1>1, HelpIs DEF IInv, Own, HelpInv, HelpAt, HelpPcs
  <1>3. c > 0 /\ local[t].cell = c /\ cells[c] # Null
        /\ HelpAt(pc[t], local[t]) /\ eh[t] \in RingSet /\ local[t] \in Local /\ TypeInv
    BY <1>1, <1>2, HelpIs, LocalIs DEF IInv, Own, HelpInv
  <1>4. cells[c].enq = e /\ Due(e, c, v) BY <1>1, <1>2, <1>3 DEF HelpAt, HelpPcs
  <1>5. putIndex \in Nat /\ c \in Nat BY <1>3, Nulls DEF TypeInv, Number
  <1>6. putIndex' \in Nat /\ putIndex <= putIndex' /\ c < putIndex'
    BY <1>2, <1>5 DEF HelpRaise, Raise, Later
  <1>7. cells' \in [Number -> Cell \cup {Null}] /\ cells' = cells /\ enq' = enq
        /\ enq' \in [Thread -> [id : Int, val : Item \cup {Null}]]
    BY <1>3 DEF TypeInv, HelpRaise
  <1>8. /\ pc' = [pc EXCEPT ![t] = "helpSet"]
        /\ local' = [local EXCEPT ![t] = local[t]] /\ eh' = [eh EXCEPT ![t] = eh[t]]
        /\ UNCHANGED <<popIndex, ring, nodes, putNode, popNode, deq, dh, history>>
    BY <1>3 DEF HelpRaise, Keep, Goto, TypeInv, handles
  <1>9. "helpSet" \in HelpPcs /\ Agrees(local[t], local[t]) BY DEF HelpPcs, Agrees
  <1>10. /\ Alone(t) /\ TypeInv' /\ Ahead /\ calls[t] <= calls'[t]
         /\ Away(t) /\ Away(t)' /\ ~Open(t)'
         /\ pc'[t] = "helpSet" /\ local'[t] = local[t] /\ eh'[t] = eh[t]
         /\ ValInv(t)' /\ (\A d \in Number : Placed(t, d)')
         /\ \A u \in Thread \ {t} : /\ (Open(u)' <=> Open(u)) /\ Current(u)' = Current(u)
    BY <1>7, <1>1, <1>6, <1>9, HelpKeeps DEF HelpRaise, handles
  <1>11. AllRequests BY <1>3, <1>7, <1>10, RequestStill DEF Alone, AllRequests
  <1>12. ItemInv' /\ OneCell' /\ AllGrow BY <1>6, <1>7, <1>10, ItemStill
  <1>13. HelpInv(t)'
    <2>1. Due(e, c, v)' BY <1>1, HelpIs, <1>4, <1>7, <1>10 DEF Due
    <2>2. Due(local[t].e, local[t].i, local[t].ev)' BY <1>2, <1>10, <2>1 DEF Due
    <2>3. local'[t].i = c /\ local'[t].e = e /\ local'[t].ev = v BY <1>2, <1>10
    <2>4. QED BY <1>1, <1>2, <1>3, <1>6, <1>7, <1>10, <2>2, <2>3 DEF HelpInv, HelpAt, HelpPcs
  <1>14. Agrees(local'[t], local[t]) /\ pc'[t] \in HelpPcs \cup {local[t].back} /\ eh'[t] \in RingSet
    BY <1>3, <1>9, <1>10
  <1>15. QED BY <1>1, <1>6, <1>7, <1>8, <1>10, <1>11, <1>12, <1>13, <1>14, HelpStep

\* The cell is given to the request, if that is still open.
LEMMA HelpClaimStep ==
    ASSUME IInv, Bounded, ClaimsFit, NEW t \in Thread, HelpClaim(t)
    PROVE  IInv'
  <1>1. pc[t] = "helpClaim" /\ pc[t] \in HelpPcs BY DEF HelpClaim, HelpPcs
  <1>2. PICK c \in Number, e \in Thread, v \in Item \cup {Null}, x \in Int :
            c = local[t].i /\ e = local[t].e /\ v = local[t].ev /\ x = local[t].ei
    BY LocalIs, <1>1, HelpIs DEF IInv, Own, HelpInv, HelpAt, HelpPcs
  <1>3. c > 0 /\ local[t].cell = c /\ cells[c] # Null /\ cells[c] \in Cell /\ ItemAt(c)
        /\ HelpAt(pc[t], local[t]) /\ eh[t] \in RingSet /\ local[t] \in Local /\ TypeInv
        /\ x \in Int /\ enq[e].id \in Int /\ ~Open(t)
    BY <1>1, <1>2, HelpIs, LocalIs, RequestIs DEF IInv, Own, HelpInv
  <1>4. cells[c].enq = e /\ x > 0 /\ (enq[e].id = x => v = enq[e].val) /\ cells[c].val # Null
    BY <1>1, <1>2, <1>3 DEF HelpAt, HelpPcs
  <1>5. /\ local' = [local EXCEPT ![t] = local[t]] /\ eh' = [eh EXCEPT ![t] = eh[t]]
        /\ UNCHANGED <<putIndex, popIndex, cells, ring, nodes, putNode, popNode, deq, dh, history>>
    BY <1>3 DEF HelpClaim, Keep, TypeInv, handles
  <1>6. CASE enq[e].id # x
    BY <1>2, <1>3, <1>6, <1>1, HelpGoes DEF HelpClaim, TypeInv, shared, HelpAt, HelpPcs
  <1>7. CASE enq[e].id = x
    <2>1. Open(e) /\ e # t BY <1>3, <1>4, <1>7 DEF IInv, Own, ReqInv
    <2>2. /\ local[e].id \in Nat /\ local[e].id >= Used /\ enq[e].id = local[e].id
          /\ enq[e].val = Current(e) /\ InPut(e)
          /\ \A d \in Number : cells[d] # Null /\ cells[d].val = Current(e) => enq[e].id = -d
      BY <1>3, <1>4, <1>7, <2>1, OpenIs
    <2>3. x <= c BY <1>1, <1>2, <1>7 DEF ClaimsFit
    <2>4. cells[c].val \in {Null, Top, Current(e)}
      BY <1>3, Nulls, <1>7, <2>2, <2>3, <1>4, <2>1 DEF Cell, Number, ItemAt, Placed, Item
    <2> DEFINE q == [enq[e] EXCEPT !.id = -c]
    <2>5. c \in Int /\ -c < 0 /\ -(-c) = c BY <1>3, Nulls DEF Number
    <2>6. q \in [id : Int, val : Item \cup {Null}] /\ q.id = -c /\ q.val = enq[e].val
      <3>1. enq[e] \in [id : Int, val : Item \cup {Null}] BY <1>3 DEF TypeInv
      <3>2. QED BY <2>5, <3>1
    <2>7. enq' = [enq EXCEPT ![e] = q] /\ pc' = [pc EXCEPT ![t] = "helpRaise"]
      BY <1>2, <1>7 DEF HelpClaim, Keep, Goto
    <2> HIDE DEF q
    <2>8. enq'[e] = q /\ (\A u \in Thread \ {e} : enq'[u] = enq[u])
          /\ enq' \in [Thread -> [id : Int, val : Item \cup {Null}]]
      BY <1>3, <2>6, <2>7 DEF TypeInv
    <2>9. cells' \in [Number -> Cell \cup {Null}] /\ putIndex' \in Nat /\ putIndex <= putIndex'
      BY <1>3, <1>5 DEF TypeInv
    <2>10. "helpRaise" \in HelpPcs /\ Agrees(local[t], local[t]) BY DEF HelpPcs, Agrees
    <2>11. /\ Alone(t) /\ TypeInv' /\ Ahead /\ calls[t] <= calls'[t]
           /\ Away(t) /\ Away(t)' /\ ~Open(t)'
           /\ pc'[t] = "helpRaise" /\ local'[t] = local[t] /\ eh'[t] = eh[t]
           /\ ValInv(t)' /\ (\A d \in Number : Placed(t, d)')
           /\ \A u \in Thread \ {t} : /\ (InPut(u)' <=> InPut(u)) /\ (Open(u)' <=> Open(u))
                                      /\ Current(u)' = Current(u) /\ local'[u] = local[u]
      BY <1>2, <1>7, <2>8, <1>1, <2>9, <2>10, HelpKeeps DEF HelpClaim, handles
    <2>12. Claimed(e)' /\ enq'[e].id < 0 /\ enq'[e].val = enq[e].val
      <3>1. -enq'[e].id = c /\ cells'[c] = cells[c] /\ local'[e].id = local[e].id
            /\ Current(e)' = Current(e) /\ enq'[e].id < 0 /\ c >= local[e].id
        BY <1>5, <1>7, <2>1, <2>2, <2>3, <2>5, <2>6, <2>8, <2>11
      <3>2. QED BY <1>3, <1>4, <2>4, <2>6, <2>8, <3>1 DEF Claimed
    <2>13. \A u \in Thread \ {t} : /\ enq'[u].val = enq[u].val
                                   /\ \/ enq'[u].id = enq[u].id
                                      \/ Open(u) /\ enq[u].id > 0 /\ enq'[u].id < 0 /\ Claimed(u)'
      BY <1>4, <1>7, <2>1, <2>8, <2>12
    <2>14. ItemInv' /\ OneCell' /\ AllGrow BY <1>5, <2>9, <2>11, <2>13, ItemStill
    <2>15. AllRequests
      <3>1. ASSUME NEW u \in Thread \ {e} PROVE Request(u)
        BY <1>5, <2>8, <1>3, <2>11, RequestStill DEF Alone
      <3>2. Request(e)
        <4>1. enq[e].id > 0 /\ enq'[e].id < 0 BY <1>4, <1>7, <2>12
        <4>2. \A d \in Number : d > 0 => enq[e].id # -d BY <1>3, <4>1, Nulls DEF Number
        <4>3. \A y \in Nat : Known(e, y) => Known(e, y)'
          BY <1>5, <2>1, <2>11, Status DEF Alone, Known
        <4>4. QED BY <2>1, <2>2, <2>11, <2>12, <4>1, <4>2, <4>3 DEF Request
      <3>3. QED BY <3>1, <3>2 DEF AllRequests
    <2>16. HelpInv(t)'
      <3>1. Due(e, c, v)' BY <1>4, <1>7, <2>1, <2>2, <2>6, <2>8, <2>11 DEF Due
      <3>2. Due(local[t].e, local[t].i, local[t].ev)' BY <1>2, <2>11, <3>1 DEF Due
      <3>3. local'[t].i = c /\ local'[t].e = e /\ local'[t].ev = v /\ cells' = cells
        BY <1>2, <1>5, <2>11
      <3>4. QED BY <1>1, <1>2, <1>3, <2>11, <3>2, <3>3 DEF HelpInv, HelpAt, HelpPcs
    <2>17. Agrees(local'[t], local[t]) /\ pc'[t] \in HelpPcs \cup {local[t].back} /\ eh'[t] \in RingSet
      BY <1>3, <2>10, <2>11
    <2>18. enq'[t] = enq[t] BY <2>1, <2>8
    <2>19. QED BY <1>1, <1>5, <2>9, <2>11, <2>13, <2>14, <2>15, <2>16, <2>17, <2>18, HelpStep
  <1>8. QED BY <1>6, <1>7

-----------------------------------------------------------------------------
(* Steps of a dequeue.                                                     *)

\* Cells are made empty, and signed.
Signs(c) ==
    IF cells[c] = Null THEN cells'[c] \in {Null, NewCell(Null, Null)}
    ELSE /\ cells'[c] # Null /\ cells'[c].val = cells[c].val /\ cells'[c].enq = cells[c].enq
         /\ cells[c].deq # Null => cells'[c].deq = cells[c].deq

AllSigns == \A c \in Number : Signs(c)

\* Cells that stay as they are keep what is signed on them.
LEMMA SameSigns == cells' = cells => AllSigns
  BY DEF AllSigns, Signs

\* A request stays as it is, gets a candidate or is answered.
Turns(u) ==
    /\ deq'[u].id = deq[u].id
    /\ \/ deq'[u].idx = deq[u].idx
       \/ deq[u].idx >= 0 /\ deq'[u].idx > deq[u].id /\ Pending(u)'
       \/ deq[u].idx >= 0 /\ deq'[u].idx < 0 /\ Answered(u)'

LEMMA ReqAway ==
    ASSUME TypeInv, AllGrow, NEW u \in Thread, ReqInv(u), enq'[u] = enq[u], Away(u), Away(u)'
    PROVE  ReqInv(u)'
  <1>1. ~Open(u) /\ ~Open(u)' BY DEF Away, InPut
  <1>2. Pc(u)' \notin FastPcs \cup OpenPcs BY DEF Away, InPut, Fast, Open
  <1>3. pc'[u] \notin {"slowId", "slowEnd", "slowRaise", "slowSet"} BY <1>2 DEF Pc, FastPcs, OpenPcs
  <1>4. ASSUME -enq[u].id \in Number, cells[-enq[u].id] # Null, cells[-enq[u].id].val \in Op
        PROVE  cells'[-enq'[u].id] # Null /\ cells'[-enq'[u].id].val \in Op
    BY <1>4, Nulls DEF AllGrow, Grows
  <1>5. QED BY <1>1, <1>3, <1>4 DEF ReqInv

LEMMA SignsGrow ==
    ASSUME AllSigns
    PROVE  AllGrow
  BY DEF AllSigns, Signs, AllGrow, Grows

LEMMA DeqStep ==
    ASSUME IInv, Bounded, NEW t \in Thread, TypeInv', Alone(t), Away(t), Away(t)', AllSigns,
           putIndex' = putIndex, ring' = ring, putNode' = putNode, enq' = enq, eh' = eh,
           nodes'.put = nodes.put, nodes'.pop <= Segment(popIndex'), popIndex <= popIndex',
           calls[t] <= calls'[t], dh'[t] \in RingSet, Registered(t), Registered(t)',
           \A u \in Thread \ {t} : Turns(u), AllWishes,
           HelpInv(t)', ValInv(t)', DrawInv(t)', DeqInv(t)', SeekInv(t)',
           TakenInv', TakenOnce'
    PROVE  IInv'
  <1>1. TypeInv /\ Own(t) /\ NodesInv /\ AllGrow BY SignsGrow DEF IInv, Whole
  <1>2. putIndex \in Nat /\ popIndex \in Nat /\ putIndex' \in Nat BY <1>1 DEF TypeInv
  <1>3. Ahead BY <1>2 DEF Ahead
  <1>4. ASSUME NEW u \in Thread PROVE Request(u)
    BY <1>1, <1>3, RequestStill DEF AllSigns, Signs, Alone
  <1>5. AllRequests BY <1>4 DEF AllRequests
  <1>6. Apart(t)
    <2>1. ASSUME NEW u \in Thread \ {t}
          PROVE  /\ deq'[u].id = deq[u].id
                 /\ \/ deq'[u].idx = deq[u].idx
                    \/ deq[u].idx >= 0 /\ deq'[u].idx >= 0 /\ Pending(u)'
                    \/ deq[u].idx >= 0 /\ deq'[u].idx < 0 /\ Answered(u)'
      <3>1. deq[u].id \in Nat /\ deq'[u].idx \in Int BY DEF TypeInv, IInv
      <3>2. QED BY <3>1 DEF Turns
    <2>2. QED BY <2>1 DEF Apart, Alone
  <1>7. PutInv(t)' /\ ReqInv(t)' BY <1>1, <1>3, <1>5, PutKept, ReqAway DEF Own
  <1>8. ItemInv'
    <2>1. ASSUME NEW c \in Number, cells'[c] # Null PROVE ItemAt(c)'
      <3>1. CASE cells[c] = Null
        <4>1. cells'[c] = NewCell(Null, Null) BY <2>1, <3>1 DEF AllSigns, Signs
        <4>2. cells'[c].val = Null /\ cells'[c].enq = Null BY <4>1 DEF NewCell
        <4>3. ASSUME NEW u \in Thread PROVE Placed(u, c)'
          <5>1. InPut(u)' => Current(u)' \in Op
            <6>1. InPut(u)' => InCall(u)'
              BY DEF InPut, Fast, Open, Pc, FastPcs, OpenPcs, InCall, Registered
            <6>2. calls' \in [Thread -> 0 .. MaxCalls] /\ (InCall(u)' => calls'[u] # 0)
              BY DEF TypeInv
            <6>3. InCall(u)' => calls'[u] \in 1 .. MaxCalls BY <6>2, Nulls
            <6>4. QED BY <6>1, <6>3, OpIs DEF Current
          <5>2. QED BY <4>2, <5>1, Nulls DEF Placed
        <4>4. QED BY <4>2, <4>3, Nulls DEF ItemAt
      <3>2. CASE cells[c] # Null BY <3>2, <1>2, ItemStays DEF AllSigns, Signs, Placed, Away
      <3>3. QED BY <3>1, <3>2
    <2>2. QED BY <2>1 DEF ItemInv
  <1>9. OneCell' BY Nulls DEF AllSigns, Signs, NewCell, IInv, Whole, OneCell
  <1>10. RingInv'
    <2>1. RingSet' = RingSet BY DEF RingSet
    <2>2. ASSUME NEW u \in Thread, Registered(u)' PROVE {u, eh'[u], dh'[u]} \subseteq RingSet
      BY <2>2 DEF Alone, Registered, IInv, Whole, RingInv
    <2>3. ASSUME NEW u \in Thread, ~Registered(u)' PROVE eh'[u] = u /\ dh'[u] = u
      BY <2>3 DEF Alone, Registered, IInv, Whole, RingInv
    <2>4. QED BY <2>1, <2>2, <2>3 DEF RingInv
  <1>11. NodesInv' BY <1>1 DEF NodesInv
  <1>12. QED BY <1>1, <1>3, <1>5, <1>6, <1>7, <1>8, <1>9, <1>10, <1>11, StepIs DEF Effects, Own

\* What a dequeue that changes nothing for others has to show.
LEMMA DeqFrame ==
    ASSUME IInv, Bounded, NEW t \in Thread, NEW l \in PcLabels, NEW f \in Local,
           pc' = [pc EXCEPT ![t] = l], local' = [local EXCEPT ![t] = f],
           Away(t), l \notin FastPcs \cup OpenPcs \cup {"chasePut"}, Registered(t),
           InCall(t) \/ l = "idle" \/ calls'[t] # 0,
           l \notin {"new", "registerPop", "registerRing"},
           UNCHANGED <<putIndex, ring, putNode, enq, eh, program>>,
           popIndex' \in Nat, popIndex <= popIndex',
           cells' \in [Number -> Cell \cup {Null}], nodes' \in [put : Nat, pop : Nat],
           popNode' \in [Thread -> Nat], \A u \in Thread \ {t} : popNode'[u] = popNode[u],
           deq' \in [Thread -> [id : Nat, idx : Int]],
           dh' \in [Thread -> Thread], \A u \in Thread \ {t} : dh'[u] = dh[u],
           calls' \in [Thread -> 0 .. MaxCalls], \A u \in Thread \ {t} : calls'[u] = calls[u],
           calls[t] <= calls'[t], result' \in [Op -> Item \cup {Null, None}]
    PROVE  /\ TypeInv' /\ Alone(t) /\ Away(t)' /\ pc'[t] = l /\ local'[t] = f /\ Registered(t)'
           /\ \A u \in Thread \ {t} : /\ (Drawn(u)' <=> Drawn(u)) /\ (Asking(u)' <=> Asking(u))
                                      /\ (Helping(u)' <=> Helping(u))
  <1>1. TypeInv BY DEF IInv
  <1>2. /\ Alone(t) /\ pc'[t] = l /\ pc' \in [Thread -> PcLabels] /\ local'[t] = f
        /\ local' \in [Thread -> Local]
    <2>1. pc'[t] = l /\ pc' \in [Thread -> PcLabels] /\ (\A u \in Thread \ {t} : pc'[u] = pc[u])
      BY <1>1, Moves
    <2>2. /\ local'[t] = f /\ local' \in [Thread -> Local]
          /\ \A u \in Thread \ {t} : local'[u] = local[u]
      BY <1>1 DEF TypeInv
    <2>3. QED BY <2>1, <2>2 DEF Alone
  <1>3. ASSUME NEW u \in Thread, InCall(u)' PROVE calls'[u] # 0
    <2>1. CASE u = t BY <1>1, Nulls, <1>2, <1>3, <2>1 DEF TypeInv, InCall
    <2>2. CASE u # t BY <1>2, <1>3, <2>2, Status, <1>1 DEF Alone, TypeInv
    <2>3. QED BY <2>1, <2>2
  <1>4. TypeInv'
    <2>1. popIndex \in Nat /\ Used \in Nat /\ Used <= popIndex BY <1>1, Nulls DEF TypeInv
    <2>2. Used <= popIndex' BY <2>1
    <2>3. QED BY <1>1, <1>2, <1>3, <2>2 DEF TypeInv
  <1>5. Away(t)' /\ Registered(t)' BY <1>2 DEF Away, InPut, Fast, Open, Pc, Registered
  <1>6. ASSUME NEW u \in Thread \ {t}
        PROVE  /\ (Drawn(u)' <=> Drawn(u)) /\ (Asking(u)' <=> Asking(u)) /\ (Helping(u)' <=> Helping(u))
    BY <1>2, Status DEF Alone
  <1>7. QED BY <1>2, <1>4, <1>5, <1>6

-----------------------------------------------------------------------------
(* Steps of help_deq.                                                      *)

LEMMA SeekSide ==
    ASSUME NEW t, pc[t] \in SeekPcs
    PROVE  /\ Away(t) /\ Registered(t) /\ InCall(t) /\ Helping(t) /\ ~Drawn(t) /\ ~Answering(t)
           /\ (Asking(t) <=> local[t].then = "slowDone")
           /\ pc[t] \notin {"idle", "slowDeqIdx", "slowDone", "slowGot", "popDeq"} \cup HelpPcs
  BY DEF SeekPcs, HelpPcs, NodePcs, Away, InPut, Fast, Open, Pc, FastPcs, OpenPcs, Registered, InCall,
         Helping, Drawn, Answering, Asking

LEMMA SeekStep ==
    ASSUME IInv, Bounded, NEW t \in Thread, pc[t] \in SeekPcs,
           NEW l \in (SeekPcs \ {"seekDeq"}) \cup {"helpVal", "slowDone", "dequeued"}, NEW f \in Local,
           pc' = [pc EXCEPT ![t] = l], local' = [local EXCEPT ![t] = f],
           UNCHANGED <<putIndex, ring, nodes, putNode, popNode, enq, handles, history>>,
           popIndex' \in Nat, popIndex <= popIndex', cells' \in [Number -> Cell \cup {Null}], AllSigns,
           deq' \in [Thread -> [id : Nat, idx : Int]], \A u \in Thread : Turns(u),
           \A u \in Thread, x \in Number : deq[u].id < x /\ cells[x] # Null /\ Cand(u, x) => Cand(u, x)',
           l \in SeekPcs \cup {"helpVal"} => f.then = local[t].then,
           l = "helpVal" => f.back = "seekDeq",
           l \in {"slowDone", "dequeued"} => l = local[t].then,
           l = "slowDone" => deq'[t].idx < 0,
           HelpInv(t)', SeekInv(t)'
    PROVE  IInv'
  <1>1. /\ Away(t) /\ Registered(t) /\ InCall(t) /\ Helping(t) /\ ~Drawn(t) /\ ~Answering(t)
        /\ (Asking(t) <=> local[t].then = "slowDone")
        /\ pc[t] \notin {"idle", "slowDeqIdx", "slowDone", "slowGot", "popDeq"} \cup HelpPcs
    BY SeekSide
  <1>2. TypeInv /\ Own(t) /\ NodesInv BY DEF IInv, Whole
  <1>3. /\ l \in PcLabels
        /\ l \notin FastPcs \cup OpenPcs \cup {"chasePut", "new", "registerPop", "registerRing", "idle"}
    BY DEF SeekPcs, PcLabels, FastPcs, OpenPcs
  <1>4. /\ TypeInv' /\ Alone(t) /\ Away(t)' /\ pc'[t] = l /\ local'[t] = f /\ Registered(t)'
        /\ \A u \in Thread \ {t} : (Drawn(u)' <=> Drawn(u)) /\ (Asking(u)' <=> Asking(u))
    <2>1. /\ nodes' = nodes /\ popNode' = popNode /\ dh' = dh /\ calls' = calls /\ result' = result
          /\ UNCHANGED <<putIndex, ring, putNode, enq, eh, program>>
      BY DEF handles, history
    <2>2. /\ nodes' \in [put : Nat, pop : Nat] /\ popNode' \in [Thread -> Nat]
          /\ dh' \in [Thread -> Thread] /\ calls' \in [Thread -> 0 .. MaxCalls]
          /\ result' \in [Op -> Item \cup {Null, None}]
      BY <1>2, <2>1 DEF TypeInv
    <2>3. calls[t] \in Int BY <1>2, CurrentIs
    <2>4. /\ \A u \in Thread \ {t} : popNode'[u] = popNode[u] /\ dh'[u] = dh[u] /\ calls'[u] = calls[u]
          /\ calls[t] <= calls'[t]
      BY <2>1, <2>3
    <2>5. UNCHANGED <<putIndex, ring, putNode, enq, eh, program>> BY <2>1
    <2> HIDE <2>1
    <2>6. QED BY <1>1, <1>3, <2>2, <2>4, <2>5, DeqFrame
  <1>5. /\ ~Drawn(t)' /\ l \notin {"idle", "slowDeqIdx", "popDeq", "seekDeq"}
        /\ Answering(t)' <=> l = "slowDone"
        /\ Helping(t)' <=> l \in SeekPcs \cup {"helpVal"}
    BY <1>4 DEF HelpPcs, SeekPcs, NodePcs, Drawn, Answering, Helping
  <1>6. Asking(t)' <=> Asking(t) BY <1>1, <1>4, <1>5 DEF SeekPcs, Asking
  <1>7. AllGrow BY SignsGrow
  <1>8. putIndex \in Nat /\ popIndex \in Nat BY <1>2 DEF TypeInv
  <1>9. ASSUME NEW p \in Thread PROVE Wish(p)
    BY <1>2, RequestIs, <1>1, <1>4, <1>5, <1>6, <1>8 DEF Turns, Alone, Prior, Bound, Bar, Wish
  <1>10. AllWishes BY <1>9 DEF AllWishes
  <1>11. Segment(popIndex) <= Segment(popIndex') /\ Segment(popIndex) \in Nat /\ Segment(popIndex') \in Nat
    BY <1>8, Segments
  <1>12. nodes.pop \in Nat /\ popNode[t] \in Nat /\ deq[t].id \in Nat /\ deq[t].idx \in Int
         /\ deq'[t].idx \in Int
    BY <1>2, RequestIs DEF TypeInv
  <1>13. nodes'.pop <= Segment(popIndex') BY <1>2, <1>11, <1>12 DEF NodesInv
  <1>14. DrawInv(t)' BY <1>2, <1>4, <1>5, <1>11, <1>12 DEF RegisterPcs, SeekPcs, Own, DrawInv
  <1>15. DeqInv(t)'
    <2>1. DeqInv(t) /\ Turns(t) BY <1>2 DEF Own
    <2>2. deq'[t].id = deq[t].id BY <2>1 DEF Turns
    <2>3. Answered(t) /\ deq'[t].idx = deq[t].idx => Answered(t)'
      BY <1>2, <1>7, <1>8, <2>2, AnswerStays DEF Ahead
    <2>4. Pending(t) /\ deq'[t].idx = deq[t].idx => Pending(t)'
      BY <1>2, <1>7, <1>8, <2>2, PendingStays DEF Ahead
    <2>5. deq'[t].idx >= 0 => Asking(t)' /\ Pending(t)' BY <1>6, <1>12, <2>1, <2>4 DEF Turns, DeqInv
    <2>6. Asking(t)' /\ deq'[t].idx < 0 => Answered(t)' BY <1>6, <1>12, <2>1, <2>3 DEF Turns, DeqInv
    <2>7. deq'[t].id < popIndex' BY <1>8, <1>12, <2>1, <2>2 DEF DeqInv
    <2>8. Asking(t)' => deq'[t].id >= Used /\ popNode'[t] <= Segment(deq'[t].id)
      BY <1>1, <1>6, <2>1, <2>2 DEF DeqInv
    <2>9. Answering(t)' => pc'[t] = "slowDone" /\ deq'[t].idx < 0 BY <1>4, <1>5
    <2>10. deq'[t].idx >= -popIndex' BY <1>8, <1>12, <2>1 DEF DeqInv, Answered, Turns
    <2>11. QED BY <1>4, <1>5, <2>5, <2>6, <2>7, <2>8, <2>9, <2>10 DEF DeqInv
  <1>16. ValInv(t)' BY <1>4, <1>5 DEF ValInv, ValAt
  <1>17. TakenInv' /\ TakenOnce' BY <1>4, <1>7, <1>10, TakenKept DEF history
  <1>18. dh'[t] \in RingSet BY <1>1 DEF IInv, Whole, RingInv, handles
  <1>19. calls[t] <= calls'[t] BY <1>2, CurrentIs DEF history
  <1>20. QED
    BY <1>1, <1>4, <1>10, <1>13, <1>14, <1>15, <1>16, <1>17, <1>18, <1>19, DeqStep DEF handles

\* Steps that only look.
LEMMA SeekLooks ==
    ASSUME IInv, Bounded, NEW t \in Thread, pc[t] \in SeekPcs,
           NEW l \in SeekPcs \ {"seekDeq"}, NEW f \in Local,
           pc' = [pc EXCEPT ![t] = l], local' = [local EXCEPT ![t] = f],
           UNCHANGED <<shared, handles, history>>, f.then = local[t].then, SeekAt(t, l, f)
    PROVE  IInv'
  <1>1. TypeInv BY DEF IInv
  <1>2. pc'[t] = l /\ local'[t] = f /\ (\A u \in Thread \ {t} : pc'[u] = pc[u] /\ local'[u] = local[u])
    BY <1>1 DEF TypeInv
  <1>3. /\ popIndex \in Nat /\ popIndex' \in Nat /\ popIndex <= popIndex'
        /\ cells' \in [Number -> Cell \cup {Null}] /\ deq' \in [Thread -> [id : Nat, idx : Int]]
        /\ UNCHANGED <<putIndex, ring, nodes, putNode, popNode, enq, handles, history>>
        /\ cells' = cells /\ deq' = deq /\ popIndex' = popIndex
    BY <1>1 DEF TypeInv, shared
  <1>4. AllSigns /\ (\A u \in Thread : Turns(u)) BY <1>3 DEF AllSigns, Signs, Turns
  <1>5. ASSUME NEW u \in Thread
        PROVE  (Drawn(u)' <=> Drawn(u)) /\ ((pc'[u] = "slowDeqIdx") <=> (pc[u] = "slowDeqIdx"))
               /\ (Drawn(u) => local'[u] = local[u])
    BY SeekSide, <1>2, Status DEF Drawn, SeekPcs, HelpPcs, NodePcs
  <1>6. SeekInv(t)'
    <2>1. \A u \in Thread : \A x : Prior(u, x)' <=> Prior(u, x) BY <1>3, <1>5 DEF Prior
    <2>2. \A u \in Thread : \A d, x : Bound(u, d, x)' <=> Bound(u, d, x) BY <1>3, <1>5 DEF Bound
    <2>3. \A u \in Thread : \A x : Cand(u, x)' <=> Cand(u, x) BY <1>3 DEF Cand
    <2>4. f.ph \in Thread BY DEF SeekAt
    <2>5. SeekAt(t, l, f)' BY <1>3, <1>5, <2>1, <2>2, <2>3, <2>4 DEF SeekAt
    <2>6. QED BY <1>2, <2>5 DEF SeekInv, SeekAt, Prior, Bound, Cand, Drawn
  <1>7. HelpInv(t)' BY <1>2 DEF HelpInv, HelpAt, HelpPcs, SeekPcs
  <1>8. \A u \in Thread, x \in Number : Cand(u, x) => Cand(u, x)' BY <1>3 DEF Cand
  <1>9. l \notin {"helpVal", "slowDone", "dequeued"} BY DEF SeekPcs
  <1>10. UNCHANGED <<putIndex, ring, nodes, putNode, popNode, enq, handles, history>> BY <1>3
  <1>11. /\ popIndex' \in Nat /\ popIndex <= popIndex'
         /\ cells' \in [Number -> Cell \cup {Null}] /\ deq' \in [Thread -> [id : Nat, idx : Int]]
    BY <1>3
  <1> HIDE <1>3
  <1>12. QED BY <1>4, <1>6, <1>7, <1>8, <1>9, <1>10, <1>11, SeekStep

LEMMA SeekGoes ==
    ASSUME IInv, Bounded, NEW t \in Thread, pc[t] \in SeekPcs, NEW l \in SeekPcs \ {"seekDeq"},
           Keep(t, l), UNCHANGED <<shared, handles, history>>, SeekAt(t, l, local[t])
    PROVE  IInv'
  <1>1. PICK f \in Local : f = local[t] BY LocalIs DEF IInv
  <1>2. local' = [local EXCEPT ![t] = f] /\ pc' = [pc EXCEPT ![t] = l]
    BY <1>1 DEF IInv, TypeInv, Keep, Goto
  <1>3. QED BY <1>1, <1>2, SeekLooks

\* help_deq returns.
LEMMA SeekLeaves ==
    ASSUME IInv, Bounded, NEW t \in Thread, pc[t] \in SeekPcs, Leave(t),
           UNCHANGED <<putIndex, popIndex, cells, ring, nodes, putNode, popNode, enq, handles, history>>,
           deq' \in [Thread -> [id : Nat, idx : Int]], \A u \in Thread : Turns(u),
           \A u \in Thread, x \in Number : deq[u].id < x /\ cells[x] # Null /\ Cand(u, x) => Cand(u, x)',
           local[t].then = "slowDone" => deq'[t].idx < 0
    PROVE  IInv'
  <1>1. TypeInv /\ local[t].then \in {"slowDone", "dequeued"}
    BY SeekSide DEF IInv, Own, SeekInv, SeekAt
  <1>2. PICK l \in {"slowDone", "dequeued"} : l = local[t].then BY <1>1
  <1>3. PICK f \in Local : f = Blank BY BlankIs
  <1>4. pc' = [pc EXCEPT ![t] = l] /\ local' = [local EXCEPT ![t] = f] BY <1>2, <1>3 DEF Leave, Goto
  <1>5. pc'[t] = l BY <1>1, <1>4 DEF TypeInv
  <1>6. HelpInv(t)' /\ SeekInv(t)' BY <1>5 DEF HelpInv, HelpAt, SeekInv, Helping, HelpPcs, SeekPcs
  <1>7. AllSigns BY DEF AllSigns, Signs
  <1>8. popIndex' \in Nat /\ popIndex <= popIndex' /\ cells' \in [Number -> Cell \cup {Null}]
    BY <1>1 DEF TypeInv
  <1>9. UNCHANGED <<putIndex, ring, nodes, putNode, popNode, enq, handles, history>> OBVIOUS
  <1>10. l \notin SeekPcs \cup {"helpVal"} BY DEF SeekPcs
  <1>11. QED BY <1>2, <1>4, <1>6, <1>7, <1>8, <1>9, <1>10, SeekStep

\* A request that is open.
LEMMA PendingIs ==
    ASSUME IInv, Bounded, NEW p \in Thread, deq[p].idx >= 0
    PROVE  /\ Asking(p) /\ Helping(p) /\ ~Drawn(p) /\ pc[p] # "slowDeqIdx"
           /\ deq[p].idx >= deq[p].id /\ deq[p].idx < popIndex /\ deq[p].idx \in Number
           /\ deq[p].idx > deq[p].id => cells[deq[p].idx] # Null
           /\ popNode[p] <= Segment(deq[p].id)
           /\ \A id, x : Bound(p, id, x) /\ deq[p].idx = x => deq[p].id = id
  <1>1. TypeInv /\ DeqInv(p) BY DEF IInv, Own
  <1>2. deq[p].idx \in Int /\ deq[p].id \in Nat /\ popIndex \in Nat /\ popIndex < Cells /\ Cells \in Nat
    BY <1>1, RequestIs, Nulls DEF TypeInv, Bounded
  <1>3. Asking(p) /\ Pending(p) /\ ~Answering(p) BY <1>1, <1>2 DEF DeqInv
  <1>4. Helping(p) BY <1>3 DEF Asking
  <1>5. ~Drawn(p) /\ pc[p] # "slowDeqIdx" BY <1>4 DEF Helping, Drawn, SeekPcs, HelpPcs, NodePcs
  <1>6. /\ deq[p].idx >= deq[p].id /\ deq[p].idx < popIndex /\ deq[p].idx \in Number
        /\ deq[p].idx > deq[p].id => cells[deq[p].idx] # Null
    BY <1>2, <1>3 DEF Pending, Number
  <1>7. popNode[p] <= Segment(deq[p].id) BY <1>1, <1>3, <1>4 DEF DeqInv
  <1>8. ASSUME NEW id, NEW x, Bound(p, id, x), deq[p].idx = x PROVE deq[p].id = id
    BY <1>2, <1>6, <1>8 DEF Bound
  <1>9. QED BY <1>3, <1>4, <1>5, <1>6, <1>7, <1>8

LEMMA SeekIs ==
    ASSUME IInv, Bounded, NEW t \in Thread, pc[t] \in SeekPcs
    PROVE  /\ SeekAt(t, pc[t], local[t]) /\ local[t] \in Local /\ TypeInv
           /\ local[t].ph \in Thread /\ local[t].then \in {"slowDone", "dequeued"}
           /\ local[t].then = "slowDone" => local[t].ph = t
           /\ deq[local[t].ph].id \in Nat /\ deq[local[t].ph].idx \in Int
           /\ deq[local[t].ph].id < popIndex /\ popIndex \in Nat /\ popIndex < Cells /\ Cells \in Nat
           /\ popNode[local[t].ph] \in Nat
           /\ local[t].dp \in Nat /\ local[t].did \in Int /\ local[t].idx \in Int /\ local[t].i \in Int
           /\ local[t].old \in Int /\ local[t].new \in Int
  <1>1. TypeInv /\ Helping(t) BY SeekSide DEF IInv
  <1>2. SeekAt(t, pc[t], local[t]) BY <1>1 DEF IInv, Own, SeekInv
  <1>3. /\ local[t].ph \in Thread /\ local[t].then \in {"slowDone", "dequeued"}
        /\ local[t].then = "slowDone" => local[t].ph = t
    BY <1>2 DEF SeekAt
  <1>4. /\ deq[local[t].ph].id \in Nat /\ deq[local[t].ph].idx \in Int
        /\ deq[local[t].ph].id < popIndex /\ popNode[local[t].ph] \in Nat
    BY <1>1, <1>3, RequestIs DEF IInv, Own, DeqInv
  <1>5. popIndex \in Nat /\ popIndex < Cells /\ Cells \in Nat BY <1>1, Nulls DEF TypeInv, Bounded
  <1>6. QED BY <1>1, <1>2, <1>3, <1>4, <1>5, LocalIs

\* What help_deq notes.
LEMMA Notes ==
    ASSUME NEW g \in Local
    PROVE  /\ \A x \in Int : [g EXCEPT !.idx = x] \in Local
           /\ \A x \in Int : [g EXCEPT !.did = x] \in Local
           /\ \A n \in Nat : [g EXCEPT !.dp = n] \in Local
           /\ \A x \in Int : [g EXCEPT !.new = x] \in Local
           /\ \A x, y, z \in Int : [g EXCEPT !.idx = x, !.old = y, !.i = z] \in Local
           /\ \A x, y, z \in Int : \A n \in Nat :
                  [g EXCEPT !.idx = x, !.dp = n, !.cell = y, !.new = z] \in Local
           /\ \A x, y, z \in Int : \A n \in Nat : \A b \in PcLabels :
                  [g EXCEPT !.idx = x, !.old = y, !.i = z, !.dp = n, !.cell = z, !.back = b] \in Local
  <1>1. ASSUME NEW x \in Int
        PROVE  /\ [g EXCEPT !.idx = x] \in Local /\ [g EXCEPT !.did = x] \in Local
               /\ [g EXCEPT !.new = x] \in Local
    BY DEF Local
  <1>2. ASSUME NEW n \in Nat PROVE [g EXCEPT !.dp = n] \in Local BY DEF Local
  <1>3. ASSUME NEW x \in Int, NEW y \in Int, NEW z \in Int
        PROVE  [g EXCEPT !.idx = x, !.old = y, !.i = z] \in Local
    BY DEF Local
  <1>4. ASSUME NEW x \in Int, NEW y \in Int, NEW z \in Int, NEW n \in Nat
        PROVE  [g EXCEPT !.idx = x, !.dp = n, !.cell = y, !.new = z] \in Local
    BY DEF Local
  <1>5. ASSUME NEW x \in Int, NEW y \in Int, NEW z \in Int, NEW n \in Nat, NEW b \in PcLabels
        PROVE  [g EXCEPT !.idx = x, !.old = y, !.i = z, !.dp = n, !.cell = z, !.back = b] \in Local
    BY DEF Local
  <1>6. QED BY <1>1, <1>2, <1>3, <1>4, <1>5

LEMMA AskIdxStep ==
    ASSUME IInv, Bounded, NEW t \in Thread, AskIdx(t)
    PROVE  IInv'
  <1> DEFINE p == local[t].ph
             x == deq[p].idx
  <1>1. pc[t] = "askIdx" /\ pc[t] \in SeekPcs BY DEF AskIdx, SeekPcs
  <1>2. /\ SeekAt(t, pc[t], local[t]) /\ local[t] \in Local /\ x \in Int /\ deq[p].id \in Nat
        /\ p \in Thread /\ local[t].then \in {"slowDone", "dequeued"} /\ (local[t].then = "slowDone" => p = t)
    BY <1>1, SeekIs
  <1> DEFINE f == [local[t] EXCEPT !.idx = x]
  <1>3. f \in Local /\ f.idx = x /\ f.ph = p /\ f.then = local[t].then
    <2>1. f \in Local BY <1>2, Notes
    <2>2. QED BY <1>2, <2>1 DEF Local
  <1>4. x >= 0 => Prior(p, x) /\ x >= deq[p].id BY <1>2, PendingIs DEF Prior
  <1>6. local' = [local EXCEPT ![t] = f] /\ pc' = [pc EXCEPT ![t] = "askId"]
        /\ UNCHANGED <<shared, handles, history>>
    BY DEF AskIdx, Goto
  <1> HIDE DEF f
  <1>5. SeekAt(t, "askId", f) BY <1>2, <1>3, <1>4 DEF SeekAt, HelpPcs
  <1>7. "askId" \in SeekPcs \ {"seekDeq"} BY DEF SeekPcs
  <1>8. QED BY <1>1, <1>3, <1>5, <1>6, <1>7, SeekLooks

\* help_deq returns and nothing else has changed.
LEMMA LooksLeave ==
    ASSUME IInv, Bounded, NEW t \in Thread, pc[t] \in SeekPcs, Leave(t),
           UNCHANGED <<shared, handles, history>>, local[t].then = "slowDone" => deq[t].idx < 0
    PROVE  IInv'
  <1>1. deq' \in [Thread -> [id : Nat, idx : Int]] BY DEF IInv, TypeInv, shared
  <1>2. \A u \in Thread : Turns(u) BY DEF Turns, shared
  <1>3. \A u \in Thread, x \in Number : Cand(u, x) => Cand(u, x)' BY DEF Cand, shared
  <1>4. /\ UNCHANGED <<putIndex, popIndex, cells, ring, nodes, putNode, popNode, enq, handles, history>>
        /\ deq' = deq
    BY DEF shared
  <1>5. QED BY <1>1, <1>2, <1>3, <1>4, SeekLeaves

LEMMA AskIdStep ==
    ASSUME IInv, Bounded, NEW t \in Thread, AskId(t)
    PROVE  IInv'
  <1> DEFINE p == local[t].ph
             id == deq[p].id
  <1>1. pc[t] = "askId" /\ pc[t] \in SeekPcs BY DEF AskId, SeekPcs
  <1>2. /\ SeekAt(t, pc[t], local[t]) /\ local[t] \in Local /\ id \in Nat /\ local[t].idx \in Int
        /\ p \in Thread /\ local[t].then \in {"slowDone", "dequeued"} /\ (local[t].then = "slowDone" => p = t)
    BY <1>1, SeekIs
  <1>3. CASE local[t].idx < id BY <1>3, <1>1, <1>2, LooksLeave DEF AskId, SeekAt
  <1>4. CASE ~(local[t].idx < id)
    <2> DEFINE f == [local[t] EXCEPT !.did = id]
    <2>1. f \in Local /\ f.did = id /\ f.ph = p /\ f.then = local[t].then
      <3>1. f \in Local
        <4>1. id \in Int BY <1>2
        <4>2. QED BY <1>2, <4>1, Notes
      <3>2. QED BY <1>2, <3>1 DEF Local
    <2>2. pc[p] # "slowDeqIdx" BY <1>1, <1>2, <1>4 DEF SeekAt, Prior
    <2>4. local' = [local EXCEPT ![t] = f] /\ pc' = [pc EXCEPT ![t] = "askNode"]
          /\ UNCHANGED <<shared, handles, history>>
      BY <1>4 DEF AskId, Goto
    <2> HIDE DEF f
    <2>3. SeekAt(t, "askNode", f) BY <1>2, <2>1, <2>2 DEF SeekAt, HelpPcs
    <2>5. "askNode" \in SeekPcs \ {"seekDeq"} BY DEF SeekPcs
    <2>6. QED BY <1>1, <2>1, <2>3, <2>4, <2>5, SeekLooks
  <1>5. QED BY <1>3, <1>4

LEMMA AskNodeStep ==
    ASSUME IInv, Bounded, NEW t \in Thread, AskNode(t)
    PROVE  IInv'
  <1> DEFINE p == local[t].ph
             n == popNode[p]
  <1>1. pc[t] = "askNode" /\ pc[t] \in SeekPcs BY DEF AskNode, SeekPcs
  <1>2. /\ SeekAt(t, pc[t], local[t]) /\ local[t] \in Local /\ n \in Nat
        /\ p \in Thread /\ local[t].then \in {"slowDone", "dequeued"} /\ (local[t].then = "slowDone" => p = t)
    BY <1>1, SeekIs
  <1> DEFINE f == [local[t] EXCEPT !.dp = n]
  <1>3. f \in Local /\ f.dp = n /\ f.ph = p /\ f.then = local[t].then /\ f.did = local[t].did
    <2>1. f \in Local BY <1>2, Notes
    <2>2. QED BY <1>2, <2>1 DEF Local
  <1>4. deq[p].idx >= 0 => n <= Segment(deq[p].id) BY <1>2, PendingIs
  <1>6. local' = [local EXCEPT ![t] = f] /\ pc' = [pc EXCEPT ![t] = "askAgain"]
        /\ UNCHANGED <<shared, handles, history>>
    BY DEF AskNode, Goto
  <1> HIDE DEF f
  <1>5. SeekAt(t, "askAgain", f) BY <1>1, <1>2, <1>3, <1>4 DEF SeekAt, HelpPcs
  <1>7. "askAgain" \in SeekPcs \ {"seekDeq"} BY DEF SeekPcs
  <1>8. QED BY <1>1, <1>3, <1>5, <1>6, <1>7, SeekLooks

\* One more round.
LEMMA RoundStep ==
    ASSUME IInv, Bounded, NEW t \in Thread, pc[t] \in SeekPcs \ {"askIdx", "askId"},
           NEW p \in Thread, NEW id \in Int, p = local[t].ph, id = local[t].did,
           NEW idx \in Int, NEW old \in Int, NEW i \in Int, Round(t, idx, old, i),
           UNCHANGED <<shared, handles, history>>, i \in id + 1 .. popIndex,
           idx = old => /\ old >= 0 /\ Bound(p, id, old) /\ local[t].dp <= Segment(i)
                        /\ deq[p].id = id => old >= id
                        /\ deq[p].id = id /\ old > id => deq[p].idx # id,
           idx # old => /\ idx = deq[p].idx
                        /\ deq[p].id = id /\ idx >= 0 => idx # id /\ local[t].dp <= Segment(i)
    PROVE  IInv'
  <1>1. pc[t] \in SeekPcs OBVIOUS
  <1>2. /\ SeekAt(t, pc[t], local[t]) /\ local[t] \in Local /\ local[t].dp \in Nat
        /\ local[t].then \in {"slowDone", "dequeued"} /\ (local[t].then = "slowDone" => p = t)
        /\ popIndex \in Nat /\ deq[p].id \in Nat /\ deq[p].idx \in Int
    BY <1>1, SeekIs
  <1>3. /\ id \in 0 .. deq[p].id
        /\ local[t].then = "slowDone" => id = deq[t].id
        /\ id = deq[p].id => pc[p] # "slowDeqIdx"
    BY <1>2 DEF SeekAt
  <1>4. i \in Nat BY <1>2, <1>3
  <1>5. CASE idx = old
    <2>1. FindCell(local[t].dp, i) = Segment(i) /\ At(Segment(i), i) = i /\ Segment(i) \in Nat
      BY <1>2, <1>4, <1>5, Segments
    <2>2. PICK n \in Nat : n = Segment(i) BY <2>1
    <2> DEFINE g == [local[t] EXCEPT !.idx = idx, !.old = old, !.i = i, !.dp = n, !.cell = i,
                                     !.back = "seekDeq"]
    <2>3. g \in Local
      <3>1. "seekDeq" \in PcLabels BY DEF PcLabels
      <3>2. QED BY <1>2, <3>1, Notes
    <2>4. /\ g.idx = idx /\ g.old = old /\ g.i = i /\ g.dp = n /\ g.cell = i /\ g.back = "seekDeq"
          /\ g.ph = p /\ g.did = id /\ g.then = local[t].then
      BY <1>2 DEF Local
    <2>5. local' = [local EXCEPT ![t] = g] /\ pc' = [pc EXCEPT ![t] = "seekCell"]
      <3>1. FindCell(local[t].dp, i) = n /\ At(n, i) = i BY <2>1, <2>2
      <3>2. /\ local' = [local EXCEPT ![t].idx = idx, ![t].old = old, ![t].i = i, ![t].dp = n,
                                      ![t].cell = i, ![t].back = "seekDeq"]
            /\ pc' = [pc EXCEPT ![t] = "seekCell"]
        BY <1>5, <3>1 DEF Round, Goto
      <3>3. QED BY <3>2
    <2> HIDE DEF g
    <2>6. PICK f \in Local : f = g BY <2>3
    <2>7. SeekAt(t, "seekCell", f) BY <1>2, <1>3, <1>5, <2>1, <2>2, <2>4, <2>6 DEF SeekAt, HelpPcs
    <2>8. "seekCell" \in SeekPcs \ {"seekDeq"} BY DEF SeekPcs
    <2>9. QED BY <1>1, <2>4, <2>5, <2>6, <2>7, <2>8, SeekLooks
  <1>6. CASE idx # old
    <2> DEFINE g == [local[t] EXCEPT !.idx = idx, !.old = old, !.i = i]
    <2>1. g \in Local BY <1>2, Notes
    <2>2. g.idx = idx /\ g.i = i /\ g.dp = local[t].dp /\ g.ph = p /\ g.did = id /\ g.then = local[t].then
      BY <1>2 DEF Local
    <2>3. local' = [local EXCEPT ![t] = g] /\ pc' = [pc EXCEPT ![t] = "moved"]
      BY <1>6 DEF Round, Goto
    <2> HIDE DEF g
    <2>4. PICK f \in Local : f = g BY <2>1
    <2>5. idx >= 0 => /\ idx >= deq[p].id /\ Bound(p, deq[p].id, idx)
                      /\ idx > deq[p].id => cells[idx] # Null
      BY <1>6, PendingIs DEF Bound
    <2>6. Cand(p, idx) BY <1>6 DEF Cand
    <2>7. SeekAt(t, "moved", f) BY <1>2, <1>3, <1>6, <2>2, <2>4, <2>5, <2>6 DEF SeekAt, HelpPcs
    <2>8. "moved" \in SeekPcs \ {"seekDeq"} BY DEF SeekPcs
    <2>9. QED BY <1>1, <2>2, <2>3, <2>4, <2>7, <2>8, SeekLooks
  <1>7. QED BY <1>5, <1>6

LEMMA AskAgainStep ==
    ASSUME IInv, Bounded, NEW t \in Thread, AskAgain(t)
    PROVE  IInv'
  <1>1. pc[t] = "askAgain" /\ pc[t] \in SeekPcs /\ pc[t] \in SeekPcs \ {"askIdx", "askId"}
    BY DEF AskAgain, SeekPcs
  <1>2. /\ SeekAt(t, pc[t], local[t]) /\ local[t].ph \in Thread /\ local[t].did \in Int
        /\ deq[local[t].ph].idx \in Int /\ deq[local[t].ph].id \in Nat
        /\ deq[local[t].ph].id < popIndex /\ popIndex \in Nat /\ local[t].dp \in Nat
    BY <1>1, SeekIs
  <1>3. PICK p \in Thread, id \in Int, idx \in Int : p = local[t].ph /\ id = local[t].did /\ idx = deq[p].idx
    BY <1>2
  <1>4. Round(t, idx, id, id + 1) /\ UNCHANGED <<shared, handles, history>> /\ id + 1 \in Int
    BY <1>3 DEF AskAgain
  <1>5. /\ id \in 0 .. deq[p].id
        /\ deq[p].id = id /\ deq[p].idx >= 0 => local[t].dp <= Segment(id)
    BY <1>1, <1>2, <1>3 DEF SeekAt
  <1>6. id + 1 \in id + 1 .. popIndex BY <1>2, <1>3, <1>5
  <1>7. deq[p].id = id /\ deq[p].idx >= 0 => local[t].dp <= Segment(id + 1) BY <1>5, Segments, <1>2
  <1>8. idx = id => /\ id >= 0 /\ Bound(p, id, id) /\ local[t].dp <= Segment(id + 1) /\ deq[p].id = id
    <2>1. SUFFICES ASSUME idx = id
                   PROVE  /\ id >= 0 /\ Bound(p, id, id) /\ local[t].dp <= Segment(id + 1) /\ deq[p].id = id
      OBVIOUS
    <2>2. deq[p].idx >= 0 /\ id >= 0 BY <1>3, <1>5, <2>1
    <2>3. deq[p].idx >= deq[p].id /\ ~Drawn(p) /\ deq[p].idx < popIndex BY <2>2, PendingIs
    <2>4. deq[p].id = id BY <1>2, <1>3, <1>5, <2>1, <2>3
    <2>5. QED BY <1>3, <1>7, <2>1, <2>2, <2>3, <2>4 DEF Bound
  <1>9. QED BY <1>1, <1>3, <1>4, <1>6, <1>7, <1>8, RoundStep

\* What the helper of a request knows, from the label and the locals it has.
LEMMA SeekNow ==
    \A t \in Thread, l \in SeekPcs \cup {"helpVal"}, f \in Local :
        pc[t] = l /\ local[t] = f /\ SeekAt(t, l, f) => SeekInv(t)
  BY DEF SeekInv

\* The same of the labels and the locals a step leaves it with.
LEMMA SeekNext ==
    (\A t \in Thread, l \in SeekPcs \cup {"helpVal"}, f \in Local :
        pc[t] = l /\ local[t] = f /\ SeekAt(t, l, f) => SeekInv(t))'
  BY SeekNow, PTL

\* What a step of help_deq leaves alone.
LEMMA SeekOthers ==
    ASSUME IInv, NEW t \in Thread, pc[t] \in SeekPcs,
           NEW l \in SeekPcs \cup {"helpVal"}, NEW f \in Local,
           pc' = [pc EXCEPT ![t] = l], local' = [local EXCEPT ![t] = f],
           l = "helpVal" => f.back = "seekDeq",
           popIndex' \in Nat, popIndex <= popIndex', \A u \in Thread : deq'[u].id = deq[u].id
    PROVE  /\ pc'[t] = l /\ local'[t] = f
           /\ \A u \in Thread : /\ (pc'[u] = "slowDeqIdx") <=> (pc[u] = "slowDeqIdx")
                                /\ Drawn(u)' <=> Drawn(u)
           /\ \A u \in Thread, id, x \in Int : Bound(u, id, x) => Bound(u, id, x)'
           /\ l \in SeekPcs => HelpInv(t)'
           /\ SeekAt(t, l, f)' => SeekInv(t)'
  <1>1. TypeInv /\ popIndex \in Nat BY DEF IInv, TypeInv
  <1>2. pc'[t] = l /\ local'[t] = f /\ (\A u \in Thread \ {t} : pc'[u] = pc[u] /\ local'[u] = local[u])
    BY <1>1 DEF TypeInv
  <1>3. ASSUME NEW u \in Thread
        PROVE  (Drawn(u)' <=> Drawn(u)) /\ ((pc'[u] = "slowDeqIdx") <=> (pc[u] = "slowDeqIdx"))
               /\ (Drawn(u) => local'[u] = local[u])
    BY SeekSide, <1>2, Status DEF Drawn, SeekPcs, HelpPcs, NodePcs
  <1>4. \A u \in Thread, id, x \in Int : Bound(u, id, x) => Bound(u, id, x)' BY <1>1, <1>3 DEF Bound
  <1>5. l \in SeekPcs => HelpInv(t)' BY <1>2 DEF HelpInv, HelpAt, HelpPcs, SeekPcs
  <1>6. SeekAt(t, l, f)' => SeekInv(t)' BY <1>2, SeekNext
  <1>7. QED BY <1>2, <1>3, <1>4, <1>5, <1>6

LEMMA SeekCellStep ==
    ASSUME IInv, Bounded, NEW t \in Thread, SeekCell(t)
    PROVE  IInv'
  <1>1. pc[t] = "seekCell" /\ pc[t] \in SeekPcs BY DEF SeekCell, SeekPcs
  <1>2. SeekAt(t, pc[t], local[t]) BY <1>1, SeekIs
  <1>3. UNCHANGED <<shared, handles, history>> BY DEF SeekCell
  <1>4. CASE Empty(local[t].cell)
    BY <1>4, <1>1, <1>2, <1>3, SeekGoes DEF SeekCell, SeekPcs, SeekAt, HelpPcs
  <1>5. CASE ~Empty(local[t].cell)
    BY <1>5, <1>1, <1>2, <1>3, SeekGoes DEF SeekCell, SeekPcs, SeekAt, HelpPcs, Empty
  <1>6. QED BY <1>4, <1>5

LEMMA SeekNewStep ==
    ASSUME IInv, Bounded, NEW t \in Thread, SeekNew(t)
    PROVE  IInv'
  <1>1. pc[t] = "seekNew" /\ pc[t] \in SeekPcs BY DEF SeekNew, SeekPcs
  <1>2. /\ SeekAt(t, pc[t], local[t]) /\ local[t] \in Local /\ TypeInv /\ local[t].ph \in Thread
        /\ deq[local[t].ph].id \in Nat /\ popIndex \in Nat /\ popIndex < Cells /\ Cells \in Nat
    BY <1>1, SeekIs
  <1>3. PICK p \in Thread, id \in Int, x \in Int, i \in Int :
            p = local[t].ph /\ id = local[t].did /\ x = local[t].idx /\ i = local[t].i
    BY <1>1, SeekIs
  <1>4. /\ id \in 0 .. deq[p].id /\ i \in id + 1 .. popIndex /\ local[t].cell = i /\ Bound(p, id, x)
    BY <1>1, <1>2, <1>3 DEF SeekAt
  <1>5. i \in Number BY <1>2, <1>3, <1>4 DEF Number
  <1>6. "seekRaise" \in SeekPcs \ {"seekDeq"} BY DEF SeekPcs
  <1>7. CASE cells[i] # Null
    BY <1>4, <1>7, <1>1, <1>2, <1>3, <1>6, SeekGoes DEF SeekNew, Empty, shared, SeekAt, HelpPcs
  <1>8. CASE cells[i] = Null
    <2>1. PICK f \in Local : f = local[t] BY <1>2
    <2>2. NewCell(Null, Null) \in Cell BY DEF NewCell, Cell
    <2>3. /\ pc' = [pc EXCEPT ![t] = "seekRaise"] /\ local' = [local EXCEPT ![t] = f]
          /\ cells' = [cells EXCEPT ![i] = NewCell(Null, Null)]
          /\ UNCHANGED <<putIndex, popIndex, ring, nodes, putNode, popNode, enq, deq, handles, history>>
      BY <1>2, <1>4, <1>8, <2>1 DEF SeekNew, Empty, Keep, Goto, TypeInv
    <2>4. /\ popIndex' \in Nat /\ popIndex <= popIndex' /\ popIndex' = popIndex
          /\ deq' = deq /\ deq' \in [Thread -> [id : Nat, idx : Int]]
          /\ \A u \in Thread : deq'[u].id = deq[u].id
          /\ \A u \in Thread : Turns(u)
          /\ UNCHANGED <<putIndex, ring, nodes, putNode, popNode, enq, handles, history>>
      BY <1>2, <2>3 DEF TypeInv, Turns
    <2>5. /\ cells' \in [Number -> Cell \cup {Null}] /\ AllSigns /\ cells'[i] # Null
          /\ \A d \in Number : d # i => cells'[d] = cells[d]
      BY <1>2, <1>5, <1>8, <2>2, <2>3, Nulls DEF TypeInv, AllSigns, Signs
    <2>6. \A u \in Thread, y \in Number : deq[u].id < y /\ cells[y] # Null /\ Cand(u, y) => Cand(u, y)'
      BY <1>8, <2>4, <2>5 DEF Cand
    <2>7. /\ (pc'[p] = "slowDeqIdx") <=> (pc[p] = "slowDeqIdx")
          /\ Bound(p, id, x)' /\ HelpInv(t)'
          /\ SeekAt(t, "seekRaise", f)' => SeekInv(t)'
      BY <1>6, <1>1, <2>3, <2>4, SeekOthers, <1>4
    <2>8. SeekAt(t, "seekRaise", f)' BY <1>3, <2>1, <2>7, <1>1, <1>2, <2>4, <2>5 DEF SeekAt, HelpPcs
    <2>9. f.then = local[t].then BY <2>1
    <2>10. QED BY <1>1, <1>6, <2>3, <2>4, <2>5, <2>6, <2>7, <2>8, <2>9, SeekStep
  <1>9. QED BY <1>7, <1>8

\* popIndex is raised past the cell.
LEMMA SeekRaiseStep ==
    ASSUME IInv, Bounded, NEW t \in Thread, SeekRaise(t)
    PROVE  IInv'
  <1>1. pc[t] = "seekRaise" /\ pc[t] \in SeekPcs BY DEF SeekRaise, SeekPcs
  <1>2. /\ SeekAt(t, pc[t], local[t]) /\ local[t] \in Local /\ TypeInv /\ local[t].ph \in Thread
        /\ deq[local[t].ph].id \in Nat /\ popIndex \in Nat /\ popIndex < Cells /\ Cells \in Nat
    BY <1>1, SeekIs
  <1>3. PICK p \in Thread, id \in Int, x \in Int, i \in Int :
            p = local[t].ph /\ id = local[t].did /\ x = local[t].idx /\ i = local[t].i
    BY <1>1, SeekIs
  <1>4. /\ id \in 0 .. deq[p].id /\ i \in id + 1 .. popIndex /\ local[t].cell = i /\ Bound(p, id, x)
        /\ cells[i] # Null /\ local[t].back = "seekDeq"
    BY <1>1, <1>2, <1>3 DEF SeekAt
  <1>5. i \in 1 .. Cells - 1 BY <1>2, <1>3, <1>4
  <1>6. PICK f \in Local : f = local[t] BY <1>2
  <1>7. /\ pc' = [pc EXCEPT ![t] = "helpVal"] /\ local' = [local EXCEPT ![t] = f]
        /\ cells' = cells /\ deq' = deq /\ popIndex' = Raise(popIndex, i)
        /\ UNCHANGED <<putIndex, ring, nodes, putNode, popNode, enq, handles, history>>
    BY SMTT(60), <1>2, <1>3, <1>6 DEF SeekRaise, Keep, Goto, TypeInv
  <1>8. /\ popIndex' \in Nat /\ popIndex <= popIndex' /\ i < popIndex'
        /\ deq' \in [Thread -> [id : Nat, idx : Int]] /\ \A u \in Thread : deq'[u].id = deq[u].id
    BY SMTT(60), <1>2, <1>4, <1>5, <1>7 DEF TypeInv, Raise, Later
  <1>9. cells' \in [Number -> Cell \cup {Null}] /\ AllSigns
    BY <1>2, <1>7 DEF TypeInv, AllSigns, Signs
  <1>10. /\ \A u \in Thread : Turns(u)
         /\ \A u \in Thread, y \in Number : deq[u].id < y /\ cells[y] # Null /\ Cand(u, y) => Cand(u, y)'
    BY <1>7 DEF Cand, Turns
  <1>11. f.then = local[t].then /\ f.back = "seekDeq" /\ f.i = i /\ f.cell = i BY <1>3, <1>4, <1>6
  <1>12. "helpVal" \in SeekPcs \cup {"helpVal"} OBVIOUS
  <1>17. pc' = [pc EXCEPT ![t] = "helpVal"] /\ local' = [local EXCEPT ![t] = f] BY <1>7
  <1>18. f.back = "seekDeq" BY <1>11
  <1>19. popIndex' \in Nat /\ popIndex <= popIndex' /\ \A u \in Thread : deq'[u].id = deq[u].id
    BY <1>8
  <1>13. /\ pc'[t] = "helpVal" /\ local'[t] = f
         /\ \A u \in Thread : (pc'[u] = "slowDeqIdx") <=> (pc[u] = "slowDeqIdx")
         /\ \A u \in Thread, d, y \in Int : Bound(u, d, y) => Bound(u, d, y)'
         /\ SeekAt(t, "helpVal", f)' => SeekInv(t)'
    BY ZenonT(120), <1>1, <1>12, <1>17, <1>18, <1>19, SeekOthers
  <1>14. HelpInv(t)' BY <1>4, <1>5, <1>7, <1>11, <1>13 DEF HelpInv, HelpAt
  <1>15. SeekAt(t, "helpVal", f)'
    <2>1. Bound(f.ph, f.did, f.idx)' BY <1>3, <1>4, <1>6, <1>13
    <2>2. "helpVal" \in HelpPcs BY DEF HelpPcs
    <2>3. i \in id + 1 .. popIndex' BY <1>2, <1>4, <1>8
    <2>4. pc'[p] = "slowDeqIdx" <=> pc[p] = "slowDeqIdx" BY <1>13
    <2> HIDE <1>13
    <2>5. QED BY <1>1, <1>2, <1>3, <1>6, <1>7, <1>8, <2>1, <2>2, <2>3, <2>4 DEF SeekAt
  <1>16. QED BY <1>1, <1>7, <1>8, <1>9, <1>10, <1>11, <1>13, <1>14, <1>15, SeekStep

\* An empty queue answers the request; an item nobody else has is a candidate.
LEMMA SeekDeqStep ==
    ASSUME IInv, Bounded, NEW t \in Thread, SeekDeq(t)
    PROVE  IInv'
  <1>1. pc[t] = "seekDeq" /\ pc[t] \in SeekPcs BY DEF SeekDeq, SeekPcs
  <1>2. /\ SeekAt(t, pc[t], local[t]) /\ local[t] \in Local /\ TypeInv
        /\ popIndex \in Nat /\ popIndex < Cells /\ Cells \in Nat
        /\ local[t].then = "slowDone" => local[t].ph = t
        /\ ValAt(pc[t], local[t])
    BY <1>1, SeekIs DEF IInv, Own, ValInv
  <1>3. PICK p \in Thread, id \in Int, x \in Int, i \in Int :
            p = local[t].ph /\ id = local[t].did /\ x = local[t].idx /\ i = local[t].i
    BY <1>1, SeekIs
  <1>4. /\ id \in 0 .. deq[p].id /\ i \in id + 1 .. popIndex /\ local[t].cell = i /\ Bound(p, id, x)
        /\ cells[i] # Null /\ i < popIndex /\ local[t].dp = Segment(i) /\ x >= 0
    BY <1>1, <1>2, <1>3 DEF SeekAt
  <1>5. i \in Number /\ i > 0 /\ deq[p].id \in Nat /\ deq[p].idx \in Int
    BY <1>2, <1>3, <1>4, RequestIs DEF Number
  <1>6. CASE local[t].val = Bot /\ deq[p].idx = x
    <2>1. cells[i].val = Top /\ cells[i].enq = Top BY <1>1, <1>2, <1>3, <1>6 DEF ValAt
    <2>2. deq[p].id = id BY <1>4, <1>6, PendingIs
    <2> DEFINE r == [deq[p] EXCEPT !.idx = -i]
    <2>3. r \in [id : Nat, idx : Int] /\ r.id = deq[p].id /\ r.idx = -i /\ -i < 0
      <3>1. deq[p] \in [id : Nat, idx : Int] /\ -i \in Int /\ -i < 0 BY <1>2, <1>5 DEF TypeInv
      <3>2. QED BY <3>1
    <2>4. deq' = [deq EXCEPT ![p] = r] BY <1>3, <1>6 DEF SeekDeq
    <2> HIDE DEF r
    <2>5. deq'[p] = r /\ (\A u \in Thread \ {p} : deq'[u] = deq[u])
          /\ deq' \in [Thread -> [id : Nat, idx : Int]]
      BY <1>2, <2>3, <2>4 DEF TypeInv
    <2>6. deq'[p].idx = -i /\ deq'[p].id = id /\ deq'[p].idx < 0 BY <2>2, <2>3, <2>5
    <2>7. deq' # deq BY <1>4, <1>6, <2>6
    <2>8. Leave(t)
         /\ UNCHANGED <<putIndex, popIndex, cells, ring, nodes, putNode, popNode, enq, handles, history>>
      BY <2>7 DEF SeekDeq
    <2>9. ASSUME NEW u \in Thread PROVE Turns(u)
      <3>1. CASE u = p
        <4>1. -deq'[p].idx = i BY <1>5, <2>6
        <4>2. id < i BY <1>2, <1>3, <1>4
        <4>3. Answered(p)' BY <1>4, <2>1, <2>6, <2>8, <4>1, <4>2 DEF Answered
        <4>4. QED BY <1>4, <1>6, <2>2, <2>6, <3>1, <4>3 DEF Turns
      <3>2. CASE u # p BY <2>5, <3>2 DEF Turns
      <3>3. QED BY <3>1, <3>2
    <2>10. \A u \in Thread, y \in Number : Cand(u, y) => Cand(u, y)' BY <2>5, <2>6, <2>8 DEF Cand
    <2>11. local[t].then = "slowDone" => deq'[t].idx < 0 BY <1>2, <1>3, <2>6
    <2>12. QED BY <1>1, <2>5, <2>8, <2>9, <2>10, <2>11, SeekLeaves
  <1>7. CASE ~(local[t].val = Bot /\ deq[p].idx = x)
    <2>1. deq' = deq /\ UNCHANGED <<shared, handles, history>> BY <1>3, <1>7 DEF SeekDeq, shared
    <2>2. CASE local[t].val \notin {Top, Bot} /\ cells[local[t].cell].deq \in {Null, local[t].ph}
      <3> DEFINE f == [local[t] EXCEPT !.new = i]
      <3>1. f \in Local /\ f.new = i /\ f.i = i /\ f.ph = p /\ f.did = id /\ f.then = local[t].then
            /\ f.dp = local[t].dp
        <4>1. f \in Local BY <1>2, Notes
        <4>2. QED BY <1>2, <1>3, <4>1 DEF Local
      <3>2. local' = [local EXCEPT ![t] = f] /\ pc' = [pc EXCEPT ![t] = "offerIdx"]
        BY <1>3, <2>1, <2>2 DEF SeekDeq, Goto
      <3> HIDE DEF f
      <3>3. i \in id + 1 .. popIndex - 1 BY <1>2, <1>3, <1>4
      <3>4. Segment(i) <= Segment(i) BY <1>2, <1>4 DEF Local
      <3>5. SeekAt(t, "offerIdx", f) BY <1>1, <1>2, <1>3, <1>4, <3>1, <3>3, <3>4 DEF SeekAt, HelpPcs
      <3>6. "offerIdx" \in SeekPcs \ {"seekDeq"} BY DEF SeekPcs
      <3>7. QED BY <1>1, <2>1, <3>1, <3>2, <3>5, <3>6, SeekLooks
    <2>3. CASE ~(local[t].val \notin {Top, Bot} /\ cells[local[t].cell].deq \in {Null, local[t].ph})
      BY <2>1, <2>3, <1>1, <1>2, SeekGoes DEF SeekDeq, SeekPcs, SeekAt, HelpPcs
    <2>4. QED BY <2>2, <2>3
  <1>8. QED BY <1>6, <1>7

LEMMA SeekAgainStep ==
    ASSUME IInv, Bounded, NEW t \in Thread, SeekAgain(t)
    PROVE  IInv'
  <1>1. pc[t] = "seekAgain" /\ pc[t] \in SeekPcs /\ pc[t] \in SeekPcs \ {"askIdx", "askId"}
    BY DEF SeekAgain, SeekAgainAt, SeekPcs
  <1>2. /\ SeekAt(t, pc[t], local[t]) /\ popIndex \in Nat /\ local[t].dp \in Nat
        /\ deq[local[t].ph].id \in Nat
    BY <1>1, SeekIs
  <1>3. PICK p \in Thread, id \in Int, x \in Int, i \in Int, idx \in Int :
            p = local[t].ph /\ id = local[t].did /\ x = local[t].old /\ i = local[t].i /\ idx = deq[p].idx
    BY <1>1, SeekIs
  <1>4. /\ id \in 0 .. deq[p].id /\ i \in id + 1 .. popIndex /\ i < popIndex
        /\ local[t].dp = Segment(i) /\ x >= 0 /\ Bound(p, id, x)
        /\ deq[p].id = id => x >= id
        /\ deq[p].id = id /\ x > id => deq[p].idx # id
    BY <1>1, <1>2, <1>3 DEF SeekAt
  <1>5. i + 1 \in Int /\ i + 1 \in id + 1 .. popIndex /\ i \in Nat BY <1>2, <1>3, <1>4
  <1>6. local[t].dp <= Segment(i + 1) BY <1>4, <1>5, Segments
  <1>7. Round(t, idx, x, i + 1) /\ UNCHANGED <<shared, handles, history>>
    BY <1>3 DEF SeekAgain, SeekAgainAt
  <1>8. idx = x => /\ x >= 0 /\ Bound(p, id, x) /\ local[t].dp <= Segment(i + 1)
                   /\ deq[p].id = id => x >= id
                   /\ deq[p].id = id /\ x > id => deq[p].idx # id
    BY <1>4, <1>6
  <1>9. idx # x => /\ idx = deq[p].idx
                   /\ deq[p].id = id /\ idx >= 0 => idx # id /\ local[t].dp <= Segment(i + 1)
    BY <1>3, <1>4, <1>6
  <1>10. QED BY <1>1, <1>3, <1>5, <1>7, <1>8, <1>9, RoundStep

LEMMA OfferIdxStep ==
    ASSUME IInv, Bounded, NEW t \in Thread, OfferIdx(t)
    PROVE  IInv'
  <1> DEFINE p == local[t].ph
             x == deq[p].idx
  <1>1. pc[t] = "offerIdx" /\ pc[t] \in SeekPcs BY DEF OfferIdx, SeekPcs
  <1>2. /\ SeekAt(t, pc[t], local[t]) /\ local[t] \in Local /\ x \in Int /\ deq[p].id \in Nat
        /\ p \in Thread /\ local[t].then \in {"slowDone", "dequeued"} /\ (local[t].then = "slowDone" => p = t)
    BY <1>1, SeekIs
  <1>3. CASE x < 0 BY <1>3, <1>2, <1>1, LooksLeave DEF OfferIdx
  <1>4. CASE ~(x < 0)
    <2> DEFINE f == [local[t] EXCEPT !.idx = x]
    <2>1. f \in Local /\ f.idx = x /\ f.ph = p /\ f.then = local[t].then /\ f.did = local[t].did
          /\ f.new = local[t].new /\ f.i = local[t].i /\ f.dp = local[t].dp
      <3>1. f \in Local BY <1>2, Notes
      <3>2. QED BY <1>2, <3>1 DEF Local
    <2>2. local' = [local EXCEPT ![t] = f] /\ pc' = [pc EXCEPT ![t] = "offerId"]
          /\ UNCHANGED <<shared, handles, history>>
      BY <1>4 DEF OfferIdx, Goto
    <2> HIDE DEF f
    <2>3. /\ x >= 0 /\ x >= deq[p].id /\ x < popIndex /\ ~Drawn(p)
          /\ x > deq[p].id => cells[x] # Null
      BY <1>2, <1>4, PendingIs
    <2>4. Cand(p, x) BY DEF Cand
    <2>5. SeekAt(t, "offerId", f)
      BY SMTT(60), <1>1, <1>2, <2>1, <2>3, <2>4 DEF SeekAt, HelpPcs, Bound
    <2>6. "offerId" \in SeekPcs \ {"seekDeq"} BY DEF SeekPcs
    <2>7. QED BY <1>1, <2>1, <2>2, <2>5, <2>6, SeekLooks
  <1>5. QED BY <1>3, <1>4

\* The cell to sign.
LEMMA TakeIs ==
    ASSUME NEW t \in Thread, local \in [Thread -> Local], NEW x \in Nat, local[t].dp <= Segment(x),
           Take(t, x)
    PROVE  \E f \in Local : /\ local' = [local EXCEPT ![t] = f] /\ pc' = [pc EXCEPT ![t] = "take"]
                            /\ f.idx = x /\ f.dp = Segment(x) /\ f.cell = x /\ f.i = local[t].i
                            /\ f.ph = local[t].ph /\ f.did = local[t].did /\ f.then = local[t].then
  <1>1. local[t] \in Local /\ local[t].dp \in Nat BY DEF Local
  <1>2. FindCell(local[t].dp, x) = Segment(x) /\ At(Segment(x), x) = x /\ Segment(x) \in Nat
    BY <1>1, Segments
  <1>3. PICK n \in Nat, z \in Int : n = Segment(x) /\ z = 0 BY <1>2
  <1> DEFINE f == [local[t] EXCEPT !.idx = x, !.dp = n, !.cell = x, !.new = z]
  <1>4. x \in Int OBVIOUS
  <1>5. f \in Local BY <1>1, <1>4, Notes
  <1>6. /\ f.idx = x /\ f.dp = n /\ f.cell = x /\ f.i = local[t].i
        /\ f.ph = local[t].ph /\ f.did = local[t].did /\ f.then = local[t].then
    BY <1>1 DEF Local
  <1>7. local' = [local EXCEPT ![t] = f] /\ pc' = [pc EXCEPT ![t] = "take"]
    BY <1>2, <1>3 DEF Take, Goto
  <1> HIDE DEF f
  <1>8. QED BY <1>3, <1>5, <1>6, <1>7

\* On to sign the cell, with nothing else changed.
LEMMA TakeStep ==
    ASSUME IInv, Bounded, NEW t \in Thread, pc[t] \in SeekPcs \ {"askIdx", "askId"},
           NEW p \in Thread, NEW id \in Int, p = local[t].ph, id = local[t].did,
           NEW x \in Int, Take(t, x), UNCHANGED <<shared, handles, history>>,
           local[t].dp <= Segment(x), x > id, Bound(p, id, x), cells[x] # Null,
           deq[p].id = id => Cand(p, x) /\ deq[p].idx # id
    PROVE  IInv'
  <1>1. pc[t] \in SeekPcs OBVIOUS
  <1>2. /\ SeekAt(t, pc[t], local[t]) /\ TypeInv
        /\ local[t].then \in {"slowDone", "dequeued"} /\ (local[t].then = "slowDone" => p = t)
        /\ deq[p].id \in Nat
    BY <1>1, SeekIs
  <1>3. /\ id \in 0 .. deq[p].id
        /\ local[t].then = "slowDone" => id = deq[t].id
        /\ id = deq[p].id => pc[p] # "slowDeqIdx"
    BY <1>2 DEF SeekAt
  <1>4. x \in Nat BY <1>2, <1>3
  <1>5. local \in [Thread -> Local] BY <1>2 DEF TypeInv
  <1>6. PICK f \in Local : /\ local' = [local EXCEPT ![t] = f] /\ pc' = [pc EXCEPT ![t] = "take"]
                           /\ f.idx = x /\ f.dp = Segment(x) /\ f.cell = x /\ f.i = local[t].i
                           /\ f.ph = local[t].ph /\ f.did = local[t].did /\ f.then = local[t].then
    BY <1>4, <1>5, TakeIs
  <1>7. SeekAt(t, "take", f) BY <1>2, <1>3, <1>6 DEF SeekAt, HelpPcs
  <1>8. "take" \in SeekPcs \ {"seekDeq"} BY DEF SeekPcs
  <1>9. local' = [local EXCEPT ![t] = f] /\ pc' = [pc EXCEPT ![t] = "take"] /\ f.then = local[t].then
    BY <1>6
  <1> HIDE <1>6
  <1>10. QED BY <1>1, <1>7, <1>8, <1>9, SeekLooks

LEMMA OfferIdStep ==
    ASSUME IInv, Bounded, NEW t \in Thread, OfferId(t)
    PROVE  IInv'
  <1>1. pc[t] = "offerId" /\ pc[t] \in SeekPcs /\ pc[t] \in SeekPcs \ {"askIdx", "askId"}
    BY DEF OfferId, SeekPcs
  <1>2. /\ SeekAt(t, pc[t], local[t]) /\ popIndex \in Nat /\ local[t].dp \in Nat
        /\ deq[local[t].ph].id \in Nat /\ local[t].then \in {"slowDone", "dequeued"}
        /\ local[t].then = "slowDone" => local[t].ph = t
    BY <1>1, SeekIs
  <1>3. PICK p \in Thread, id \in Int, x \in Int, i \in Int :
            p = local[t].ph /\ id = local[t].did /\ x = local[t].idx /\ i = local[t].i
    BY <1>1, SeekIs
  <1>4. /\ id \in 0 .. deq[p].id /\ i \in id + 1 .. popIndex - 1 /\ local[t].new = i
        /\ local[t].dp <= Segment(i) /\ x >= 0
        /\ local[t].then = "slowDone" => id = deq[t].id
        /\ deq[p].id = id => /\ Bound(p, id, x)
                             /\ x > id => cells[x] # Null /\ Cand(p, x) /\ deq[p].idx # id
    BY <1>1, <1>2, <1>3 DEF SeekAt
  <1>5. UNCHANGED <<shared, handles, history>> BY DEF OfferId
  <1>6. CASE deq[p].id # id BY <1>3, <1>6, <1>2, <1>4, <1>1, <1>5, LooksLeave DEF OfferId
  <1>7. CASE deq[p].id = id /\ x >= i
    <2>1. Take(t, x) BY <1>3, <1>4, <1>7 DEF OfferId
    <2>2. x > id /\ x \in Nat /\ i \in Nat BY <1>2, <1>3, <1>4, <1>7
    <2>3. Segment(i) <= Segment(x) /\ Segment(i) \in Nat /\ Segment(x) \in Nat
      BY <1>7, <2>2, Segments
    <2>4. local[t].dp <= Segment(x) BY <1>2, <1>4, <2>3
    <2>5. QED BY <1>1, <1>3, <1>4, <1>5, <1>7, <2>1, <2>2, <2>4, TakeStep
  <1>8. CASE deq[p].id = id /\ ~(x >= i)
    BY <1>3, <1>4, <1>8, <1>1, <1>2, <1>5, SeekGoes DEF OfferId, SeekPcs, SeekAt, HelpPcs
  <1>9. QED BY <1>6, <1>7, <1>8

\* The candidate is noted: the one before, if any, belongs to another.
LEMMA OfferCasStep ==
    ASSUME IInv, Bounded, OffersFit, NEW t \in Thread, OfferCas(t)
    PROVE  IInv'
  <1>1. pc[t] = "offerCas" /\ pc[t] \in SeekPcs BY DEF OfferCas, SeekPcs
  <1>2. /\ SeekAt(t, pc[t], local[t]) /\ local[t] \in Local /\ TypeInv
        /\ popIndex \in Nat /\ popIndex < Cells /\ Cells \in Nat
        /\ local[t].then \in {"slowDone", "dequeued"} /\ (local[t].then = "slowDone" => local[t].ph = t)
    BY <1>1, SeekIs
  <1>3. PICK p \in Thread, id \in Int, x \in Int, i \in Int :
            p = local[t].ph /\ id = local[t].did /\ x = local[t].idx /\ i = local[t].i
    BY <1>1, SeekIs
  <1>4. /\ id \in 0 .. deq[p].id /\ i \in id + 1 .. popIndex - 1 /\ local[t].new = i
        /\ local[t].dp <= Segment(i) /\ cells[i] # Null /\ x >= 0 /\ x < i /\ Bound(p, id, x)
        /\ local[t].then = "slowDone" => id = deq[t].id
        /\ id = deq[p].id => pc[p] # "slowDeqIdx"
    BY <1>1, <1>2, <1>3 DEF SeekAt
  <1>5. deq[p].id \in Nat /\ deq[p].idx \in Int /\ i \in Nat /\ i > id /\ i < popIndex /\ i \in Number
    BY <1>2, <1>3, <1>4, RequestIs DEF Number
  <1>6. CASE deq[p].idx # x
    BY <1>3, <1>6, <1>1, <1>2, SeekGoes DEF OfferCas, SeekPcs, shared, SeekAt, HelpPcs
  <1>7. CASE deq[p].idx = x
    <2>1. deq[p].id = id /\ ~Drawn(p) BY <1>4, <1>7, PendingIs
    <2> DEFINE r == [deq[p] EXCEPT !.idx = i]
    <2>2. r \in [id : Nat, idx : Int] /\ r.id = deq[p].id /\ r.idx = i
      <3>1. deq[p] \in [id : Nat, idx : Int] /\ i \in Int BY <1>2, <1>3 DEF TypeInv
      <3>2. QED BY <3>1
    <2>3. /\ deq' = [deq EXCEPT ![p] = r] /\ Take(t, i)
          /\ UNCHANGED <<putIndex, popIndex, cells, ring, nodes, putNode, popNode, enq, handles, history>>
      BY <1>3, <1>4, <1>7 DEF OfferCas
    <2> HIDE DEF r
    <2>4. deq'[p] = r /\ (\A u \in Thread \ {p} : deq'[u] = deq[u])
          /\ deq' \in [Thread -> [id : Nat, idx : Int]]
      BY <1>2, <2>2, <2>3 DEF TypeInv
    <2>5. deq'[p].idx = i /\ deq'[p].id = id /\ \A u \in Thread : deq'[u].id = deq[u].id
      BY <2>1, <2>2, <2>4
    <2>6. local \in [Thread -> Local] BY <1>2 DEF TypeInv
    <2>7. PICK f \in Local : /\ local' = [local EXCEPT ![t] = f] /\ pc' = [pc EXCEPT ![t] = "take"]
                             /\ f.idx = i /\ f.dp = Segment(i) /\ f.cell = i /\ f.i = local[t].i
                             /\ f.ph = local[t].ph /\ f.did = local[t].did /\ f.then = local[t].then
      BY <1>4, <1>5, <2>3, <2>6, TakeIs
    <2>8. ASSUME NEW u \in Thread PROVE Turns(u)
      <3>1. CASE u = p
        <4>1. Pending(p)' BY <1>2, <1>4, <1>5, <2>3, <2>5 DEF Pending
        <4>2. QED BY <1>4, <1>5, <1>7, <2>1, <2>5, <3>1, <4>1 DEF Turns
      <3>2. CASE u # p BY <2>4, <3>2 DEF Turns
      <3>3. QED BY <3>1, <3>2
    <2>9. ASSUME NEW u \in Thread, NEW y \in Number, deq[u].id < y, cells[y] # Null, Cand(u, y)
          PROVE  Cand(u, y)'
      <3>1. CASE u # p BY <2>3, <2>4, <2>9, <3>1 DEF Cand
      <3>2. CASE u = p /\ deq[p].idx = y
        <4>1. x = id \/ cells[x].deq \notin {Null, p} BY <1>1, <1>3, <1>7 DEF OffersFit
        <4>2. y = x /\ id < y /\ x \in Int BY <1>7, <2>1, <2>9, <3>2
        <4>3. cells[y].deq \notin {Null, p} BY <4>1, <4>2
        <4>4. QED BY <2>3, <3>2, <4>3 DEF Cand
      <3>3. CASE u = p /\ deq[p].idx # y BY <1>4, <1>5, <1>7, <2>3, <2>9, <3>3 DEF Cand
      <3>4. QED BY <3>1, <3>2, <3>3
    <2>10. /\ pc' = [pc EXCEPT ![t] = "take"] /\ local' = [local EXCEPT ![t] = f]
           /\ UNCHANGED <<putIndex, ring, nodes, putNode, popNode, enq, handles, history>>
           /\ f.then = local[t].then
      BY <2>3, <2>7
    <2>11. "take" \in SeekPcs \ {"seekDeq"} /\ "take" \in SeekPcs BY DEF SeekPcs
    <2>12. /\ popIndex' \in Nat /\ popIndex <= popIndex' /\ popIndex' = popIndex
           /\ cells' \in [Number -> Cell \cup {Null}] /\ AllSigns /\ cells' = cells
      BY <2>3, <1>2, SameSigns DEF TypeInv
    <2>13. /\ (pc'[p] = "slowDeqIdx") <=> (pc[p] = "slowDeqIdx")
           /\ Drawn(p)' <=> Drawn(p)
           /\ HelpInv(t)'
           /\ SeekAt(t, "take", f)' => SeekInv(t)'
      BY <1>1, <2>5, <2>10, <2>11, <2>12, SeekOthers
    <2>14. Bound(p, id, i)' BY <1>5, <2>1, <2>5, <2>12, <2>13 DEF Bound
    <2>15. Cand(p, i)' BY <2>5 DEF Cand
    <2>16. SeekAt(t, "take", f)'
      <3>1. Bound(f.ph, f.did, f.idx)' /\ Cand(f.ph, f.idx)' BY <1>3, <2>7, <2>14, <2>15
      <3>2. f.ph = p /\ f.did = id /\ f.idx = i /\ f.dp = Segment(i) /\ f.cell = i /\ f.then = local[t].then
        BY <1>3, <2>7
      <3>3. /\ f.then = "slowDone" => p = t /\ id = deq'[t].id
            /\ id \in 0 .. deq'[p].id /\ id = deq'[p].id => pc'[p] # "slowDeqIdx"
        BY <1>2, <1>3, <1>4, <2>1, <2>5, <2>13, <3>2
      <3>4. f.then \in {"slowDone", "dequeued"} /\ cells'[i] # Null /\ i > id /\ deq'[p].idx # id
        BY <1>2, <1>3, <1>4, <1>5, <2>5, <2>12, <3>2
      <3>5. id \in 0 .. deq'[p].id BY <1>4, <2>5
      <3> HIDE <2>7
      <3>6. QED BY <3>1, <3>2, <3>3, <3>4, <3>5 DEF SeekAt, HelpPcs
    <2> HIDE <2>3, <2>7
    <2>17. QED BY <1>1, <2>4, <2>8, <2>9, <2>10, <2>11, <2>12, <2>13, <2>16, SeekStep
  <1>8. QED BY <1>6, <1>7

\* Another helper has changed the request.
LEMMA MovedStep ==
    ASSUME IInv, Bounded, NEW t \in Thread, Moved(t)
    PROVE  IInv'
  <1>1. pc[t] = "moved" /\ pc[t] \in SeekPcs /\ pc[t] \in SeekPcs \ {"askIdx", "askId"}
    BY DEF Moved, SeekPcs
  <1>2. /\ SeekAt(t, pc[t], local[t]) /\ popIndex \in Nat /\ local[t].dp \in Nat
        /\ deq[local[t].ph].id \in Nat /\ local[t].then \in {"slowDone", "dequeued"}
        /\ local[t].then = "slowDone" => local[t].ph = t
    BY <1>1, SeekIs
  <1>3. PICK p \in Thread, id \in Int, x \in Int, i \in Int :
            p = local[t].ph /\ id = local[t].did /\ x = local[t].idx /\ i = local[t].i
    BY <1>1, SeekIs
  <1>4. /\ id \in 0 .. deq[p].id /\ i \in id + 1 .. popIndex
        /\ local[t].then = "slowDone" => id = deq[t].id
        /\ local[t].then = "slowDone" /\ x < 0 => deq[t].idx < 0
        /\ deq[p].id = id /\ x >= 0 => /\ Bound(p, id, x) /\ x > id /\ local[t].dp <= Segment(i)
                                       /\ cells[x] # Null /\ Cand(p, x) /\ deq[p].idx # id
    BY <1>1, <1>2, <1>3 DEF SeekAt
  <1>5. UNCHANGED <<shared, handles, history>> BY DEF Moved
  <1>6. CASE x < 0 \/ deq[p].id # id BY <1>3, <1>6, <1>2, <1>4, <1>1, <1>5, LooksLeave DEF Moved
  <1>7. CASE ~(x < 0 \/ deq[p].id # id) /\ x < i
    BY <1>3, <1>7, <1>2, <1>4, <1>1, <1>5, RoundStep DEF Moved
  <1>8. CASE ~(x < 0 \/ deq[p].id # id) /\ ~(x < i)
    <2>1. Take(t, x) BY <1>3, <1>8 DEF Moved
    <2>2. x >= 0 /\ deq[p].id = id /\ x \in Nat /\ i \in Nat /\ i <= x BY <1>2, <1>3, <1>4, <1>8
    <2>3. Segment(i) <= Segment(x) /\ Segment(i) \in Nat /\ Segment(x) \in Nat BY <2>2, Segments
    <2>4. local[t].dp <= Segment(x) BY <1>2, <1>4, <2>2, <2>3
    <2>5. QED BY <1>1, <1>3, <1>4, <1>5, <2>1, <2>2, <2>4, TakeStep
  <1>9. QED BY <1>6, <1>7, <1>8

\* The cell is signed for the request, or belongs to another.
LEMMA TakeCellStep ==
    ASSUME IInv, Bounded, NEW t \in Thread, TakeCell(t)
    PROVE  IInv'
  <1>1. pc[t] = "take" /\ pc[t] \in SeekPcs /\ pc[t] \in SeekPcs \ {"askIdx", "askId"}
    BY DEF TakeCell, SeekPcs
  <1>2. /\ SeekAt(t, pc[t], local[t]) /\ local[t] \in Local /\ TypeInv
        /\ popIndex \in Nat /\ popIndex < Cells /\ Cells \in Nat /\ local[t].dp \in Nat
        /\ local[t].then \in {"slowDone", "dequeued"} /\ (local[t].then = "slowDone" => local[t].ph = t)
    BY <1>1, SeekIs
  <1>3. PICK p \in Thread, id \in Int, x \in Int :
            p = local[t].ph /\ id = local[t].did /\ x = local[t].idx
    BY <1>1, SeekIs
  <1>4. /\ id \in 0 .. deq[p].id /\ x > id /\ Bound(p, id, x) /\ cells[x] # Null
        /\ local[t].cell = x /\ local[t].dp = Segment(x)
        /\ deq[p].id = id => Cand(p, x) /\ deq[p].idx # id
        /\ local[t].then = "slowDone" => id = deq[t].id
        /\ id = deq[p].id => pc[p] # "slowDeqIdx"
    BY <1>1, <1>2, <1>3 DEF SeekAt
  <1>5. x \in Number /\ x \in Nat /\ x < popIndex /\ deq[p].id \in Nat
    BY <1>2, <1>3, <1>4, RequestIs DEF Number, Bound
  <1>6. "finish" \in SeekPcs \ {"seekDeq"} /\ "finish" \in SeekPcs BY DEF SeekPcs
  <1>7. cells[x] \in Cell BY <1>2, <1>4, <1>5, CellIs
  <1>8. CASE cells[x].deq = p
    <2>1. cells' = cells /\ Keep(t, "finish") BY <1>3, <1>4, <1>8, Nulls DEF TakeCell, Empty, Cas
    <2>2. UNCHANGED <<shared, handles, history>> BY <2>1 DEF TakeCell, shared
    <2>3. SeekAt(t, "finish", local[t]) BY <1>1, <1>2, <1>3, <1>8 DEF SeekAt, HelpPcs
    <2>4. QED BY <1>1, <1>6, <2>1, <2>2, <2>3, SeekGoes
  <1>9. CASE cells[x].deq # p /\ cells[x].deq # Null
    <2>1. cells' = cells /\ Round(t, x, x, x + 1) BY <1>3, <1>4, <1>9 DEF TakeCell, Empty, Cas
    <2>2. UNCHANGED <<shared, handles, history>> BY <2>1 DEF TakeCell, shared
    <2>3. x + 1 \in Int /\ x + 1 \in id + 1 .. popIndex /\ x >= 0 /\ x >= id
      BY <1>2, <1>3, <1>4, <1>5
    <2>4. local[t].dp <= Segment(x + 1) BY <1>4, <1>5, Segments
    <2>5. x = x => /\ x >= 0 /\ Bound(p, id, x) /\ local[t].dp <= Segment(x + 1)
                   /\ deq[p].id = id => x >= id
                   /\ deq[p].id = id /\ x > id => deq[p].idx # id
      BY <1>4, <2>3, <2>4
    <2>6. QED BY <1>1, <1>3, <2>1, <2>2, <2>3, <2>5, RoundStep
  <1>10. CASE cells[x].deq = Null
    <2>1. PICK f \in Local : f = local[t] BY <1>2
    <2> DEFINE r == [cells[x] EXCEPT !.deq = p]
    <2>2. r \in Cell /\ r.val = cells[x].val /\ r.enq = cells[x].enq /\ r.deq = p BY <1>7 DEF Cell
    <2>3. cells' = [cells EXCEPT ![x] = r] BY <1>3, <1>4, <1>10 DEF TakeCell, Empty, Cas
    <2> HIDE DEF r
    <2>4. /\ cells' \in [Number -> Cell \cup {Null}] /\ cells'[x] = r /\ cells'[x] # Null
          /\ \A d \in Number : d # x => cells'[d] = cells[d]
      BY <1>2, <1>5, <2>2, <2>3, Nulls DEF TypeInv
    <2>5. AllSigns BY <1>4, <1>10, <2>2, <2>4 DEF Signs, AllSigns
    <2>6. /\ pc' = [pc EXCEPT ![t] = "finish"] /\ local' = [local EXCEPT ![t] = f]
          /\ UNCHANGED <<putIndex, popIndex, ring, nodes, putNode, popNode, enq, deq, handles, history>>
      BY <1>3, <1>4, <2>2, <2>4, <1>2, <2>1 DEF Empty, TakeCell, Keep, Goto, TypeInv
    <2>7. /\ popIndex' \in Nat /\ popIndex <= popIndex' /\ popIndex' = popIndex
          /\ deq' = deq /\ deq' \in [Thread -> [id : Nat, idx : Int]]
          /\ \A u \in Thread : deq'[u].id = deq[u].id
          /\ \A u \in Thread : Turns(u)
      BY <1>2, <2>6 DEF TypeInv, Turns
    <2>8. \A u \in Thread, y \in Number : Cand(u, y) => Cand(u, y)'
      <3>1. ASSUME NEW u \in Thread, NEW y \in Number, Cand(u, y) PROVE Cand(u, y)'
        BY <1>10, <3>1, <2>7, <2>4 DEF Cand
      <3>2. QED BY <3>1
    <2>9. /\ pc' = [pc EXCEPT ![t] = "finish"] /\ local' = [local EXCEPT ![t] = f]
          /\ UNCHANGED <<putIndex, ring, nodes, putNode, popNode, enq, handles, history>>
      BY <2>6
    <2> HIDE <2>3, <2>6
    <2>10. /\ (pc'[p] = "slowDeqIdx") <=> (pc[p] = "slowDeqIdx")
           /\ \A u \in Thread, d, y \in Int : Bound(u, d, y) => Bound(u, d, y)'
           /\ HelpInv(t)'
           /\ SeekAt(t, "finish", f)' => SeekInv(t)'
      BY <2>7, <1>6, <1>1, <2>9, SeekOthers
    <2>11. SeekAt(t, "finish", f)'
      <3>1. Bound(p, id, x)' BY <1>4, <2>10
      <3>2. deq[p].id = id => Cand(p, x)' BY <1>4, <1>5, <2>8
      <3>3. Bound(f.ph, f.did, f.idx)' /\ (deq[p].id = id => Cand(f.ph, f.idx)')
        BY <1>3, <2>1, <3>1, <3>2
      <3>4. cells'[x].deq = p BY <2>2, <2>4
      <3>5. (pc'[p] = "slowDeqIdx") <=> (pc[p] = "slowDeqIdx") BY <2>10
      <3>6. deq' = deq BY <2>7
      <3>7. QED BY <1>2, <1>3, <1>4, <2>1, <2>4, <3>3, <3>4, <3>5, <3>6 DEF SeekAt, HelpPcs
    <2>12. f.then = local[t].then BY <2>1
    <2>13. HelpInv(t)' /\ SeekInv(t)' BY <2>10, <2>11
    <2>14. QED BY <1>1, <1>6, <2>4, <2>5, <2>7, <2>8, <2>9, <2>12, <2>13, SeekStep
  <1>11. QED BY <1>8, <1>9, <1>10

\* The request is answered with the cell that was signed for it.
LEMMA FinishStep ==
    ASSUME IInv, Bounded, NEW t \in Thread, Finish(t)
    PROVE  IInv'
  <1>1. pc[t] = "finish" /\ pc[t] \in SeekPcs BY DEF Finish, SeekPcs
  <1>2. /\ SeekAt(t, pc[t], local[t]) /\ TypeInv /\ popIndex \in Nat
        /\ local[t].then \in {"slowDone", "dequeued"} /\ (local[t].then = "slowDone" => local[t].ph = t)
    BY <1>1, SeekIs
  <1>3. PICK p \in Thread, id \in Int, x \in Int :
            p = local[t].ph /\ id = local[t].did /\ x = local[t].idx
    BY <1>1, SeekIs
  <1>4. /\ id \in 0 .. deq[p].id /\ x > id /\ Bound(p, id, x) /\ cells[x] # Null /\ cells[x].deq = p
        /\ deq[p].id = id => Cand(p, x) /\ deq[p].idx # id
        /\ local[t].then = "slowDone" => id = deq[t].id
    BY <1>1, <1>2, <1>3 DEF SeekAt
  <1>5. deq[p].id \in Nat /\ deq[p].idx \in Int /\ x > 0 /\ x < popIndex
    BY <1>2, <1>3, <1>4, RequestIs DEF Bound
  <1>6. /\ Leave(t)
        /\ UNCHANGED <<putIndex, popIndex, cells, ring, nodes, putNode, popNode, enq, handles, history>>
    BY DEF Finish
  <1>7. CASE deq[p].idx # x
    BY <1>2, <1>3, <1>7, <1>6, <1>4, <1>1, LooksLeave DEF Finish, TypeInv, shared, Cand
  <1>8. CASE deq[p].idx = x
    <2>1. deq[p].id = id
      <3>1. deq[p].idx >= 0 BY <1>3, <1>5, <1>8
      <3>2. QED BY <1>4, <1>8, <3>1, PendingIs
    <2> DEFINE r == [deq[p] EXCEPT !.idx = -x]
    <2>2. r \in [id : Nat, idx : Int] /\ r.id = deq[p].id /\ r.idx = -x
      <3>1. deq[p] \in [id : Nat, idx : Int] /\ -x \in Int BY SMTT(60), <1>2, <1>3 DEF TypeInv
      <3>2. QED BY <3>1
    <2>3. deq' = [deq EXCEPT ![p] = r] BY <1>3, <1>8 DEF Finish
    <2> HIDE DEF r
    <2>4. deq'[p] = r /\ (\A u \in Thread \ {p} : deq'[u] = deq[u])
          /\ deq' \in [Thread -> [id : Nat, idx : Int]]
      BY <1>2, <2>2, <2>3 DEF TypeInv
    <2>5. deq'[p].idx = -x /\ deq'[p].id = id /\ deq'[p].idx < 0 /\ -deq'[p].idx = x
      BY <1>3, <1>5, <2>1, <2>2, <2>4
    <2>6. ASSUME NEW u \in Thread PROVE Turns(u)
      BY <1>4, <1>5, <1>6, <2>5, <1>8, <2>1, <2>4 DEF Answered, Turns
    <2>7. \A u \in Thread, y \in Number : Cand(u, y) => Cand(u, y)' BY <1>6, <2>4, <2>5 DEF Cand
    <2>8. local[t].then = "slowDone" => deq'[t].idx < 0 BY <1>2, <1>3, <2>5
    <2>9. QED BY <1>1, <1>6, <2>4, <2>6, <2>7, <2>8, SeekLeaves
  <1>9. QED BY <1>7, <1>8

-----------------------------------------------------------------------------
(* Steps of dequeue and deq_slow.                                          *)

\* Nobody gets what another has got.
Fresh(o) ==
    \/ result'[o] = result[o]
    \/ result'[o] \notin Op
    \/ Given(result[o])' /\ \A q \in Op \ {o} : result'[q] # result'[o]

\* Steps that leave the requests as they are.
LEMMA DeqMoves ==
    ASSUME IInv, Bounded, NEW t \in Thread, NEW l \in PcLabels, NEW f \in Local,
           pc' = [pc EXCEPT ![t] = l], local' = [local EXCEPT ![t] = f],
           Away(t), InCall(t), l \notin FastPcs \cup OpenPcs \cup {"chasePut"},
           l \notin {"new", "registerPop", "registerRing"},
           UNCHANGED <<putIndex, popIndex, ring, putNode, enq, deq, eh, program, calls>>,
           cells' \in [Number -> Cell \cup {Null}], AllSigns,
           nodes' \in [put : Nat, pop : Nat], nodes'.put = nodes.put, nodes'.pop <= Segment(popIndex),
           popNode' \in [Thread -> Nat], \A u \in Thread \ {t} : popNode'[u] = popNode[u],
           dh' \in [Thread -> Thread], \A u \in Thread \ {t} : dh'[u] = dh[u], dh'[t] \in RingSet,
           result' \in [Op -> Item \cup {Null, None}], \A o \in Op : Fresh(o),
           Drawn(t)' => Drawn(t) /\ local'[t].index = local[t].index,
           l # "slowDeqIdx", Asking(t)' => Asking(t),
           HelpInv(t)', ValInv(t)', DrawInv(t)', DeqInv(t)', SeekInv(t)'
    PROVE  IInv'
  <1>1. TypeInv /\ Registered(t) BY DEF IInv, InCall
  <1>2. /\ popIndex' = popIndex /\ popIndex' \in Nat /\ popIndex <= popIndex'
        /\ deq' = deq /\ deq' \in [Thread -> [id : Nat, idx : Int]]
        /\ calls' \in [Thread -> 0 .. MaxCalls] /\ (\A u \in Thread \ {t} : calls'[u] = calls[u])
        /\ calls[t] <= calls'[t]
        /\ UNCHANGED <<putIndex, ring, putNode, enq, eh, program>>
    <2>1. calls[t] \in Int BY <1>1, CurrentIs
    <2>2. QED BY SMTT(60), <1>1, <2>1 DEF TypeInv
  <1>3. /\ TypeInv' /\ Alone(t) /\ Away(t)' /\ pc'[t] = l /\ Registered(t)'
        /\ \A u \in Thread \ {t} : /\ (Drawn(u)' <=> Drawn(u)) /\ (Asking(u)' <=> Asking(u))
    BY <1>1, <1>2, DeqFrame
  <1>4. AllGrow /\ Ahead BY <1>1, <1>2, SignsGrow DEF TypeInv, Ahead
  <1>5. AllWishes
    <2>1. ASSUME NEW u \in Thread PROVE Wish(u) BY <1>3, <1>2, <1>1, <1>4, WishStill DEF Alone
    <2>2. QED BY <2>1 DEF AllWishes
  <1>6. TakenInv'
    <2>1. ASSUME NEW o \in Op, result'[o] \in Op PROVE Given(result[o])'
      <3>1. CASE result'[o] = result[o]
        <4>1. PICK v \in Op : v = result[o] BY <2>1, <3>1
        <4>2. Given(v) BY <4>1 DEF IInv, Whole, TakenInv
        <4>3. Given(v)' BY <1>1, <1>3, <1>4, <1>5, <4>2, TakenStays
        <4>4. QED BY <3>1, <4>1, <4>3
      <3>2. CASE result'[o] # result[o] BY <2>1, <3>2 DEF Fresh
      <3>3. QED BY <3>1, <3>2
    <2>2. QED BY <2>1 DEF TakenInv
  <1>7. TakenOnce' BY DEF IInv, Whole, TakenOnce, Fresh
  <1>8. \A u \in Thread \ {t} : Turns(u) BY <1>2 DEF Turns
  <1>9. nodes'.pop <= Segment(popIndex') BY <1>2
  <1>10. UNCHANGED <<putIndex, ring, putNode, enq, eh>> OBVIOUS
  <1>11. QED BY <1>1, <1>2, <1>3, <1>5, <1>6, <1>7, <1>8, <1>9, <1>10, DeqStep

\* In a dequeue with an index of its own.
DrawnPcs == {"popCell", "popNew", "popNode", "chasePop", "popDeq", "slowDeqId"}

LEMMA DrawnIs ==
    ASSUME IInv, Bounded, NEW t \in Thread, pc[t] \in {"popCell", "popNew", "popDeq", "slowDeqId"}
                                            \/ (pc[t] \in NodePcs /\ local[t].then # "slowGot")
    PROVE  /\ Drawn(t) /\ ~Asking(t) /\ ~Answering(t) /\ Away(t) /\ InCall(t) /\ Registered(t)
           /\ TypeInv /\ local[t] \in Local /\ dh[t] \in RingSet /\ dh \in [Thread -> Thread]
           /\ popIndex \in Nat /\ popIndex < Cells /\ Cells \in Nat
           /\ popNode[t] \in Nat /\ popNode[t] <= Segment(local[t].index)
           /\ local[t].index \in Number /\ local[t].index > 0 /\ local[t].index < popIndex
           /\ local[t].index \in Used .. popIndex - 1
           /\ local[t].i = local[t].index /\ local[t].cell = local[t].index
           /\ local[t].dp = Segment(local[t].index) /\ local[t].dp \in Nat
           /\ local[t].then = "idle" /\ local[t].back = "popDeq"
           /\ deq[t].idx < 0 /\ deq[t].id < local[t].index /\ deq[t].id \in Nat /\ deq[t].id < popIndex
           /\ pc[t] \notin {"popCell", "popNew"} => cells[local[t].index] # Null
           /\ Segment(local[t].index) <= Segment(popIndex)
           /\ NodesInv /\ nodes \in [put : Nat, pop : Nat]
  <1>1. /\ Drawn(t) /\ Away(t) /\ InCall(t) /\ Registered(t)
        /\ pc[t] \notin SeekPcs \cup HelpPcs \cup {"slowDone", "slowGot"}
    BY DEF Drawn, NodePcs, HelpPcs, SeekPcs, Away, InPut, Fast, Open, Pc, FastPcs, OpenPcs, InCall,
           Registered
  <1>2. ~Asking(t) /\ ~Answering(t) BY <1>1 DEF Asking, Answering, Helping, NodePcs
  <1>3. TypeInv /\ DrawInv(t) /\ DeqInv(t) /\ RingInv /\ NodesInv BY DEF IInv, Own, Whole
  <1>4. /\ popIndex \in Nat /\ popIndex < Cells /\ Cells \in Nat /\ Used \in Nat
        /\ dh \in [Thread -> Thread] /\ nodes \in [put : Nat, pop : Nat]
    BY <1>3, Nulls DEF TypeInv, Bounded
  <1>5. /\ local[t].index \in Used .. popIndex - 1 /\ popNode[t] <= Segment(local[t].index)
        /\ deq[t].idx < 0 /\ deq[t].id < local[t].index
        /\ local[t].i = local[t].index /\ local[t].cell = local[t].index
        /\ local[t].dp = Segment(local[t].index)
        /\ local[t].then = "idle" /\ local[t].back = "popDeq"
        /\ pc[t] \notin {"popCell", "popNew"} => cells[local[t].index] # Null
    BY <1>1, <1>3 DEF DrawInv
  <1>6. local[t] \in Local /\ local[t].dp \in Nat /\ local[t].index \in Int BY <1>3, LocalIs
  <1>7. deq[t].id \in Nat /\ popNode[t] \in Nat BY <1>3, RequestIs
  <1>8. local[t].index \in Number /\ local[t].index > 0 /\ local[t].index < popIndex /\ deq[t].id < popIndex
    BY <1>4, <1>5, <1>6, <1>7 DEF Number
  <1>9. dh[t] \in RingSet BY <1>1, <1>3 DEF RingInv
  <1>10. Segment(local[t].index) <= Segment(popIndex) BY <1>4, <1>8, Segments DEF Number
  <1>11. QED BY <1>1, <1>2, <1>3, <1>4, <1>5, <1>6, <1>7, <1>8, <1>9, <1>10

\* Steps of it that keep the index and the locals.
LEMMA DrawnGoes ==
    ASSUME IInv, Bounded, NEW t \in Thread, pc[t] \in {"popCell", "popNew", "popDeq"}
                                            \/ (pc[t] \in NodePcs /\ local[t].then # "slowGot"),
           NEW l \in DrawnPcs \cup {"helpVal"}, Keep(t, l),
           UNCHANGED <<putIndex, popIndex, ring, putNode, enq, deq, handles, history>>,
           cells' \in [Number -> Cell \cup {Null}], AllSigns,
           nodes' \in [put : Nat, pop : Nat], nodes'.put = nodes.put, nodes'.pop <= Segment(popIndex),
           popNode' \in [Thread -> Nat], \A u \in Thread \ {t} : popNode'[u] = popNode[u],
           popNode'[t] <= Segment(local[t].index),
           l \in {"popCell", "popNew"} \/ cells'[local[t].index] # Null, l # "popDeq"
    PROVE  IInv'
  <1>1. /\ Drawn(t) /\ ~Asking(t) /\ ~Answering(t) /\ Away(t) /\ InCall(t)
        /\ TypeInv /\ local[t] \in Local /\ dh[t] \in RingSet /\ dh \in [Thread -> Thread]
        /\ popIndex \in Nat /\ popIndex < Cells /\ Cells \in Nat
        /\ local[t].index \in Number /\ local[t].index > 0
        /\ local[t].index \in Used .. popIndex - 1
        /\ local[t].i = local[t].index /\ local[t].cell = local[t].index
        /\ local[t].dp = Segment(local[t].index)
        /\ local[t].then = "idle" /\ local[t].back = "popDeq"
        /\ deq[t].idx < 0 /\ deq[t].id < local[t].index /\ deq[t].id < popIndex
        /\ Segment(local[t].index) <= Segment(popIndex)
    BY DrawnIs DEF DrawnPcs
  <1>2. PICK f \in Local : f = local[t] BY <1>1
  <1>3. /\ pc' = [pc EXCEPT ![t] = l] /\ local' = [local EXCEPT ![t] = f]
        /\ pc'[t] = l /\ local'[t] = f
    BY <1>1, <1>2 DEF Keep, Goto, TypeInv
  <1>4. /\ l \in PcLabels /\ l \notin FastPcs \cup OpenPcs \cup {"chasePut"}
        /\ l \notin {"new", "registerPop", "registerRing"} /\ l # "slowDeqIdx"
        /\ l \notin SeekPcs \cup {"slowDone", "slowGot", "idle", "seekDeq", "popDeq"}
        /\ l \notin RegisterPcs
        /\ l \in HelpPcs => l = "helpVal"
    BY DEF RegisterPcs, DrawnPcs, PcLabels, FastPcs, OpenPcs, SeekPcs, HelpPcs
  <1>5. ~Helping(t)' /\ ~Answering(t)' /\ ~Asking(t)'
    BY <1>1, <1>2, <1>3, <1>4 DEF Helping, Answering, Asking
  <1>6. HelpInv(t)' BY <1>1, <1>2, <1>3, <1>4 DEF Number, HelpInv, HelpAt
  <1>7. ValInv(t)' /\ SeekInv(t)' BY <1>3, <1>4, <1>5 DEF ValInv, ValAt, SeekInv
  <1>8. popNode'[t] <= Segment(popIndex')
    <2>1. local[t].index \in Nat BY <1>1 DEF Number
    <2>2. popNode'[t] \in Nat /\ Segment(local[t].index) \in Nat /\ Segment(popIndex) \in Nat
      BY <1>1, <2>1, Segments
    <2>3. popIndex' = popIndex OBVIOUS
    <2>4. Segment(popIndex') = Segment(popIndex) BY <2>3
    <2>5. QED BY <1>1, <2>2, <2>4
  <1>9. DrawInv(t)' BY <1>1, <1>2, <1>3, <1>4, <1>8 DEF DrawInv
  <1>10. DeqInv(t)' BY <1>1, RequestIs, <1>3, <1>4, <1>5 DEF IInv, Own, DeqInv
  <1>11. \A o \in Op : Fresh(o) BY DEF Fresh, history
  <1>12. /\ UNCHANGED <<putIndex, popIndex, ring, putNode, enq, deq, eh, program, calls>>
         /\ dh' \in [Thread -> Thread] /\ (\A u \in Thread \ {t} : dh'[u] = dh[u]) /\ dh'[t] \in RingSet
         /\ result' \in [Op -> Item \cup {Null, None}]
    BY <1>1 DEF handles, history, TypeInv
  <1>13. Drawn(t)' => Drawn(t) /\ local'[t].index = local[t].index BY <1>1, <1>2, <1>3
  <1>14. pc' = [pc EXCEPT ![t] = l] /\ local' = [local EXCEPT ![t] = f] BY <1>3
  <1>15. QED BY <1>1, <1>4, <1>5, <1>6, <1>7, <1>9, <1>10, <1>11, <1>12, <1>13, <1>14, DeqMoves

LEMMA PopCellStep ==
    ASSUME IInv, Bounded, NEW t \in Thread, PopCell(t)
    PROVE  IInv'
  <1>1. pc[t] = "popCell" BY DEF PopCell
  <1>2. /\ local[t].cell = local[t].index /\ TypeInv /\ NodesInv /\ popNode[t] <= Segment(local[t].index)
    BY <1>1, DrawnIs
  <1>3. PICK l \in {"popNew", "popNode", "helpVal"} :
            Keep(t, l) /\ (l # "popNew" => cells[local[t].index] # Null)
    BY <1>2 DEF PopCell, PopOn, Empty
  <1>4. /\ cells' = cells /\ nodes' = nodes /\ popNode' = popNode
        /\ UNCHANGED <<putIndex, popIndex, ring, putNode, enq, deq, handles, history>>
    BY DEF PopCell, shared
  <1>5. /\ cells' \in [Number -> Cell \cup {Null}] /\ AllSigns
        /\ nodes' \in [put : Nat, pop : Nat] /\ nodes'.put = nodes.put /\ nodes'.pop <= Segment(popIndex)
        /\ popNode' \in [Thread -> Nat] /\ (\A u \in Thread \ {t} : popNode'[u] = popNode[u])
        /\ popNode'[t] <= Segment(local[t].index)
    BY <1>2, <1>4 DEF TypeInv, AllSigns, Signs, NodesInv
  <1>6. l \in DrawnPcs \cup {"helpVal"} /\ l # "popDeq" BY DEF DrawnPcs
  <1>7. l \in {"popCell", "popNew"} \/ cells'[local[t].index] # Null BY <1>3, <1>4
  <1>8. UNCHANGED <<putIndex, popIndex, ring, putNode, enq, deq, handles, history>> BY <1>4
  <1>9. Keep(t, l) BY <1>3
  <1> HIDE <1>4
  <1>10. QED BY <1>1, <1>5, <1>6, <1>7, <1>8, <1>9, DrawnGoes

LEMMA PopNewStep ==
    ASSUME IInv, Bounded, NEW t \in Thread, PopNew(t)
    PROVE  IInv'
  <1>1. pc[t] = "popNew" BY DEF PopNew
  <1>2. /\ local[t].cell = local[t].index /\ TypeInv /\ NodesInv /\ popNode[t] <= Segment(local[t].index)
        /\ local[t].index \in Number
    BY <1>1, DrawnIs
  <1>3. PICK i \in Number : i = local[t].index BY <1>2
  <1>4. PICK l \in {"popNode", "helpVal"} : Keep(t, l) BY DEF PopNew, PopOn
  <1>5. cells' = IF cells[i] = Null THEN [cells EXCEPT ![i] = NewCell(Null, Null)] ELSE cells
    BY <1>2, <1>3 DEF PopNew, Empty
  <1>6. NewCell(Null, Null) \in Cell BY DEF NewCell, Cell
  <1>7. /\ cells' \in [Number -> Cell \cup {Null}] /\ AllSigns /\ cells'[i] # Null
    BY <1>2, <1>5, <1>6, Nulls DEF TypeInv, AllSigns, Signs
  <1>8. /\ nodes' = nodes /\ popNode' = popNode
        /\ UNCHANGED <<putIndex, popIndex, ring, putNode, enq, deq, handles, history>>
    BY DEF PopNew
  <1>9. /\ nodes' \in [put : Nat, pop : Nat] /\ nodes'.put = nodes.put /\ nodes'.pop <= Segment(popIndex)
        /\ popNode' \in [Thread -> Nat] /\ (\A u \in Thread \ {t} : popNode'[u] = popNode[u])
        /\ popNode'[t] <= Segment(local[t].index)
    BY <1>2, <1>8 DEF TypeInv, NodesInv
  <1>10. l \in DrawnPcs \cup {"helpVal"} /\ l # "popDeq" BY DEF DrawnPcs
  <1>11. l \in {"popCell", "popNew"} \/ cells'[local[t].index] # Null BY <1>3, <1>7
  <1>12. UNCHANGED <<putIndex, popIndex, ring, putNode, enq, deq, handles, history>> BY <1>8
  <1> HIDE <1>5, <1>8
  <1>13. QED BY <1>1, <1>4, <1>7, <1>9, <1>10, <1>11, <1>12, DrawnGoes

\* With a request of its own that is answered.
LEMMA AnswerIs ==
    ASSUME IInv, Bounded, NEW t \in Thread, Answering(t)
    PROVE  /\ Asking(t) /\ ~Drawn(t) /\ Away(t) /\ InCall(t) /\ Registered(t)
           /\ TypeInv /\ local[t] \in Local /\ dh[t] \in RingSet /\ dh \in [Thread -> Thread]
           /\ popIndex \in Nat /\ popIndex < Cells /\ Cells \in Nat
           /\ popNode[t] \in Nat /\ popNode[t] <= Segment(popIndex)
           /\ deq[t].id \in Nat /\ deq[t].idx \in Int /\ deq[t].id < -deq[t].idx
           /\ deq[t].idx < 0 /\ -deq[t].idx < popIndex /\ -deq[t].idx \in Number
           /\ deq[t].id >= Used /\ Answered(t) /\ cells[-deq[t].idx] # Null
           /\ pc[t] # "slowDone" => /\ local[t].cell = -deq[t].idx
                                    /\ local[t].dp = Segment(-deq[t].idx)
           /\ pc[t] = "slowDone" => popNode[t] <= Segment(deq[t].id)
           /\ Segment(-deq[t].idx) <= Segment(popIndex) /\ Segment(-deq[t].idx) \in Nat
           /\ NodesInv /\ nodes \in [put : Nat, pop : Nat]
  <1>1. /\ Asking(t) /\ ~Drawn(t) /\ Away(t) /\ InCall(t) /\ Registered(t)
    BY DEF Answering, Asking, Drawn, NodePcs, HelpPcs, SeekPcs, Away, InPut, Fast, Open, Pc, FastPcs,
           OpenPcs, InCall, Registered
  <1>2. TypeInv /\ DrawInv(t) /\ DeqInv(t) /\ RingInv /\ NodesInv BY DEF IInv, Own, Whole
  <1>3. /\ popIndex \in Nat /\ popIndex < Cells /\ Cells \in Nat
        /\ dh \in [Thread -> Thread] /\ nodes \in [put : Nat, pop : Nat]
    BY <1>2, Nulls DEF TypeInv, Bounded
  <1>4. /\ deq[t].idx < 0 /\ Answered(t) /\ deq[t].id >= Used
        /\ pc[t] # "slowDone" => local[t].cell = -deq[t].idx /\ local[t].dp = Segment(-deq[t].idx)
        /\ pc[t] = "slowDone" => popNode[t] <= Segment(deq[t].id)
        /\ popNode[t] <= Segment(popIndex)
    BY <1>1, <1>2 DEF DeqInv, DrawInv
  <1>5. local[t] \in Local /\ deq[t].id \in Nat /\ deq[t].idx \in Int /\ popNode[t] \in Nat
    BY <1>2, LocalIs, RequestIs
  <1>6. deq[t].id < -deq[t].idx /\ -deq[t].idx < popIndex /\ cells[-deq[t].idx] # Null
    BY <1>4 DEF Answered
  <1>7. -deq[t].idx \in Number /\ -deq[t].idx \in Nat BY <1>3, <1>5, <1>6 DEF Number
  <1>8. Segment(-deq[t].idx) <= Segment(popIndex) /\ Segment(-deq[t].idx) \in Nat
    BY <1>3, <1>6, <1>7, Segments
  <1>9. dh[t] \in RingSet BY <1>1, <1>2 DEF RingInv
  <1>10. QED BY <1>1, <1>2, <1>3, <1>4, <1>5, <1>6, <1>7, <1>8, <1>9

\* Steps of it on the way to the cell.
LEMMA AnswerGoes ==
    ASSUME IInv, Bounded, NEW t \in Thread, Answering(t), NEW l \in {"popNode", "chasePop", "slowGot"},
           NEW f \in Local, pc' = [pc EXCEPT ![t] = l], local' = [local EXCEPT ![t] = f],
           f.then = "slowGot", f.cell = -deq[t].idx, f.dp = Segment(-deq[t].idx),
           UNCHANGED <<putIndex, popIndex, cells, ring, putNode, enq, deq, handles, history>>,
           nodes' \in [put : Nat, pop : Nat], nodes'.put = nodes.put, nodes'.pop <= Segment(popIndex),
           popNode' \in [Thread -> Nat], \A u \in Thread \ {t} : popNode'[u] = popNode[u],
           popNode'[t] <= Segment(popIndex)
    PROVE  IInv'
  <1>1. /\ Asking(t) /\ ~Drawn(t) /\ Away(t) /\ InCall(t)
        /\ TypeInv /\ dh[t] \in RingSet /\ dh \in [Thread -> Thread]
        /\ popIndex \in Nat /\ deq[t].id \in Nat /\ deq[t].idx < 0 /\ deq[t].idx \in Int
        /\ deq[t].id < -deq[t].idx /\ -deq[t].idx < popIndex /\ deq[t].id >= Used /\ Answered(t)
    BY AnswerIs
  <1>2. pc'[t] = l /\ local'[t] = f BY <1>1 DEF TypeInv
  <1>3. /\ l \in PcLabels /\ l \notin FastPcs \cup OpenPcs \cup {"chasePut"}
        /\ l \notin {"new", "registerPop", "registerRing"} /\ l # "slowDeqIdx"
        /\ l \notin SeekPcs \cup HelpPcs \cup {"slowDone", "idle", "seekDeq", "popDeq"}
        /\ l \in {"slowGot"} \cup NodePcs
        /\ l \notin {"popCell", "popNew", "popDeq", "slowDeqId"} /\ l \notin RegisterPcs
    BY DEF PcLabels, FastPcs, OpenPcs, SeekPcs, HelpPcs, NodePcs, RegisterPcs
  <1>4. ~Helping(t)' /\ Answering(t)' /\ Asking(t)' /\ ~Drawn(t)'
    BY <1>2, <1>3 DEF Helping, Answering, Asking, Drawn, NodePcs
  <1>5. HelpInv(t)' /\ ValInv(t)' /\ SeekInv(t)'
    BY <1>2, <1>3, <1>4 DEF ValInv, ValAt, SeekInv, HelpInv, HelpAt
  <1>6. popIndex' = popIndex /\ deq' = deq /\ cells' = cells OBVIOUS
  <1>7. DrawInv(t)' BY <1>6, <1>2, <1>3, <1>4 DEF DrawInv
  <1>8. DeqInv(t)' BY <1>1, <1>6, <1>2, <1>3, <1>4 DEF Answered, DeqInv
  <1>9. \A o \in Op : Fresh(o) BY DEF Fresh, history
  <1>10. /\ UNCHANGED <<putIndex, popIndex, ring, putNode, enq, deq, eh, program, calls>>
         /\ dh' \in [Thread -> Thread] /\ (\A u \in Thread \ {t} : dh'[u] = dh[u]) /\ dh'[t] \in RingSet
         /\ result' \in [Op -> Item \cup {Null, None}]
    BY <1>1 DEF handles, history, TypeInv
  <1>11. cells' \in [Number -> Cell \cup {Null}] /\ AllSigns
    BY <1>1, <1>6 DEF TypeInv, AllSigns, Signs
  <1> HIDE <1>6
  <1>12. QED BY <1>1, <1>3, <1>4, <1>5, <1>7, <1>8, <1>9, <1>10, <1>11, DeqMoves

LEMMA PopNodeStep ==
    ASSUME IInv, Bounded, NEW t \in Thread, PopNode(t)
    PROVE  IInv'
  <1>1. pc[t] = "popNode" /\ pc[t] \in NodePcs /\ TypeInv /\ NodesInv
    BY DEF PopNode, NodePcs, IInv, Whole
  <1>2. PICK n \in Nat : n = local[t].dp BY <1>1, LocalIs
  <1>3. /\ popNode' = [popNode EXCEPT ![t] = n] /\ Keep(t, "chasePop")
        /\ cells' = cells /\ nodes' = nodes
        /\ UNCHANGED <<putIndex, popIndex, cells, ring, putNode, enq, deq, handles, history>>
    BY <1>2 DEF PopNode
  <1>4. /\ cells' \in [Number -> Cell \cup {Null}] /\ AllSigns
        /\ nodes' \in [put : Nat, pop : Nat] /\ nodes'.put = nodes.put /\ nodes'.pop <= Segment(popIndex)
        /\ popNode' \in [Thread -> Nat] /\ (\A u \in Thread \ {t} : popNode'[u] = popNode[u])
        /\ popNode'[t] = n
    BY <1>1, <1>3 DEF TypeInv, AllSigns, Signs, NodesInv
  <1>5. CASE local[t].then # "slowGot"
    <2>1. /\ local[t].dp = Segment(local[t].index) /\ local[t].dp \in Nat /\ cells[local[t].index] # Null
      BY <1>1, <1>5, DrawnIs
    <2>2. n <= Segment(local[t].index) BY <1>2, <2>1
    <2>3. popNode'[t] <= Segment(local[t].index) /\ cells'[local[t].index] # Null
      BY <1>3, <1>4, <2>1, <2>2
    <2>4. "chasePop" \in DrawnPcs \cup {"helpVal"} BY DEF DrawnPcs
    <2>5. UNCHANGED <<putIndex, popIndex, ring, putNode, enq, deq, handles, history>> /\ Keep(t, "chasePop")
      BY <1>3
    <2> HIDE <1>3
    <2>6. QED BY <1>1, <1>4, <1>5, <2>3, <2>4, <2>5, DrawnGoes
  <1>6. CASE local[t].then = "slowGot"
    <2>1. Answering(t) BY <1>1, <1>6 DEF Answering
    <2>2. /\ local[t] \in Local /\ local[t].cell = -deq[t].idx /\ local[t].dp = Segment(-deq[t].idx)
          /\ Segment(-deq[t].idx) <= Segment(popIndex)
      BY <1>1, <2>1, AnswerIs
    <2>3. PICK f \in Local : f = local[t] BY <2>2
    <2>4. /\ pc' = [pc EXCEPT ![t] = "chasePop"] /\ local' = [local EXCEPT ![t] = f]
          /\ f.then = "slowGot" /\ f.cell = -deq[t].idx /\ f.dp = Segment(-deq[t].idx)
      BY <1>1, <1>3, <1>6, <2>2, <2>3 DEF Keep, Goto, TypeInv
    <2>5. popNode'[t] <= Segment(popIndex) BY <1>2, <1>4, <2>2
    <2>6. UNCHANGED <<putIndex, popIndex, cells, ring, putNode, enq, deq, handles, history>> BY <1>3
    <2> HIDE <1>3
    <2>7. QED BY <1>4, <2>1, <2>4, <2>5, <2>6, AnswerGoes
  <1>7. QED BY <1>5, <1>6

LEMMA ChasePopStep ==
    ASSUME IInv, Bounded, NEW t \in Thread, ChasePop(t)
    PROVE  IInv'
  <1>1. pc[t] = "chasePop" /\ pc[t] \in NodePcs /\ TypeInv /\ NodesInv /\ DrawInv(t)
    BY DEF ChasePop, NodePcs, IInv, Whole, Own
  <1>2. popNode[t] \in Nat /\ popNode[t] <= Segment(popIndex) BY <1>1, RequestIs DEF DrawInv
  <1>3. /\ nodes' = [nodes EXCEPT !.pop = Later(@, popNode[t])]
        /\ cells' = cells /\ popNode' = popNode
        /\ UNCHANGED <<putIndex, popIndex, cells, ring, putNode, enq, deq, handles, history>>
    BY DEF ChasePop
  <1>4. Later(nodes.pop, popNode[t]) \in Nat /\ Later(nodes.pop, popNode[t]) <= Segment(popIndex)
    BY <1>1, <1>2 DEF Later, NodesInv, TypeInv
  <1>5. /\ cells' \in [Number -> Cell \cup {Null}] /\ AllSigns
        /\ nodes' \in [put : Nat, pop : Nat] /\ nodes'.put = nodes.put /\ nodes'.pop <= Segment(popIndex)
        /\ popNode' \in [Thread -> Nat] /\ (\A u \in Thread \ {t} : popNode'[u] = popNode[u])
        /\ popNode'[t] = popNode[t]
    BY <1>1, <1>3, <1>4 DEF TypeInv, AllSigns, Signs
  <1>6. CASE local[t].then # "slowGot"
    <2>1. /\ popNode[t] <= Segment(local[t].index) /\ cells[local[t].index] # Null
      BY <1>1, <1>6, DrawnIs
    <2>2. popNode'[t] <= Segment(local[t].index) /\ cells'[local[t].index] # Null BY <1>3, <2>1
    <2>3. "helpVal" \in DrawnPcs \cup {"helpVal"} OBVIOUS
    <2>4. UNCHANGED <<putIndex, popIndex, ring, putNode, enq, deq, handles, history>> /\ Keep(t, "helpVal")
      BY <1>3, <1>6 DEF ChasePop
    <2> HIDE <1>3
    <2>5. QED BY <1>1, <1>5, <1>6, <2>2, <2>3, <2>4, DrawnGoes
  <1>7. CASE local[t].then = "slowGot"
    <2>1. Answering(t) BY <1>1, <1>7 DEF Answering
    <2>2. /\ local[t] \in Local /\ local[t].cell = -deq[t].idx /\ local[t].dp = Segment(-deq[t].idx)
      BY <1>1, <2>1, AnswerIs
    <2>3. PICK f \in Local : f = local[t] BY <2>2
    <2>4. /\ pc' = [pc EXCEPT ![t] = "slowGot"] /\ local' = [local EXCEPT ![t] = f]
          /\ f.then = "slowGot" /\ f.cell = -deq[t].idx /\ f.dp = Segment(-deq[t].idx)
      BY <1>1, <1>7, <2>2, <2>3 DEF ChasePop, Keep, Goto, TypeInv
    <2>5. popNode'[t] <= Segment(popIndex) BY <1>2, <1>5
    <2>6. UNCHANGED <<putIndex, popIndex, cells, ring, putNode, enq, deq, handles, history>> BY <1>3
    <2> HIDE <1>3
    <2>7. QED BY ZenonT(60), <1>5, <2>1, <2>4, <2>5, <2>6, AnswerGoes
  <1>8. QED BY <1>6, <1>7

\* The locals with which deq_slow takes its answer, and those of a call of help_deq.
TakeUp(g, n, z, b) == [g EXCEPT !.dp = n, !.cell = z, !.then = b]
CallFor(g, p, b) == [g EXCEPT !.ph = p, !.then = b]

LEMMA StartNotes ==
    /\ \A n \in Nat, z \in Int, b \in PcLabels :
          LET f == TakeUp(Blank, n, z, b)
          IN  f \in Local /\ f.dp = n /\ f.cell = z /\ f.then = b
    /\ \A p \in Thread, b \in PcLabels :
          LET f == CallFor(Blank, p, b)
          IN  f \in Local /\ f.ph = p /\ f.then = b
  <1>1. PICK g \in Local : g = Blank BY BlankIs
  <1>2. \A n \in Nat, z \in Int, b \in PcLabels :
          LET f == TakeUp(g, n, z, b)
          IN  f \in Local /\ f.dp = n /\ f.cell = z /\ f.then = b
    BY ZenonT(60) DEF Local, TakeUp
  <1>3. \A p \in Thread, b \in PcLabels :
          LET f == CallFor(g, p, b)
          IN  f \in Local /\ f.ph = p /\ f.then = b
    BY DEF Local, CallFor
  <1>4. QED BY <1>1, <1>2, <1>3

LEMMA SlowDoneStep ==
    ASSUME IInv, Bounded, NEW t \in Thread, SlowDone(t)
    PROVE  IInv'
  <1>1. pc[t] = "slowDone" /\ Answering(t) BY DEF SlowDone, Answering
  <1>2. /\ TypeInv /\ NodesInv /\ popNode[t] \in Nat /\ popNode[t] <= Segment(deq[t].id)
        /\ popNode[t] <= Segment(popIndex)
        /\ deq[t].id \in Nat /\ deq[t].id < -deq[t].idx /\ -deq[t].idx \in Number
        /\ cells[-deq[t].idx] # Null
    BY <1>1, AnswerIs
  <1>3. PICK i \in Number : i = -deq[t].idx BY <1>2
  <1>4. i \in Nat /\ i \in Int /\ deq[t].id <= i BY <1>2, <1>3 DEF Number
  <1>5. /\ Segment(deq[t].id) <= Segment(i) /\ Segment(i) \in Nat /\ Segment(deq[t].id) \in Nat
        /\ At(Segment(i), i) = i
    BY <1>2, <1>4, Segments
  <1>6. popNode[t] <= Segment(i) BY <1>2, <1>5
  <1>7. FindCell(popNode[t], i) = Segment(i) BY <1>2, <1>4, <1>6, Segments
  <1>8. PICK n \in Nat : n = Segment(i) BY <1>5
  <1>17. PICK b \in PcLabels : b = "slowGot" BY DEF PcLabels
  <1> DEFINE f == TakeUp(Blank, n, i, b)
  <1>9. f \in Local /\ f.dp = n /\ f.cell = i /\ f.then = "slowGot"
    <2>1. f \in Local /\ f.dp = n /\ f.cell = i /\ f.then = b BY <1>4, StartNotes
    <2> HIDE DEF f
    <2>2. QED BY <1>17, <2>1
  <1>10. local' = [local EXCEPT ![t] = f] /\ UNCHANGED <<shared, handles, history>>
    BY <1>3, <1>5, <1>7, <1>8, <1>17 DEF SlowDone, TakeUp
  <1> HIDE DEF f
  <1>11. PICK l \in {"popNode", "chasePop", "slowGot"} : pc' = [pc EXCEPT ![t] = l]
    BY <1>2, <1>3, <1>5, <1>7 DEF SlowDone, Empty, Goto
  <1>12. /\ nodes' = nodes /\ popNode' = popNode
         /\ UNCHANGED <<putIndex, popIndex, cells, ring, putNode, enq, deq, handles, history>>
    BY <1>10 DEF shared
  <1>13. /\ nodes' \in [put : Nat, pop : Nat] /\ nodes'.put = nodes.put /\ nodes'.pop <= Segment(popIndex)
         /\ popNode' \in [Thread -> Nat] /\ (\A u \in Thread \ {t} : popNode'[u] = popNode[u])
         /\ popNode'[t] <= Segment(popIndex)
    BY <1>2, <1>12 DEF TypeInv, NodesInv
  <1>14. f.then = "slowGot" /\ f.cell = -deq[t].idx /\ f.dp = Segment(-deq[t].idx) /\ f \in Local
    BY <1>3, <1>8, <1>9
  <1>15. local' = [local EXCEPT ![t] = f]
         /\ UNCHANGED <<putIndex, popIndex, cells, ring, putNode, enq, deq, handles, history>>
    BY <1>10, <1>12
  <1> HIDE <1>12
  <1>16. QED BY <1>1, <1>11, <1>13, <1>14, <1>15, AnswerGoes

\* The dequeue ends, or ends but for a call of help_deq.
LEMMA DeqEnds ==
    ASSUME IInv, Bounded, NEW t \in Thread, Away(t), InCall(t), ~(deq[t].idx >= 0),
           NEW l \in {"idle", "askIdx"}, NEW f \in Local,
           pc' = [pc EXCEPT ![t] = l], local' = [local EXCEPT ![t] = f],
           l = "idle" => f = Blank, l = "askIdx" => f.ph \in Thread /\ f.then = "dequeued",
           UNCHANGED <<putIndex, popIndex, ring, nodes, putNode, popNode, enq, deq, eh, program, calls>>,
           cells' \in [Number -> Cell \cup {Null}], AllSigns,
           dh' \in [Thread -> Thread], \A u \in Thread \ {t} : dh'[u] = dh[u], dh'[t] \in RingSet,
           result' \in [Op -> Item \cup {Null, None}],
           ~Drawn(t)' /\ ~Asking(t)' => \A o \in Op : Fresh(o)
    PROVE  IInv'
  <1>1. TypeInv /\ DrawInv(t) /\ DeqInv(t) /\ NodesInv BY DEF IInv, Own, Whole
  <1>2. pc'[t] = l /\ local'[t] = f BY <1>1 DEF TypeInv
  <1>3. /\ l \in PcLabels /\ l \notin FastPcs \cup OpenPcs \cup {"chasePut"}
        /\ l \notin {"new", "registerPop", "registerRing"} /\ l # "slowDeqIdx"
        /\ l \notin HelpPcs \cup NodePcs \cup {"slowDone", "slowGot", "seekDeq", "popDeq"}
        /\ l \notin {"popCell", "popNew", "popDeq", "slowDeqId"} /\ l \notin RegisterPcs
        /\ l \in SeekPcs <=> l = "askIdx"
    BY DEF PcLabels, FastPcs, OpenPcs, SeekPcs, HelpPcs, NodePcs, RegisterPcs
  <1>4. ~Answering(t)' /\ ~Asking(t)' /\ ~Drawn(t)'
    BY <1>2, <1>3 DEF Helping, Answering, Asking, Drawn
  <1>5. HelpInv(t)' /\ ValInv(t)' BY <1>2, <1>3 DEF ValInv, ValAt, HelpInv, HelpAt
  <1>6. SeekInv(t)' BY <1>2, <1>3 DEF SeekInv, Helping, SeekAt, HelpPcs
  <1>7. popIndex' = popIndex /\ deq' = deq /\ popNode' = popNode /\ nodes' = nodes OBVIOUS
  <1>8. DrawInv(t)' BY <1>1, <1>2, <1>3, <1>4, <1>7 DEF DrawInv
  <1>9. DeqInv(t)' BY <1>1, <1>2, <1>3, <1>4, <1>7 DEF DeqInv
  <1>10. \A o \in Op : Fresh(o) BY <1>4
  <1>11. /\ nodes' \in [put : Nat, pop : Nat] /\ nodes'.put = nodes.put /\ nodes'.pop <= Segment(popIndex)
         /\ popNode' \in [Thread -> Nat] /\ (\A u \in Thread \ {t} : popNode'[u] = popNode[u])
    BY <1>1, <1>7 DEF TypeInv, NodesInv
  <1>12. UNCHANGED <<putIndex, popIndex, ring, putNode, enq, deq, eh, program, calls>> OBVIOUS
  <1> HIDE <1>7
  <1>13. QED BY <1>3, <1>4, <1>5, <1>6, <1>8, <1>9, <1>10, <1>11, <1>12, DeqMoves

\* An element is given out: the first time.
LEMMA GotStep ==
    ASSUME IInv, Bounded, NEW t \in Thread, Away(t), InCall(t), ~(deq[t].idx >= 0),
           NEW v \in Item \cup {Null, Bot}, Got(t, v),
           UNCHANGED <<putIndex, popIndex, ring, nodes, putNode, popNode, enq, deq, handles, program, calls>>,
           cells' \in [Number -> Cell \cup {Null}], AllSigns,
           NEW c \in Number,
           v \in Op => /\ cells'[c] # Null /\ cells'[c].val = v /\ cells'[c].deq # Null
                       /\ cells'[c].deq \in Thread => cells'[c].deq = t
                       /\ c < popIndex
                       /\ \A o \in Op : result[o] # v
    PROVE  IInv'
  <1>1. TypeInv /\ RingInv BY DEF IInv, Whole
  <1>2. dh \in [Thread -> Thread] /\ dh[t] \in RingSet /\ dh[t] \in Thread
        /\ result \in [Op -> Item \cup {Null, None}] /\ pc \in [Thread -> PcLabels]
    BY <1>1 DEF TypeInv, RingInv, InCall
  <1>3. PICK w \in Item \cup {Null} : /\ result' = [result EXCEPT ![Current(t)] = w]
                                      /\ w \in Op => v = w
    BY Nulls DEF Got
  <1>4. Current(t) \in Op BY <1>1, CurrentIs
  <1>5. /\ result' \in [Op -> Item \cup {Null, None}] /\ result'[Current(t)] = w
        /\ \A o \in Op \ {Current(t)} : result'[o] = result[o]
    BY <1>2, <1>3, <1>4
  <1>6. PICK l \in {"idle", "askIdx"}, f \in Local :
            /\ pc' = [pc EXCEPT ![t] = l] /\ local' = [local EXCEPT ![t] = f]
            /\ l = "idle" => f = Blank
            /\ l = "askIdx" => f.ph \in Thread /\ f.then = "dequeued"
    <2>1. CASE v = Bot BY <2>1, BlankIs DEF Got, Return, Goto
    <2>2. CASE v # Bot
      <3>1. PICK b \in PcLabels, h \in Thread : b = "dequeued" /\ h = dh[t] BY <1>2 DEF PcLabels
      <3> DEFINE g == CallFor(Blank, h, b)
      <3>2. g \in Local /\ g.ph = h /\ g.then = b BY StartNotes
      <3>3. pc' = [pc EXCEPT ![t] = "askIdx"] /\ local' = [local EXCEPT ![t] = g]
        BY <2>2, <3>1 DEF Got, Goto, CallFor
      <3> HIDE DEF g
      <3>4. QED BY <3>1, <3>2, <3>3
    <2>3. QED BY <2>1, <2>2
  <1>7. ASSUME ~Drawn(t)' /\ ~Asking(t)', NEW o \in Op PROVE Fresh(o)
    BY <1>5, <1>3, <1>2, <1>6, <1>7 DEF Fresh, Bar, Given
  <1>8. /\ UNCHANGED <<putIndex, popIndex, ring, nodes, putNode, popNode, enq, deq, eh, program, calls>>
        /\ dh' \in [Thread -> Thread] /\ (\A u \in Thread \ {t} : dh'[u] = dh[u]) /\ dh'[t] \in RingSet
    BY <1>2 DEF handles
  <1>9. ~Drawn(t)' /\ ~Asking(t)' => \A o \in Op : Fresh(o) BY <1>7
  <1>10. QED BY <1>5, <1>6, <1>8, <1>9, DeqEnds

\* The item of a cell that nobody has signed has not been given out.
LEMMA NotGiven ==
    ASSUME IInv, NEW c \in Number, cells[c] # Null, NEW v \in Op, cells[c].val = v,
           NEW o \in Op, result[o] = v
    PROVE  cells[c].deq # Null /\ \A p \in Thread : cells[c].deq = p => Bar(p, c)
  <1>1. OneCell /\ TakenInv BY DEF IInv, Whole
  <1>2. Given(v) BY <1>1 DEF TakenInv
  <1>3. PICK d \in Number : /\ cells[d] # Null /\ cells[d].val = v /\ cells[d].deq # Null
                            /\ \A p \in Thread : cells[d].deq = p => Bar(p, d)
    BY <1>2 DEF Given
  <1>4. c = d BY <1>1, <1>3 DEF OneCell
  <1>5. QED BY <1>3, <1>4

LEMMA PopDeqStep ==
    ASSUME IInv, Bounded, NEW t \in Thread, PopDeq(t)
    PROVE  IInv'
  <1>1. pc[t] = "popDeq" BY DEF PopDeq
  <1>2. /\ Away(t) /\ InCall(t) /\ TypeInv /\ NodesInv /\ popNode[t] <= Segment(local[t].index)
        /\ deq[t].idx < 0 /\ local[t] \in Local
    BY <1>1, DrawnIs
  <1>3. PICK c \in Number : c = local[t].index /\ c < popIndex /\ cells[c] # Null /\ c = local[t].cell
    BY <1>1, DrawnIs
  <1>4. PICK v \in Item \cup {Null, Top, Bot} : v = local[t].val BY <1>2, LocalIs
  <1>5. v \in Op => cells[c].val = v BY <1>1, DrawnIs, <1>3, <1>4 DEF IInv, Own, ValInv, ValAt
  <1>6. ~(deq[t].idx >= 0) BY <1>2, RequestIs
  <1>7. UNCHANGED <<putIndex, popIndex, ring, nodes, putNode, popNode, enq, deq, handles, program, calls>>
    BY DEF PopDeq
  <1>8. cells[c] \in Cell /\ cells[c].deq \in Thread \cup {Null, Top} BY <1>2, <1>3, CellIs
  <1>9. ASSUME cells' = cells PROVE cells' \in [Number -> Cell \cup {Null}] /\ AllSigns
    BY <1>2, <1>9 DEF TypeInv, AllSigns, Signs
  <1>10. ASSUME cells' = cells, Keep(t, "slowDeqId"), result' = result PROVE IInv'
    <2>1. /\ nodes' \in [put : Nat, pop : Nat] /\ nodes'.put = nodes.put /\ nodes'.pop <= Segment(popIndex)
          /\ popNode' \in [Thread -> Nat] /\ (\A u \in Thread \ {t} : popNode'[u] = popNode[u])
          /\ popNode'[t] <= Segment(local[t].index)
      BY <1>2, <1>7 DEF TypeInv, NodesInv
    <2>2. UNCHANGED <<putIndex, popIndex, ring, putNode, enq, deq, handles, history>>
      BY <1>7, <1>10 DEF history
    <2>3. cells'[local[t].index] # Null BY <1>3, <1>10
    <2>4. PICK l \in DrawnPcs \cup {"helpVal"} : l = "slowDeqId" /\ l # "popDeq" BY DEF DrawnPcs
    <2>5. Keep(t, l) /\ pc[t] \in {"popCell", "popNew", "popDeq"} BY <1>1, <1>10, <2>4
    <2>6. cells' \in [Number -> Cell \cup {Null}] /\ AllSigns BY <1>9, <1>10
    <2> HIDE <1>10
    <2>7. QED BY <2>1, <2>2, <2>3, <2>4, <2>5, <2>6, DrawnGoes
  <1>11. CASE v = Bot
    <2>1. cells' = cells /\ Got(t, Bot) BY <1>4, <1>11 DEF PopDeq
    <2>2. cells' \in [Number -> Cell \cup {Null}] /\ AllSigns BY <1>9, <2>1
    <2>3. Got(t, v) BY <1>11, <2>1
    <2>4. v \notin Op /\ v \in Item \cup {Null, Bot} BY <1>11, Nulls
    <2>5. QED BY <1>2, <1>3, <1>6, <1>7, <2>2, <2>3, <2>4, GotStep
  <1>12. CASE v = Top BY <1>4, <1>12, Nulls, <1>10 DEF PopDeq
  <1>13. CASE v \notin {Top, Bot} /\ cells[c].deq # Null
    BY <1>3, <1>4, <1>13, <1>10 DEF PopDeq, Cas
  <1>14. CASE v \notin {Top, Bot} /\ cells[c].deq = Null
    <2> DEFINE r == [cells[c] EXCEPT !.deq = Top]
    <2>1. r \in Cell /\ r.val = cells[c].val /\ r.enq = cells[c].enq /\ r.deq = Top BY <1>8 DEF Cell
    <2>2. cells' = [cells EXCEPT ![c] = r] /\ Got(t, v)
      BY <1>3, <1>4, <1>14 DEF PopDeq, Cas
    <2> HIDE DEF r
    <2>3. /\ cells' \in [Number -> Cell \cup {Null}] /\ cells'[c] = r /\ cells'[c] # Null
          /\ \A d \in Number : d # c => cells'[d] = cells[d]
      BY <1>2, <2>1, <2>2, Nulls DEF TypeInv
    <2>4. AllSigns BY <1>3, <1>14, <2>1, <2>3 DEF Signs, AllSigns
    <2>5. v \in Item \cup {Null, Bot} BY <1>14
    <2>6. v \in Op => /\ cells'[c] # Null /\ cells'[c].val = v /\ cells'[c].deq # Null
                      /\ cells'[c].deq \in Thread => cells'[c].deq = t
                      /\ c < popIndex
                      /\ \A o \in Op : result[o] # v
      BY <1>3, <1>5, <1>14, NotGiven, <2>1, <2>3, Nulls
    <2>7. cells' \in [Number -> Cell \cup {Null}] /\ Got(t, v) BY <2>2, <2>3
    <2> HIDE <2>2, <2>3
    <2>8. QED BY <1>2, <1>6, <1>7, <2>4, <2>5, <2>6, <2>7, GotStep
  <1>15. QED BY <1>11, <1>12, <1>13, <1>14

LEMMA SlowGotStep ==
    ASSUME IInv, Bounded, NEW t \in Thread, SlowGot(t)
    PROVE  IInv'
  <1>1. pc[t] = "slowGot" /\ Answering(t) BY DEF SlowGot, Answering
  <1>2. /\ Away(t) /\ InCall(t) /\ TypeInv /\ deq[t].idx < 0 /\ deq[t].idx \in Int /\ deq[t].id \in Nat
        /\ Asking(t) /\ Answered(t) /\ popIndex \in Nat
    BY <1>1, AnswerIs
  <1>3. PICK c \in Number : /\ c = -deq[t].idx /\ c = local[t].cell /\ c < popIndex
                            /\ cells[c] # Null /\ deq[t].id < c
    BY <1>1, AnswerIs
  <1>4. cells[c].deq = t \/ (cells[c].val = Top /\ cells[c].enq = Top) BY <1>2, <1>3 DEF Answered
  <1>5. cells[c].val \in Item \cup {Null, Top} BY <1>2, <1>3, CellIs
  <1>6. PICK v \in Item \cup {Null, Bot} : v = IF cells[c].val = Top THEN Bot ELSE cells[c].val
    BY <1>5
  <1>7. Got(t, v) BY <1>3, <1>6 DEF SlowGot
  <1>8. cells' = cells BY DEF SlowGot, shared
  <1>9. cells' \in [Number -> Cell \cup {Null}] /\ AllSigns
    BY <1>2, <1>8 DEF TypeInv, AllSigns, Signs
  <1>10. v \in Op => cells[c].val = v /\ cells[c].deq = t BY <1>4, <1>6, Nulls
  <1>11. ASSUME v \in Op, NEW o \in Op, result[o] = v PROVE FALSE
    BY <1>3, <1>10, <1>11, NotGiven, <1>2 DEF Bar, Number
  <1>12. v \in Op => /\ cells'[c] # Null /\ cells'[c].val = v /\ cells'[c].deq # Null
                     /\ cells'[c].deq \in Thread => cells'[c].deq = t
                     /\ c < popIndex
                     /\ \A o \in Op : result[o] # v
    BY <1>3, <1>8, <1>10, <1>11, Nulls
  <1>13. UNCHANGED <<putIndex, popIndex, ring, nodes, putNode, popNode, enq, deq, handles, program, calls>>
    BY DEF SlowGot, shared
  <1>14. ~(deq[t].idx >= 0) BY <1>2
  <1> HIDE <1>8
  <1>15. QED BY <1>2, <1>7, <1>9, <1>12, <1>13, <1>14, GotStep

\* help_deq has returned, and the dequeue is over.
LEMMA DequeuedStep ==
    ASSUME IInv, Bounded, NEW t \in Thread, Dequeued(t)
    PROVE  IInv'
  <1>1. pc[t] = "dequeued" BY DEF Dequeued
  <1>2. Away(t) /\ InCall(t) /\ Registered(t) /\ ~Asking(t)
    BY <1>1 DEF Away, InPut, Fast, Open, Pc, FastPcs, OpenPcs, InCall, Registered, Asking, Answering,
                Helping, SeekPcs, HelpPcs, NodePcs
  <1>3. TypeInv /\ DeqInv(t) /\ RingInv BY DEF IInv, Own, Whole
  <1>4. ~(deq[t].idx >= 0) BY <1>2, <1>3 DEF DeqInv
  <1>5. dh \in [Thread -> Thread] /\ dh[t] \in RingSet /\ ring \in Seq(Thread)
    BY <1>2, <1>3 DEF TypeInv, RingInv
  <1>6. PICK h \in Thread : h = NextHandle(dh[t]) /\ h \in RingSet BY <1>5, NextIs
  <1>7. dh' = [dh EXCEPT ![t] = h] BY <1>6 DEF Dequeued
  <1>8. dh' \in [Thread -> Thread] /\ (\A u \in Thread \ {t} : dh'[u] = dh[u]) /\ dh'[t] \in RingSet
    BY <1>5, <1>6, <1>7
  <1>9. PICK l \in {"idle", "askIdx"}, f \in Local :
            l = "idle" /\ f = Blank /\ pc' = [pc EXCEPT ![t] = l] /\ local' = [local EXCEPT ![t] = f]
    BY BlankIs DEF Dequeued, Return, Goto
  <1>10. cells' = cells /\ result' = result BY DEF Dequeued, shared, history
  <1>11. cells' \in [Number -> Cell \cup {Null}] /\ AllSigns /\ result' \in [Op -> Item \cup {Null, None}]
    BY <1>3, <1>10 DEF TypeInv, AllSigns, Signs
  <1>12. \A o \in Op : Fresh(o) BY <1>10 DEF Fresh
  <1>13. UNCHANGED <<putIndex, popIndex, ring, nodes, putNode, popNode, enq, deq, eh, program, calls>>
    BY DEF Dequeued, shared, history
  <1>14. (l = "idle" => f = Blank) /\ (l = "askIdx" => f.ph \in Thread /\ f.then = "dequeued")
    BY <1>9
  <1> HIDE <1>7, <1>10
  <1>15. QED BY <1>2, <1>4, <1>8, <1>9, <1>11, <1>12, <1>13, <1>14, DeqEnds

\* Steps with which a dequeue, or its request, begins.
LEMMA DeqStarts ==
    ASSUME IInv, Bounded, NEW t \in Thread, NEW l \in PcLabels, NEW f \in Local,
           pc' = [pc EXCEPT ![t] = l], local' = [local EXCEPT ![t] = f],
           Away(t), Registered(t), l \notin FastPcs \cup OpenPcs \cup {"chasePut"},
           InCall(t) \/ calls'[t] # 0, l \notin {"new", "registerPop", "registerRing"},
           UNCHANGED <<putIndex, cells, ring, nodes, putNode, popNode, enq, handles, program, result>>,
           popIndex' \in Nat, popIndex <= popIndex',
           deq' \in [Thread -> [id : Nat, idx : Int]], \A u \in Thread \ {t} : deq'[u] = deq[u],
           calls' \in [Thread -> 0 .. MaxCalls], \A u \in Thread \ {t} : calls'[u] = calls[u],
           calls[t] <= calls'[t], Wish(t),
           HelpInv(t)', ValInv(t)', DrawInv(t)', DeqInv(t)', SeekInv(t)'
    PROVE  IInv'
  <1>1. TypeInv /\ RingInv /\ NodesInv /\ TakenInv /\ TakenOnce BY DEF IInv, Whole
  <1>2. /\ cells' = cells /\ nodes' = nodes /\ popNode' = popNode /\ dh' = dh /\ result' = result
        /\ UNCHANGED <<putIndex, ring, putNode, enq, eh, program>>
    BY DEF handles
  <1>3. /\ cells' \in [Number -> Cell \cup {Null}] /\ nodes' \in [put : Nat, pop : Nat]
        /\ popNode' \in [Thread -> Nat] /\ (\A u \in Thread \ {t} : popNode'[u] = popNode[u])
        /\ dh' \in [Thread -> Thread] /\ (\A u \in Thread \ {t} : dh'[u] = dh[u]) /\ dh'[t] \in RingSet
        /\ result' \in [Op -> Item \cup {Null, None}] /\ AllSigns
        /\ nodes'.put = nodes.put /\ nodes'.pop <= Segment(popIndex)
    BY <1>1, <1>2 DEF TypeInv, NodesInv, RingInv, AllSigns, Signs
  <1>4. UNCHANGED <<putIndex, ring, putNode, enq, eh, program>> BY <1>2
  <1>5. /\ TypeInv' /\ Alone(t) /\ Away(t)' /\ Registered(t)'
        /\ \A u \in Thread \ {t} : /\ (Drawn(u)' <=> Drawn(u)) /\ (Asking(u)' <=> Asking(u))
                                   /\ (Helping(u)' <=> Helping(u))
    <2>1. InCall(t) \/ l = "idle" \/ calls'[t] # 0 OBVIOUS
    <2> HIDE <1>2
    <2>2. QED BY <1>3, <1>4, <2>1, DeqFrame
  <1>6. AllGrow /\ Ahead BY <1>1, <1>2, <1>3, SignsGrow DEF TypeInv, Ahead
  <1>7. AllWishes
    <2>1. ASSUME NEW u \in Thread PROVE Wish(u) BY <1>5, <1>1, <1>6, WishStill DEF Alone
    <2>2. QED BY <2>1 DEF AllWishes
  <1>8. TakenInv' /\ TakenOnce'
    <2>1. ASSUME NEW o \in Op, result[o] \in Op PROVE Given(result[o])'
      <3>1. PICK v \in Op : v = result[o] BY <2>1
      <3>2. Given(v)' BY <1>1, <1>5, <1>6, <1>7, <2>1, <3>1, TakenStays DEF TakenInv
      <3>3. QED BY <1>2, <3>1, <3>2
    <2>2. QED BY <1>1, <1>2, <2>1 DEF TakenInv, TakenOnce
  <1>9. \A u \in Thread \ {t} : Turns(u) BY DEF Turns
  <1>10. nodes'.pop <= Segment(popIndex')
    <2>1. popIndex \in Nat /\ nodes'.pop \in Nat BY <1>1, <1>3 DEF TypeInv
    <2>2. Segment(popIndex) \in Nat /\ Segment(popIndex') \in Nat /\ Segment(popIndex) <= Segment(popIndex')
      BY <2>1, Segments
    <2>3. QED BY <1>3, <2>1, <2>2
  <1>11. UNCHANGED <<putIndex, ring, putNode, enq, eh>> BY <1>2
  <1> HIDE <1>2
  <1>12. QED BY <1>3, <1>5, <1>7, <1>8, <1>9, <1>10, <1>11, DeqStep

\* The request gets its id.
LEMMA SlowDeqIdStep ==
    ASSUME IInv, Bounded, NEW t \in Thread, SlowDeqId(t)
    PROVE  IInv'
  <1>1. pc[t] = "slowDeqId" BY DEF SlowDeqId
  <1>2. /\ Away(t) /\ InCall(t) /\ Registered(t) /\ TypeInv /\ Drawn(t)
        /\ popNode[t] \in Nat /\ popNode[t] <= Segment(local[t].index) /\ Segment(local[t].index) <= Segment(popIndex)
        /\ deq[t].idx < 0 /\ deq[t].id < local[t].index /\ deq[t].id \in Nat
        /\ local[t].index < popIndex /\ local[t].index \in Used .. popIndex - 1 /\ popIndex \in Nat
    BY <1>1, DrawnIs
  <1>3. PICK i \in Nat : i = local[t].index BY <1>1, DrawnIs DEF Number
  <1>4. PICK f \in Local : f = local[t] BY <1>2, LocalIs
  <1>5. PICK l \in PcLabels : l = "slowDeqIdx" BY DEF PcLabels
  <1>6. pc' = [pc EXCEPT ![t] = l] /\ local' = [local EXCEPT ![t] = f] /\ pc'[t] = l /\ local'[t] = f
    BY <1>2, <1>4, <1>5 DEF SlowDeqId, Keep, Goto, TypeInv
  <1>7. deq' = [deq EXCEPT ![t].id = i] BY <1>3 DEF SlowDeqId
  <1>8. /\ deq' \in [Thread -> [id : Nat, idx : Int]] /\ (\A u \in Thread \ {t} : deq'[u] = deq[u])
        /\ deq'[t].id = i /\ deq'[t].idx = deq[t].idx
    BY <1>2, <1>7 DEF TypeInv
  <1>9. /\ UNCHANGED <<putIndex, cells, ring, nodes, putNode, popNode, enq, handles, program, result>>
        /\ popIndex' = popIndex /\ calls' = calls /\ popNode' = popNode
    BY DEF SlowDeqId, history
  <1>10. /\ l \notin FastPcs \cup OpenPcs \cup {"chasePut"} \cup HelpPcs \cup SeekPcs \cup NodePcs
         /\ l \notin {"new", "registerPop", "registerRing", "idle", "popDeq", "seekDeq"}
         /\ l \notin {"popCell", "popNew", "popDeq", "slowDeqId", "slowDone", "slowGot"}
         /\ l \notin RegisterPcs
    BY <1>5 DEF FastPcs, OpenPcs, HelpPcs, SeekPcs, NodePcs, RegisterPcs
  <1>11. ~Drawn(t)' /\ ~Asking(t)' /\ ~Answering(t)' /\ ~Helping(t)'
    BY <1>6, <1>10 DEF Drawn, Asking, Answering, Helping
  <1>12. HelpInv(t)' /\ ValInv(t)' /\ SeekInv(t)'
    BY <1>6, <1>10, <1>11 DEF HelpInv, HelpAt, ValInv, ValAt, SeekInv
  <1>13. popNode'[t] <= Segment(i) /\ popNode'[t] <= Segment(popIndex')
    BY <1>2, Segments, <1>3, <1>9
  <1>14. DrawInv(t)' BY <1>6, <1>10, <1>11, <1>13 DEF DrawInv
  <1>15. DeqInv(t)'
    <2>1. deq'[t].id < popIndex' /\ deq'[t].id >= Used /\ local'[t].index = deq'[t].id
      BY <1>2, <1>3, <1>4, <1>6, <1>8, <1>9
    <2>2. deq'[t].idx < 0 /\ deq'[t].idx \in Int BY <1>2, <1>8
    <2>3. popNode'[t] <= Segment(deq'[t].id) BY <1>8, <1>13
    <2>4. deq'[t].idx >= -popIndex' BY <1>8, <1>9 DEF IInv, Own, DeqInv
    <2>5. QED BY <1>11, <2>1, <2>2, <2>3, <2>4 DEF DeqInv
  <1>16. Wish(t) BY <1>2, <1>3, <1>8, <1>9, <1>11 DEF Prior, Bound, Bar, Wish
  <1>17. /\ popIndex' \in Nat /\ popIndex <= popIndex'
         /\ calls' \in [Thread -> 0 .. MaxCalls] /\ (\A u \in Thread \ {t} : calls'[u] = calls[u])
         /\ calls[t] <= calls'[t]
    <2>1. calls[t] \in Int BY <1>2, CurrentIs
    <2>2. QED BY <1>2, <1>9, <2>1 DEF TypeInv
  <1>18. UNCHANGED <<putIndex, cells, ring, nodes, putNode, popNode, enq, handles, program, result>>
    BY <1>9
  <1>19. /\ l \notin FastPcs \cup OpenPcs \cup {"chasePut"}
         /\ l \notin {"new", "registerPop", "registerRing"}
    BY <1>10
  <1>20. pc' = [pc EXCEPT ![t] = l] /\ local' = [local EXCEPT ![t] = f] BY <1>6
  <1> HIDE <1>7, <1>9
  <1>21. QED BY <1>2, <1>8, <1>12, <1>14, <1>15, <1>16, <1>17, <1>18, <1>19, <1>20, DeqStarts

\* The request is open: its owner helps it.
LEMMA SlowDeqIdxStep ==
    ASSUME IInv, Bounded, NEW t \in Thread, SlowDeqIdx(t)
    PROVE  IInv'
  <1>1. pc[t] = "slowDeqIdx" BY DEF SlowDeqIdx
  <1>2. TypeInv /\ DeqInv(t) /\ DrawInv(t) BY DEF IInv, Own
  <1>3. /\ local[t].index = deq[t].id /\ deq[t].id >= Used /\ popNode[t] <= Segment(deq[t].id)
        /\ deq[t].id < popIndex /\ deq[t].id \in Nat /\ popIndex \in Nat
        /\ popNode[t] <= Segment(popIndex)
    BY <1>1, <1>2, RequestIs DEF DeqInv, DrawInv, TypeInv
  <1>4. PICK i \in Nat : i = deq[t].id BY <1>3
  <1>5. PICK l \in PcLabels, b \in PcLabels : l = "askIdx" /\ b = "slowDone" BY DEF PcLabels
  <1> DEFINE f == CallFor(Blank, t, b)
  <1>6. f \in Local /\ f.ph = t /\ f.then = b BY StartNotes
  <1>7. pc' = [pc EXCEPT ![t] = l] /\ local' = [local EXCEPT ![t] = f]
    BY <1>5 DEF SlowDeqIdx, Goto, CallFor
  <1> HIDE DEF f
  <1>8. pc'[t] = l /\ local'[t] = f BY <1>2, <1>7 DEF TypeInv
  <1>9. deq' = [deq EXCEPT ![t].idx = i] BY <1>3, <1>4 DEF SlowDeqIdx
  <1>10. /\ deq' \in [Thread -> [id : Nat, idx : Int]] /\ (\A u \in Thread \ {t} : deq'[u] = deq[u])
         /\ deq'[t].id = i /\ deq'[t].idx = i
    <2>1. PICK x \in Int : x = i OBVIOUS
    <2>2. deq' = [deq EXCEPT ![t].idx = x] /\ deq \in [Thread -> [id : Nat, idx : Int]]
      BY <1>2, <1>9, <2>1 DEF TypeInv
    <2>3. /\ deq' \in [Thread -> [id : Nat, idx : Int]] /\ (\A u \in Thread \ {t} : deq'[u] = deq[u])
          /\ deq'[t].id = deq[t].id /\ deq'[t].idx = x
      BY <2>2
    <2>4. QED BY <1>4, <2>1, <2>3
  <1>11. /\ UNCHANGED <<putIndex, cells, ring, nodes, putNode, popNode, enq, handles, program, result>>
         /\ popIndex' = popIndex /\ calls' = calls /\ popNode' = popNode
    BY DEF SlowDeqIdx, history
  <1>12. /\ l \notin FastPcs \cup OpenPcs \cup {"chasePut"} \cup HelpPcs \cup NodePcs
         /\ l \notin {"new", "registerPop", "registerRing", "idle", "popDeq", "seekDeq", "slowDeqIdx"}
         /\ l \notin {"popCell", "popNew", "popDeq", "slowDeqId", "slowDone", "slowGot"}
         /\ l \in SeekPcs /\ l \notin RegisterPcs
    BY <1>5 DEF FastPcs, OpenPcs, HelpPcs, SeekPcs, NodePcs, RegisterPcs
  <1>13. ~Drawn(t)' /\ Asking(t)' /\ ~Answering(t)' /\ Helping(t)'
    BY <1>5, <1>6, <1>8, <1>12 DEF Drawn, Asking, Answering, Helping
  <1>14. HelpInv(t)' /\ ValInv(t)' BY <1>8, <1>12 DEF HelpInv, HelpAt, ValInv, ValAt
  <1>15. SeekInv(t)' BY <1>5, <1>6, <1>8 DEF SeekInv, SeekAt, HelpPcs
  <1>16. DrawInv(t)' BY <1>3, <1>11, <1>8, <1>12, <1>13 DEF DrawInv
  <1>17. DeqInv(t)' BY <1>3, <1>4, <1>10, <1>11, <1>8, <1>12, <1>13 DEF Pending, DeqInv
  <1>18. Wish(t)
    <2>1. pc'[t] # "slowDeqIdx" /\ deq'[t].id = deq[t].id /\ deq[t].id <= deq'[t].id
      BY <1>3, <1>4, <1>8, <1>10, <1>12
    <2>2. \A x \in Nat : Prior(t, x) => Prior(t, x)' BY <1>11, <1>13, <2>1 DEF Prior
    <2>3. \A id, x \in Nat : Bound(t, id, x) => Bound(t, id, x)' BY <1>11, <1>13, <2>1 DEF Bound
    <2>4. \A c \in Nat : Bar(t, c) => Bar(t, c)' BY <1>1, <1>11, <1>13, <2>1 DEF Bar
    <2>5. QED BY <1>1, <2>1, <2>2, <2>3, <2>4 DEF Wish
  <1>19. /\ popIndex' \in Nat /\ popIndex <= popIndex'
         /\ calls' \in [Thread -> 0 .. MaxCalls] /\ (\A u \in Thread \ {t} : calls'[u] = calls[u])
         /\ calls[t] <= calls'[t]
    BY <1>2, CurrentIs, <1>3, <1>11 DEF TypeInv
  <1>20. UNCHANGED <<putIndex, cells, ring, nodes, putNode, popNode, enq, handles, program, result>>
    BY <1>11
  <1>21. /\ l \notin FastPcs \cup OpenPcs \cup {"chasePut"}
         /\ l \notin {"new", "registerPop", "registerRing"}
    BY <1>12
  <1>22. Away(t) /\ InCall(t) /\ Registered(t)
    BY <1>1 DEF Away, InPut, Fast, Open, Pc, FastPcs, OpenPcs, InCall, Registered
  <1> HIDE <1>9, <1>11
  <1>23. QED
    BY <1>6, <1>7, <1>10, <1>14, <1>15, <1>16, <1>17, <1>18, <1>19, <1>20, <1>21, <1>22, DeqStarts

\* A dequeue draws its index.
DrawAt(g, i, n, b) == [g EXCEPT !.index = i, !.i = i, !.dp = n, !.cell = i, !.back = b]

LEMMA DrawNotes ==
    \A i \in Int, n \in Nat, b \in PcLabels :
        LET f == DrawAt(Blank, i, n, b)
        IN  /\ f \in Local /\ f.index = i /\ f.i = i /\ f.dp = n /\ f.cell = i /\ f.back = b
            /\ f.then = Blank.then
  <1>1. PICK g \in Local : g = Blank BY BlankIs
  <1>2. \A i \in Int, n \in Nat, b \in PcLabels :
        LET f == DrawAt(g, i, n, b)
        IN  /\ f \in Local /\ f.index = i /\ f.i = i /\ f.dp = n /\ f.cell = i /\ f.back = b
            /\ f.then = g.then
    <2>1. ASSUME NEW i \in Int, NEW n \in Nat, NEW b \in PcLabels PROVE DrawAt(g, i, n, b) \in Local
      BY DEF Local, DrawAt
    <2>2. ASSUME NEW i \in Int, NEW n \in Nat, NEW b \in PcLabels PROVE LET f == DrawAt(g, i, n, b)
                 IN  f.index = i /\ f.i = i /\ f.dp = n /\ f.cell = i /\ f.back = b /\ f.then = g.then
      BY DEF Local, DrawAt
    <2>3. QED BY <2>1, <2>2
  <1>3. QED BY <1>1, <1>2

LEMMA DequeueStep ==
    ASSUME IInv, Bounded, NEW t \in Thread, Dequeue(t)
    PROVE  IInv'
  <1>1. TypeInv /\ DeqInv(t) /\ DrawInv(t) BY DEF IInv, Own
  <1>2. /\ pc[t] = "idle" /\ calls[t] \in Nat /\ calls'[t] = calls[t] + 1
        /\ calls' \in [Thread -> 0 .. MaxCalls] /\ (\A u \in Thread \ {t} : calls'[u] = calls[u])
    BY <1>1, BeginsIs DEF Dequeue
  <1>3. /\ popIndex \in Nat /\ Used <= popIndex /\ Used \in Nat /\ popNode[t] \in Nat
        /\ popNode[t] <= Segment(popIndex) /\ local[t] = Blank /\ popIndex < Cells /\ Cells \in Nat
    BY <1>1, <1>2, RequestIs, Nulls DEF TypeInv, DrawInv, Bounded
  <1>4. PICK i \in Nat : i = popIndex BY <1>3
  <1>5. PICK n \in Nat : n = Segment(i) BY Segments
  <1>6. FindCell(popNode[t], popIndex) = n /\ At(n, popIndex) = i BY <1>3, <1>4, <1>5, Segments
  <1>7. PICK l \in PcLabels, b \in PcLabels : l = "popCell" /\ b = "popDeq" BY DEF PcLabels
  <1> DEFINE f == DrawAt(Blank, i, n, b)
  <1>8. /\ f \in Local /\ f.index = i /\ f.i = i /\ f.dp = n /\ f.cell = i /\ f.back = b
        /\ f.then = Blank.then
    <2>1. i \in Int OBVIOUS
    <2> HIDE DEF f
    <2>2. QED BY <2>1, DrawNotes DEF f
  <1>9. pc' = [pc EXCEPT ![t] = l] /\ local' = [local EXCEPT ![t] = f]
    BY <1>1, <1>4, <1>6, <1>7, <1>3 DEF Dequeue, DrawAt, TypeInv, Goto
  <1>10. f.then = "idle" BY <1>8 DEF Blank
  <1> HIDE DEF f
  <1>11. pc'[t] = l /\ local'[t] = f BY <1>1, <1>9 DEF TypeInv
  <1>12. /\ UNCHANGED <<putIndex, cells, ring, nodes, putNode, popNode, enq, handles, program, result>>
         /\ popIndex' = popIndex + 1 /\ popNode' = popNode /\ deq' = deq /\ cells' = cells
    BY DEF Dequeue
  <1>13. /\ l \notin FastPcs \cup OpenPcs \cup {"chasePut"} \cup HelpPcs \cup NodePcs \cup SeekPcs
         /\ l \notin {"new", "registerPop", "registerRing", "idle", "popDeq", "seekDeq", "slowDeqIdx"}
         /\ l \notin {"slowDone", "slowGot"} /\ l \in {"popCell", "popNew"} /\ l \notin RegisterPcs
    BY <1>7 DEF FastPcs, OpenPcs, HelpPcs, SeekPcs, NodePcs, RegisterPcs
  <1>14. Drawn(t)' /\ ~Asking(t)' /\ ~Answering(t)' /\ ~Helping(t)'
    BY <1>11, <1>13 DEF Drawn, Asking, Answering, Helping
  <1>15. HelpInv(t)' /\ ValInv(t)' /\ SeekInv(t)'
    BY <1>11, <1>13, <1>14 DEF HelpInv, HelpAt, ValInv, ValAt, SeekInv
  <1>16. /\ deq[t].id \in Nat /\ deq[t].idx \in Int /\ deq[t].id < popIndex /\ ~(deq[t].idx >= 0)
    BY <1>2, <1>1, RequestIs DEF Asking, Answering, Helping, SeekPcs, HelpPcs, NodePcs, DeqInv
  <1>17. popIndex' \in Nat /\ popIndex <= popIndex' /\ i \in Used .. popIndex' - 1 /\ i < popIndex'
    BY <1>3, <1>4, <1>12
  <1>18. DrawInv(t)'
    <2>1. popNode'[t] <= Segment(i) BY <1>3, <1>4, <1>12
    <2>2. popNode'[t] <= Segment(popIndex') BY <1>17, Segments, <1>3, <1>12, <2>1
    <2>3. deq'[t].idx < 0 /\ deq'[t].id < i BY <1>4, <1>12, <1>16
    <2>4. QED BY <1>5, <1>7, <1>8, <1>10, <1>11, <1>13, <1>17, <2>1, <2>2, <2>3 DEF DrawInv
  <1>19. DeqInv(t)' BY <1>3, <1>12, <1>16, <1>1, <1>11, <1>13, <1>14 DEF DeqInv
  <1>20. Wish(t)
    <2>1. \A x \in Nat : x < popIndex => x < popIndex' /\ x < local'[t].index
      BY <1>3, <1>4, <1>8, <1>11, <1>12
    <2>2. \A x \in Nat : Prior(t, x) => Prior(t, x)' BY <1>11, <1>13, <2>1 DEF Prior
    <2>3. \A id, x \in Nat : Bound(t, id, x) => Bound(t, id, x)' BY <1>12, <2>1 DEF Bound
    <2>4. \A c \in Nat : Bar(t, c) => Bar(t, c)' BY <1>11, <1>13, <1>14, <2>1 DEF Bar
    <2>5. \A x \in Number : Cand(t, x) => Cand(t, x)' BY <1>12 DEF Cand
    <2>6. deq[t].id <= deq'[t].id BY <1>12, <1>16
    <2>7. QED BY <1>11, <1>12, <1>13, <2>2, <2>3, <2>4, <2>5, <2>6 DEF Wish
  <1>21. calls[t] <= calls'[t] /\ calls'[t] # 0 BY <1>2
  <1>22. UNCHANGED <<putIndex, cells, ring, nodes, putNode, popNode, enq, handles, program, result>>
    BY <1>12
  <1>23. /\ deq' \in [Thread -> [id : Nat, idx : Int]] /\ (\A u \in Thread \ {t} : deq'[u] = deq[u])
    BY <1>1, <1>12 DEF TypeInv
  <1>24. /\ l \notin FastPcs \cup OpenPcs \cup {"chasePut"}
         /\ l \notin {"new", "registerPop", "registerRing"}
    BY <1>13
  <1>25. Away(t) /\ Registered(t)
    BY <1>2 DEF Away, InPut, Fast, Open, Pc, FastPcs, OpenPcs, Registered
  <1>26. f \in Local /\ popIndex' \in Nat /\ popIndex <= popIndex' BY <1>8, <1>17
  <1> HIDE <1>8, <1>12
  <1>27. QED
    BY <1>2, <1>9, <1>15, <1>18, <1>19, <1>20, <1>21, <1>22, <1>23, <1>24, <1>25, <1>26, DeqStarts

-----------------------------------------------------------------------------
(* Steps of register.                                                      *)

LEMMA RegisterSteps ==
    ASSUME IInv, Bounded, NEW t \in Thread, pc[t] \in RegisterPcs,
           NEW l \in (RegisterPcs \ {"new"}) \cup {"idle"}, Keep(t, l),
           UNCHANGED <<putIndex, popIndex, cells, nodes, enq, deq, history>>,
           putNode' \in [Thread -> Nat], \A u \in Thread \ {t} : putNode'[u] = putNode[u],
           putNode'[t] <= Segment(putIndex),
           popNode' \in [Thread -> Nat], \A u \in Thread \ {t} : popNode'[u] = popNode[u],
           popNode'[t] <= Segment(popIndex),
           ring' \in Seq(Thread), RingSet \subseteq RingSet',
           eh' \in [Thread -> Thread], \A u \in Thread \ {t} : eh'[u] = eh[u],
           dh' \in [Thread -> Thread], \A u \in Thread \ {t} : dh'[u] = dh[u],
           Registered(t)' => {t, eh'[t], dh'[t]} \subseteq RingSet',
           ~Registered(t)' => eh'[t] = t /\ dh'[t] = t
    PROVE  IInv'
  <1>1. TypeInv /\ Whole /\ Own(t) BY DEF IInv
  <1>2. /\ l \in PcLabels /\ l \in RegisterPcs \cup {"idle"} /\ l # "chasePut"
        /\ l \notin FastPcs \cup OpenPcs \cup HelpPcs \cup SeekPcs \cup NodePcs
        /\ l \notin {"popCell", "popNew", "popDeq", "slowDeqId", "slowDeqIdx", "slowDone", "slowGot", "seekDeq"}
    BY DEF RegisterPcs, PcLabels, FastPcs, OpenPcs, HelpPcs, SeekPcs, NodePcs
  <1>3. /\ pc[t] # "chasePut" /\ pc[t] \notin FastPcs \cup OpenPcs \cup HelpPcs \cup SeekPcs \cup NodePcs
        /\ pc[t] \notin {"popCell", "popNew", "popDeq", "slowDeqId", "slowDeqIdx", "slowDone", "slowGot"}
    BY DEF RegisterPcs, FastPcs, OpenPcs, HelpPcs, SeekPcs, NodePcs
  <1>4. /\ pc' = [pc EXCEPT ![t] = l] /\ local' = local
        /\ pc'[t] = l /\ pc' \in [Thread -> PcLabels] /\ (\A u \in Thread \ {t} : pc'[u] = pc[u])
    BY <1>1, <1>2, Moves DEF Keep, Goto
  <1>5. /\ putIndex' = putIndex /\ popIndex' = popIndex /\ cells' = cells /\ nodes' = nodes /\ enq' = enq
        /\ deq' = deq /\ program' = program /\ calls' = calls /\ result' = result
    BY DEF history
  <1>6. Alone(t) BY <1>4, <1>5 DEF Alone
  <1>7. TypeInv'
    <2>1. ASSUME NEW u \in Thread, InCall(u)' PROVE calls'[u] # 0
      BY <1>2, <1>4, <2>1, <1>6, Status, <1>1, <1>5 DEF InCall, Registered, RegisterPcs, Alone, TypeInv
    <2>2. QED BY <1>1, <1>4, <1>5, <2>1 DEF TypeInv
  <1>8. Away(t) /\ Away(t)' /\ ~Drawn(t) /\ ~Drawn(t)' /\ ~Asking(t) /\ ~Asking(t)'
        /\ ~Answering(t)' /\ ~Helping(t)'
    BY <1>2, <1>3, <1>4 DEF Away, InPut, Fast, Open, Pc, Drawn, Asking, Answering, Helping
  <1>9. Ahead /\ AllGrow
    <2>1. putIndex \in Nat /\ popIndex \in Nat BY <1>1 DEF TypeInv
    <2>2. QED BY <1>5, <2>1 DEF Ahead, AllGrow, Grows
  <1>10. AllRequests BY <1>6, <1>8, <1>5, <1>1, <1>7, <1>9, RequestStill DEF Alone, AllRequests
  <1>11. AllWishes
    <2>1. ASSUME NEW u \in Thread PROVE Wish(u)
      <3>1. /\ Drawn(u)' => Drawn(u) /\ local'[u].index = local[u].index
            /\ pc'[u] = "slowDeqIdx" => pc[u] = "slowDeqIdx"
            /\ Asking(u)' => Asking(u)
        BY <1>2, <1>4, <1>8, <1>6, Status DEF Alone
      <3>2. deq'[u] = deq[u] BY <1>5
      <3>3. QED BY <1>1, <1>7, <1>9, <3>1, <3>2, WishStill
    <2>2. QED BY <2>1 DEF AllWishes
  <1>12. Apart(t) BY <1>5, <1>6 DEF Apart, Alone
  <1>13. PutInv(t)' BY <1>2, <1>4, <1>5, <1>8 DEF Pc, FastPcs, OpenPcs, Away, PutInv
  <1>14. ReqInv(t)' BY <1>1, <1>5, <1>8, <1>9, ReqAway DEF Own
  <1>15. HelpInv(t)' /\ ValInv(t)' /\ SeekInv(t)'
    BY <1>2, <1>4, <1>8 DEF HelpInv, HelpAt, ValInv, ValAt, SeekInv
  <1>16. DrawInv(t)' BY <1>1, <1>4, <1>5, <1>8 DEF Own, DrawInv
  <1>17. DeqInv(t)' BY <1>1, <1>2, <1>4, <1>5, <1>8 DEF Own, DeqInv
  <1>18. ItemInv'
    <2>1. ASSUME NEW c \in Number, cells'[c] # Null PROVE ItemAt(c)'
      <3>1. Placed(t, c)' BY <1>8 DEF Placed, Away
      <3>2. putIndex <= putIndex' /\ calls[t] <= calls'[t] /\ cells'[c] = cells[c] /\ enq' = enq
        BY <1>1, CurrentIs, <1>5 DEF TypeInv
      <3>3. QED BY <1>6, <1>7, <2>1, <3>1, <3>2, ItemStays
    <2>2. QED BY <2>1 DEF ItemInv
  <1>19. OneCell' /\ TakenOnce' /\ NodesInv' BY <1>1, <1>5 DEF Whole, OneCell, TakenOnce, NodesInv
  <1>20. TakenInv'
    <2>1. ASSUME NEW o \in Op, result[o] \in Op PROVE Given(result[o])'
      <3>1. PICK v \in Op : v = result[o] BY <2>1
      <3>2. Given(v)' BY <1>1, <1>7, <1>9, <1>11, <2>1, <3>1, TakenStays DEF Whole, TakenInv
      <3>3. QED BY <1>5, <3>1, <3>2
    <2>2. QED BY <1>5, <2>1 DEF TakenInv
  <1>21. RingInv'
    <2>1. ASSUME NEW u \in Thread, Registered(u)' PROVE {u, eh'[u], dh'[u]} \subseteq RingSet'
      <3>1. CASE u = t BY <2>1, <3>1
      <3>2. CASE u # t
        <4>1. Registered(u) BY <1>4, <2>1, <3>2 DEF Registered
        <4>2. QED BY <1>1, <3>2, <4>1 DEF Whole, RingInv
      <3>3. QED BY <3>1, <3>2
    <2>2. ASSUME NEW u \in Thread, ~Registered(u)' PROVE eh'[u] = u /\ dh'[u] = u
      BY <2>2, <1>4, <1>1 DEF Registered, Whole, RingInv
    <2>3. QED BY <2>1, <2>2 DEF RingInv
  <1>22. QED
    BY <1>7, <1>9, <1>10, <1>11, <1>12, <1>13, <1>14, <1>15, <1>16, <1>17, <1>18, <1>19, <1>20, <1>21,
       StepIs DEF Effects, Own

LEMMA RegisterPutStep ==
    ASSUME IInv, Bounded, NEW t \in Thread, RegisterPut(t) \/ RegisterPop(t)
    PROVE  IInv'
  <1>1. TypeInv /\ NodesInv /\ PutInv(t) /\ DrawInv(t) /\ RingInv BY DEF IInv, Whole, Own
  <1>2. /\ putNode \in [Thread -> Nat] /\ popNode \in [Thread -> Nat] /\ nodes.put \in Nat /\ nodes.pop \in Nat
        /\ nodes.put <= Segment(putIndex) /\ nodes.pop <= Segment(popIndex)
        /\ putNode[t] <= Segment(putIndex) /\ popNode[t] <= Segment(popIndex)
        /\ ring \in Seq(Thread) /\ eh \in [Thread -> Thread] /\ dh \in [Thread -> Thread]
        /\ pc \in [Thread -> PcLabels]
    BY <1>1 DEF TypeInv, NodesInv, PutInv, DrawInv
  <1>3. pc[t] \in {"new", "registerPop"} /\ pc[t] \in RegisterPcs
    BY DEF RegisterPut, RegisterPop, RegisterPcs
  <1>4. PICK l \in (RegisterPcs \ {"new"}) \cup {"idle"} : l \in {"registerPop", "registerRing"} /\ Keep(t, l)
    BY DEF RegisterPut, RegisterPop, RegisterPcs
  <1>5. /\ UNCHANGED <<putIndex, popIndex, cells, nodes, enq, deq, history>>
        /\ ring' = ring /\ eh' = eh /\ dh' = dh
    BY DEF RegisterPut, RegisterPop, handles
  <1>6. /\ putNode' \in [Thread -> Nat] /\ (\A u \in Thread \ {t} : putNode'[u] = putNode[u])
        /\ putNode'[t] <= Segment(putIndex)
        /\ popNode' \in [Thread -> Nat] /\ (\A u \in Thread \ {t} : popNode'[u] = popNode[u])
        /\ popNode'[t] <= Segment(popIndex)
    BY <1>2 DEF RegisterPut, RegisterPop
  <1>7. ~Registered(t)' /\ eh'[t] = t /\ dh'[t] = t
    BY <1>1, <1>2, <1>3, <1>4, <1>5 DEF Keep, Goto, Registered, RingInv
  <1>8. /\ ring' \in Seq(Thread) /\ RingSet \subseteq RingSet'
        /\ eh' \in [Thread -> Thread] /\ (\A u \in Thread \ {t} : eh'[u] = eh[u])
        /\ dh' \in [Thread -> Thread] /\ (\A u \in Thread \ {t} : dh'[u] = dh[u])
    BY <1>2, <1>5 DEF RingSet
  <1>9. UNCHANGED <<putIndex, popIndex, cells, nodes, enq, deq, history>> BY <1>5
  <1> HIDE <1>5
  <1>10. QED BY <1>3, <1>4, <1>6, <1>7, <1>8, <1>9, RegisterSteps

LEMMA RegisterRingStep ==
    ASSUME IInv, Bounded, NEW t \in Thread, RegisterRing(t)
    PROVE  IInv'
  <1>1. TypeInv /\ PutInv(t) /\ DrawInv(t) /\ RingInv BY DEF IInv, Whole, Own
  <1>2. /\ putNode \in [Thread -> Nat] /\ popNode \in [Thread -> Nat]
        /\ putNode[t] <= Segment(putIndex) /\ popNode[t] <= Segment(popIndex)
        /\ ring \in Seq(Thread) /\ eh \in [Thread -> Thread] /\ dh \in [Thread -> Thread]
        /\ pc \in [Thread -> PcLabels]
    BY <1>1 DEF TypeInv, PutInv, DrawInv
  <1>3. pc[t] = "registerRing" /\ pc[t] \in RegisterPcs BY DEF RegisterRing, RegisterPcs
  <1>4. PICK l \in (RegisterPcs \ {"new"}) \cup {"idle"} : l = "registerHelp" /\ Keep(t, l)
    BY DEF RegisterRing, RegisterPcs
  <1>5. ring' = IF ring = <<>> THEN <<t>> ELSE <<ring[1], t>> \o Tail(ring) BY DEF RegisterRing
  <1>6. ring' \in Seq(Thread) /\ RingSet \subseteq RingSet' /\ t \in RingSet'
    <2>1. CASE ring = <<>> BY <1>5, <2>1 DEF RingSet
    <2>2. CASE ring # <<>>
      <3>1. ring' = <<ring[1], t>> \o Tail(ring) BY <1>5, <2>2
      <3>2. Len(ring) \in Nat \ {0} /\ ring[1] \in Thread BY <1>2, <2>2
      <3>3. /\ Tail(ring) \in Seq(Thread) /\ Len(Tail(ring)) = Len(ring) - 1
            /\ \A k \in 1 .. Len(ring) - 1 : Tail(ring)[k] = ring[k + 1]
        BY <1>2, <2>2
      <3>4. PICK s \in Seq(Thread) : s = Tail(ring) BY <3>3
      <3>5. PICK h \in Seq(Thread) : h = <<ring[1], t>> /\ Len(h) = 2 /\ h[1] = ring[1] /\ h[2] = t
        <4>1. PICK x \in Thread : x = ring[1] BY <3>2
        <4>2. <<x, t>> \in Seq(Thread) /\ Len(<<x, t>>) = 2 /\ <<x, t>>[1] = x /\ <<x, t>>[2] = t
          OBVIOUS
        <4>3. QED BY <4>1, <4>2
      <3>6. /\ h \o s \in Seq(Thread) /\ Len(h \o s) = Len(h) + Len(s)
            /\ \A k \in 1 .. Len(h) : (h \o s)[k] = h[k]
            /\ \A k \in Len(h) + 1 .. Len(h) + Len(s) : (h \o s)[k] = s[k - Len(h)]
        OBVIOUS
      <3>7. /\ ring' \in Seq(Thread) /\ Len(ring') = Len(ring) + 1
            /\ ring'[1] = ring[1] /\ ring'[2] = t
            /\ \A k \in 3 .. Len(ring) + 1 : ring'[k] = ring[k - 1]
        BY <3>1, <3>3, <3>4, <3>5, <3>2, <3>6
      <3>8. ASSUME NEW k \in 1 .. Len(ring) PROVE \E m \in 1 .. Len(ring') : ring'[m] = ring[k]
        <4>1. CASE k = 1 BY <3>2, <3>7, <4>1
        <4>2. CASE k # 1
          <5>1. k + 1 \in 3 .. Len(ring) + 1 /\ (k + 1) - 1 = k BY <3>2, <4>2
          <5>2. ring'[k + 1] = ring[k] BY <3>7, <5>1
          <5>3. QED BY <3>2, <3>7, <5>1, <5>2
        <4>3. QED BY <4>1, <4>2
      <3>9. 2 \in 1 .. Len(ring') BY <3>2, <3>7
      <3>10. RingSet \subseteq RingSet' BY <3>8 DEF RingSet
      <3>11. t \in RingSet' BY <3>7, <3>9 DEF RingSet
      <3>12. QED BY <3>7, <3>10, <3>11
    <2>3. QED BY <2>1, <2>2
  <1>7. /\ UNCHANGED <<putIndex, popIndex, cells, nodes, enq, deq, history>>
        /\ putNode' = putNode /\ popNode' = popNode /\ eh' = eh /\ dh' = dh
    BY DEF RegisterRing, handles
  <1>8. /\ putNode' \in [Thread -> Nat] /\ (\A u \in Thread \ {t} : putNode'[u] = putNode[u])
        /\ putNode'[t] <= Segment(putIndex)
        /\ popNode' \in [Thread -> Nat] /\ (\A u \in Thread \ {t} : popNode'[u] = popNode[u])
        /\ popNode'[t] <= Segment(popIndex)
        /\ eh' \in [Thread -> Thread] /\ (\A u \in Thread \ {t} : eh'[u] = eh[u])
        /\ dh' \in [Thread -> Thread] /\ (\A u \in Thread \ {t} : dh'[u] = dh[u])
    BY <1>2, <1>7
  <1>9. eh'[t] = t /\ dh'[t] = t BY <1>1, <1>3, <1>7 DEF RingInv, Registered
  <1>10. UNCHANGED <<putIndex, popIndex, cells, nodes, enq, deq, history>> BY <1>7
  <1>11. ring' \in Seq(Thread) /\ RingSet \subseteq RingSet' /\ {t, eh'[t], dh'[t]} \subseteq RingSet'
    BY <1>6, <1>9
  <1> HIDE <1>5, <1>7
  <1>12. QED BY <1>3, <1>4, <1>8, <1>9, <1>10, <1>11, RegisterSteps

LEMMA RegisterHelpStep ==
    ASSUME IInv, Bounded, NEW t \in Thread, RegisterHelp(t) \/ RegisterDeq(t)
    PROVE  IInv'
  <1>1. TypeInv /\ PutInv(t) /\ DrawInv(t) /\ RingInv BY DEF IInv, Whole, Own
  <1>2. /\ putNode \in [Thread -> Nat] /\ popNode \in [Thread -> Nat]
        /\ putNode[t] <= Segment(putIndex) /\ popNode[t] <= Segment(popIndex)
        /\ ring \in Seq(Thread) /\ eh \in [Thread -> Thread] /\ dh \in [Thread -> Thread]
        /\ pc \in [Thread -> PcLabels]
    BY <1>1 DEF TypeInv, PutInv, DrawInv
  <1>3. pc[t] \in {"registerHelp", "registerDeq"} /\ pc[t] \in RegisterPcs /\ Registered(t)
    BY DEF RegisterHelp, RegisterDeq, RegisterPcs, Registered
  <1>4. PICK l \in (RegisterPcs \ {"new"}) \cup {"idle"} : l \in {"registerDeq", "idle"} /\ Keep(t, l)
    BY DEF RegisterHelp, RegisterDeq, RegisterPcs
  <1>5. {t, eh[t], dh[t]} \subseteq RingSet BY <1>1, <1>3 DEF RingInv
  <1>6. PICK h \in Thread : h = NextHandle(t) /\ h \in RingSet BY <1>2, <1>5, NextIs
  <1>7. /\ UNCHANGED <<putIndex, popIndex, cells, nodes, enq, deq, history>>
        /\ ring' = ring /\ putNode' = putNode /\ popNode' = popNode
    BY DEF RegisterHelp, RegisterDeq, shared
  <1>8. /\ eh' \in [Thread -> Thread] /\ (\A u \in Thread \ {t} : eh'[u] = eh[u])
        /\ dh' \in [Thread -> Thread] /\ (\A u \in Thread \ {t} : dh'[u] = dh[u])
        /\ eh'[t] \in RingSet /\ dh'[t] \in RingSet
    <2>1. CASE RegisterHelp(t) BY <1>6, <2>1, <1>2, <1>5 DEF RegisterHelp
    <2>2. CASE RegisterDeq(t) BY <1>6, <2>2, <1>2, <1>5 DEF RegisterDeq
    <2>3. QED BY <2>1, <2>2
  <1>9. /\ putNode' \in [Thread -> Nat] /\ (\A u \in Thread \ {t} : putNode'[u] = putNode[u])
        /\ putNode'[t] <= Segment(putIndex)
        /\ popNode' \in [Thread -> Nat] /\ (\A u \in Thread \ {t} : popNode'[u] = popNode[u])
        /\ popNode'[t] <= Segment(popIndex) /\ ring' \in Seq(Thread) /\ RingSet' = RingSet
    BY <1>2, <1>7 DEF RingSet
  <1>10. RingSet \subseteq RingSet' /\ {t, eh'[t], dh'[t]} \subseteq RingSet' BY <1>5, <1>8, <1>9
  <1>11. Registered(t)' BY <1>2, <1>4 DEF Keep, Goto, Registered
  <1>12. UNCHANGED <<putIndex, popIndex, cells, nodes, enq, deq, history>> BY <1>7
  <1> HIDE <1>7
  <1>13. QED BY <1>3, <1>4, <1>8, <1>9, <1>10, <1>11, <1>12, RegisterSteps

-----------------------------------------------------------------------------
(* The theorems.                                                           *)

LEMMA InitIs ==
    ASSUME Used > 0, Bounded, Init
    PROVE  IInv
  <1>1. /\ putIndex = Used /\ popIndex = Used /\ Used \in Nat /\ Cells \in Nat /\ Used < Cells
        /\ MaxCalls \in Nat
    BY Nulls DEF Init, Bounded
  <1>2. PICK n \in Nat : n = Segment(Used - 1) /\ n <= Segment(Used) BY <1>1, Segments
  <1>3. nodes = [put |-> n, pop |-> n] BY <1>1, <1>2 DEF Init, Later
  <1>4. PICK r \in Cell : /\ r = [val |-> Old, enq |-> Null, deq |-> Top]
                          /\ r.val = Old /\ r.enq = Null
    <2>1. Old \in Item \cup {Null, Top} /\ Null \in Thread \cup {Null, Top} /\ Top \in Thread \cup {Null, Top}
      BY DEF Item
    <2>2. [val |-> Old, enq |-> Null, deq |-> Top] \in Cell BY <2>1 DEF Cell
    <2>3. /\ [val |-> Old, enq |-> Null, deq |-> Top].val = Old
          /\ [val |-> Old, enq |-> Null, deq |-> Top].enq = Null
      OBVIOUS
    <2>4. QED BY <2>2, <2>3
  <1>5. cells = [i \in Number |-> IF i < Used THEN r ELSE Null] BY <1>4 DEF Init, Number
  <1>6. \A c \in Number : cells[c] # Null => cells[c] = r /\ c < Used BY <1>5
  <1>7. \A t \in Thread : /\ pc[t] = "new" /\ local[t] = Blank /\ putNode[t] = 0 /\ popNode[t] = 0
                          /\ enq[t].id = 0 /\ deq[t].id = 0 /\ deq[t].idx = -1
                          /\ eh[t] = t /\ dh[t] = t
    BY DEF Init
  <1>8. ASSUME NEW t \in Thread
        PROVE  /\ Away(t) /\ ~Drawn(t) /\ ~Asking(t) /\ ~Answering(t) /\ ~Helping(t)
               /\ ~Registered(t) /\ ~InCall(t)
    BY <1>7 DEF Away, InPut, Fast, Open, Pc, FastPcs, OpenPcs, Drawn, Asking, Answering, Helping, NodePcs,
                HelpPcs, SeekPcs, Registered, InCall
  <1>9. TypeInv
    <2>1. cells \in [Number -> Cell \cup {Null}] BY <1>5
    <2>2. nodes \in [put : Nat, pop : Nat] BY <1>3
    <2>3. /\ putNode \in [Thread -> Nat] /\ popNode \in [Thread -> Nat]
          /\ eh \in [Thread -> Thread] /\ dh \in [Thread -> Thread]
          /\ ring \in Seq(Thread) /\ program \in Programs
      BY DEF Init
    <2>4. enq \in [Thread -> [id : Int, val : Item \cup {Null}]] BY DEF Init
    <2>5. deq \in [Thread -> [id : Nat, idx : Int]] BY DEF Init
    <2>6. calls \in [Thread -> 0 .. MaxCalls] /\ result \in [Op -> Item \cup {Null, None}]
      BY <1>1 DEF Init
    <2>7. pc \in [Thread -> PcLabels] /\ local \in [Thread -> Local] BY BlankIs DEF Init, PcLabels
    <2>8. QED BY <1>1, <1>8, <2>1, <2>2, <2>3, <2>4, <2>5, <2>6, <2>7 DEF TypeInv
  <1>10. ItemInv /\ OneCell BY <1>4, <1>6, <1>8, Nulls DEF Placed, Away, ItemAt, ItemInv, OneCell
  <1>11. TakenInv /\ TakenOnce BY Nulls DEF Init, TakenInv, TakenOnce
  <1>12. RingInv BY <1>7, <1>8 DEF RingInv
  <1>13. NodesInv BY <1>1, <1>2, <1>3 DEF NodesInv
  <1>14. Segment(Used) \in Nat BY <1>1, Segments
  <1>15. ASSUME NEW t \in Thread PROVE Own(t)
    <2>1. Pc(t) = "new" /\ ~InPut(t) /\ ~Open(t) BY <1>7, <1>8 DEF Pc, Away, InPut
    <2>2. PutInv(t) BY <1>1, <1>7, <1>14, <2>1 DEF PutInv
    <2>3. ReqInv(t) BY <1>7, <2>1 DEF ReqInv
    <2>4. HelpInv(t) /\ ValInv(t) /\ SeekInv(t)
      BY <1>7, <1>8 DEF HelpInv, HelpAt, HelpPcs, ValInv, ValAt, SeekInv
    <2>5. DrawInv(t) BY <1>1, <1>7, <1>8, <1>14 DEF DrawInv
    <2>6. DeqInv(t) BY <1>1, <1>7, <1>8 DEF DeqInv
    <2>7. QED BY <2>2, <2>3, <2>4, <2>5, <2>6 DEF Own
  <1>16. QED BY <1>9, <1>10, <1>11, <1>12, <1>13, <1>15 DEF IInv, Whole

LEMMA StutterIs ==
    ASSUME IInv, UNCHANGED vars
    PROVE  IInv'
  <1>1. /\ putIndex' = putIndex /\ popIndex' = popIndex /\ cells' = cells /\ ring' = ring
        /\ nodes' = nodes /\ putNode' = putNode /\ popNode' = popNode /\ enq' = enq /\ deq' = deq
        /\ eh' = eh /\ dh' = dh /\ program' = program /\ calls' = calls /\ result' = result
        /\ pc' = pc /\ local' = local
    BY DEF vars, shared, handles, history
  <1>2. ASSUME NEW u \in Thread
        PROVE  /\ Pc(u)' = Pc(u) /\ (Fast(u)' <=> Fast(u)) /\ (Open(u)' <=> Open(u))
               /\ (InPut(u)' <=> InPut(u)) /\ (Helping(u)' <=> Helping(u)) /\ (Drawn(u)' <=> Drawn(u))
               /\ (Answering(u)' <=> Answering(u)) /\ (Asking(u)' <=> Asking(u))
               /\ (InCall(u)' <=> InCall(u)) /\ (Registered(u)' <=> Registered(u))
               /\ Current(u)' = Current(u)
    BY <1>1, Status DEF Current
  <1>3. TypeInv' BY <1>1, <1>2 DEF IInv, TypeInv
  <1>4. ASSUME NEW c \in Number, cells[c] # Null PROVE ItemAt(c)'
    BY <1>4, <1>1, <1>2 DEF IInv, Whole, ItemInv, ItemAt, Placed
  <1>5. ItemInv' /\ OneCell' /\ TakenOnce' /\ NodesInv'
    BY <1>1, <1>4 DEF IInv, Whole, ItemInv, OneCell, TakenOnce, NodesInv
  <1>6. ASSUME NEW v PROVE Given(v)' <=> Given(v) BY <1>1, <1>2 DEF Bar, Given
  <1>7. TakenInv' BY <1>1, <1>6 DEF IInv, Whole, TakenInv
  <1>8. RingInv' BY <1>1, <1>2 DEF IInv, Whole, RingInv, RingSet
  <1>9. ASSUME NEW u \in Thread PROVE Own(u)'
    <2>1. Own(u) BY DEF IInv
    <2>2. PutInv(u)' BY <1>1, <1>2, <2>1 DEF Own, PutInv
    <2>3. ReqInv(u)' BY <1>1, <1>2, <2>1 DEF Own, ReqInv, Claimed
    <2>4. HelpInv(u)' BY <1>1, <1>2, <2>1 DEF Own, HelpInv, HelpAt, Known, Due, HelpPcs
    <2>5. ValInv(u)' BY <1>1, <2>1 DEF Own, ValInv, ValAt
    <2>6. DrawInv(u)' BY <1>1, <1>2, <2>1 DEF Own, DrawInv
    <2>7. DeqInv(u)' BY <1>1, <1>2, <2>1 DEF Own, DeqInv, Pending, Answered
    <2>8. SeekInv(u)' BY <1>1, <1>2, <2>1 DEF Own, SeekInv, SeekAt, Prior, Bound, Cand
    <2>9. QED BY <2>2, <2>3, <2>4, <2>5, <2>6, <2>7, <2>8 DEF Own
  <1>10. QED BY <1>3, <1>5, <1>7, <1>8, <1>9 DEF IInv, Whole

\* Every step keeps the invariant.
PutSteps(t) ==
    \/ RegisterPut(t) \/ RegisterPop(t) \/ RegisterRing(t) \/ RegisterHelp(t)
    \/ RegisterDeq(t) \/ ChasePut(t) \/ PutCell(t) \/ PutNew(t) \/ PutVal(t) \/ PutCas(t)

SlowSteps(t) ==
    \/ SlowVal(t) \/ SlowId(t) \/ SlowTest(t) \/ SlowPut(t) \/ SlowCell(t) \/ SlowNew(t)
    \/ SlowEnq(t) \/ SlowCas(t) \/ SlowClaim(t) \/ SlowEnd(t) \/ SlowRaise(t) \/ SlowSet(t)

HelpSteps(t) ==
    \/ HelpVal(t) \/ HelpSeal(t) \/ HelpLost(t) \/ HelpEnq(t) \/ HelpPeer(t) \/ HelpOffer(t)
    \/ HelpClose(t) \/ HelpEmpty(t) \/ HelpId(t) \/ HelpEv(t) \/ HelpClaim(t) \/ HelpId2(t)
    \/ HelpVal2(t) \/ HelpRaise(t) \/ HelpSet(t) \/ HelpNext(t) \/ HelpDone(t)

PopSteps(t) ==
    \/ PopCell(t) \/ PopNew(t) \/ PopNode(t) \/ ChasePop(t) \/ PopDeq(t) \/ SlowDeqId(t)
    \/ SlowDeqIdx(t) \/ SlowDone(t) \/ SlowGot(t) \/ Dequeued(t)

SeekSteps(t) ==
    \/ AskIdx(t) \/ AskId(t) \/ AskNode(t) \/ AskAgain(t) \/ SeekCell(t) \/ SeekNew(t)
    \/ SeekRaise(t) \/ SeekDeq(t) \/ SeekAgain(t) \/ OfferIdx(t) \/ OfferId(t) \/ OfferCas(t)
    \/ Moved(t) \/ TakeCell(t) \/ Finish(t)

LEMMA PutStepsKeep ==
    ASSUME IInv, Fits, Used > 0, NEW t \in Thread, PutSteps(t)
    PROVE  IInv'
  <1>1. Bounded /\ ClaimsFit /\ ItemsFit /\ OffersFit BY DEF Fits
  <1>2. CASE RegisterPut(t) BY <1>1, <1>2, RegisterPutStep
  <1>3. CASE RegisterPop(t) BY <1>1, <1>3, RegisterPutStep
  <1>4. CASE RegisterRing(t) BY <1>1, <1>4, RegisterRingStep
  <1>5. CASE RegisterHelp(t) BY <1>1, <1>5, RegisterHelpStep
  <1>6. CASE RegisterDeq(t) BY <1>1, <1>6, RegisterHelpStep
  <1>7. CASE ChasePut(t) BY <1>1, <1>7, ChasePutStep
  <1>8. CASE PutCell(t) BY <1>1, <1>8, PutCellStep
  <1>9. CASE PutNew(t) BY <1>1, <1>9, PutNewStep
  <1>10. CASE PutVal(t) BY <1>1, <1>10, PutValStep
  <1>11. CASE PutCas(t) BY <1>1, <1>11, PutCasStep
  <1>12. QED BY <1>2, <1>3, <1>4, <1>5, <1>6, <1>7, <1>8, <1>9, <1>10, <1>11 DEF PutSteps

LEMMA SlowStepsKeep ==
    ASSUME IInv, Fits, Used > 0, NEW t \in Thread, SlowSteps(t)
    PROVE  IInv'
  <1>1. Bounded /\ ClaimsFit /\ ItemsFit /\ OffersFit BY DEF Fits
  <1>2. CASE SlowVal(t) BY <1>1, <1>2, SlowValStep
  <1>3. CASE SlowId(t) BY <1>1, <1>3, SlowIdStep
  <1>4. CASE SlowTest(t) BY <1>1, <1>4, SlowTestStep
  <1>5. CASE SlowPut(t) BY <1>1, <1>5, SlowPutStep
  <1>6. CASE SlowCell(t) BY <1>1, <1>6, SlowCellStep
  <1>7. CASE SlowNew(t) BY <1>1, <1>7, SlowNewStep
  <1>8. CASE SlowEnq(t) BY <1>1, <1>8, SlowEnqStep
  <1>9. CASE SlowCas(t) BY <1>1, <1>9, SlowCasStep
  <1>10. CASE SlowClaim(t) BY <1>1, <1>10, SlowClaimStep
  <1>11. CASE SlowEnd(t) BY <1>1, <1>11, SlowEndStep
  <1>12. CASE SlowRaise(t) BY <1>1, <1>12, SlowRaiseStep
  <1>13. CASE SlowSet(t) BY <1>1, <1>13, SlowSetStep
  <1>14. QED
    BY <1>2, <1>3, <1>4, <1>5, <1>6, <1>7, <1>8, <1>9, <1>10, <1>11, <1>12, <1>13 DEF SlowSteps

LEMMA HelpStepsKeep ==
    ASSUME IInv, Fits, Used > 0, NEW t \in Thread, HelpSteps(t)
    PROVE  IInv'
  <1>1. Bounded /\ ClaimsFit /\ ItemsFit /\ OffersFit BY DEF Fits
  <1>2. CASE HelpVal(t) BY <1>1, <1>2, HelpValStep
  <1>3. CASE HelpSeal(t) BY <1>1, <1>3, HelpSealStep
  <1>4. CASE HelpLost(t) BY <1>1, <1>4, HelpLostStep
  <1>5. CASE HelpEnq(t) BY <1>1, <1>5, HelpEnqStep
  <1>6. CASE HelpPeer(t) BY <1>1, <1>6, HelpPeerStep
  <1>7. CASE HelpOffer(t) BY <1>1, <1>7, HelpOfferStep
  <1>8. CASE HelpClose(t) BY <1>1, <1>8, HelpCloseStep
  <1>9. CASE HelpEmpty(t) BY <1>1, <1>9, HelpEmptyStep
  <1>10. CASE HelpId(t) BY <1>1, <1>10, HelpIdStep
  <1>11. CASE HelpEv(t) BY <1>1, <1>11, HelpEvStep
  <1>12. CASE HelpClaim(t) BY <1>1, <1>12, HelpClaimStep
  <1>13. CASE HelpId2(t) BY <1>1, <1>13, HelpId2Step
  <1>14. CASE HelpVal2(t) BY <1>1, <1>14, HelpVal2Step
  <1>15. CASE HelpRaise(t) BY <1>1, <1>15, HelpRaiseStep
  <1>16. CASE HelpSet(t) BY <1>1, <1>16, HelpSetStep
  <1>17. CASE HelpNext(t) BY <1>1, <1>17, HelpNextStep
  <1>18. CASE HelpDone(t) BY <1>1, <1>18, HelpDoneStep
  <1>19. QED
    BY <1>2, <1>3, <1>4, <1>5, <1>6, <1>7, <1>8, <1>9, <1>10, <1>11, <1>12, <1>13, <1>14, <1>15,
       <1>16, <1>17, <1>18 DEF HelpSteps

LEMMA PopStepsKeep ==
    ASSUME IInv, Fits, Used > 0, NEW t \in Thread, PopSteps(t)
    PROVE  IInv'
  <1>1. Bounded /\ ClaimsFit /\ ItemsFit /\ OffersFit BY DEF Fits
  <1>2. CASE PopCell(t) BY <1>1, <1>2, PopCellStep
  <1>3. CASE PopNew(t) BY <1>1, <1>3, PopNewStep
  <1>4. CASE PopNode(t) BY <1>1, <1>4, PopNodeStep
  <1>5. CASE ChasePop(t) BY <1>1, <1>5, ChasePopStep
  <1>6. CASE PopDeq(t) BY <1>1, <1>6, PopDeqStep
  <1>7. CASE SlowDeqId(t) BY <1>1, <1>7, SlowDeqIdStep
  <1>8. CASE SlowDeqIdx(t) BY <1>1, <1>8, SlowDeqIdxStep
  <1>9. CASE SlowDone(t) BY <1>1, <1>9, SlowDoneStep
  <1>10. CASE SlowGot(t) BY <1>1, <1>10, SlowGotStep
  <1>11. CASE Dequeued(t) BY <1>1, <1>11, DequeuedStep
  <1>12. QED BY <1>2, <1>3, <1>4, <1>5, <1>6, <1>7, <1>8, <1>9, <1>10, <1>11 DEF PopSteps

LEMMA SeekStepsKeep ==
    ASSUME IInv, Fits, Used > 0, NEW t \in Thread, SeekSteps(t)
    PROVE  IInv'
  <1>1. Bounded /\ ClaimsFit /\ ItemsFit /\ OffersFit BY DEF Fits
  <1>2. CASE AskIdx(t) BY <1>1, <1>2, AskIdxStep
  <1>3. CASE AskId(t) BY <1>1, <1>3, AskIdStep
  <1>4. CASE AskNode(t) BY <1>1, <1>4, AskNodeStep
  <1>5. CASE AskAgain(t) BY <1>1, <1>5, AskAgainStep
  <1>6. CASE SeekCell(t) BY <1>1, <1>6, SeekCellStep
  <1>7. CASE SeekNew(t) BY <1>1, <1>7, SeekNewStep
  <1>8. CASE SeekRaise(t) BY <1>1, <1>8, SeekRaiseStep
  <1>9. CASE SeekDeq(t) BY <1>1, <1>9, SeekDeqStep
  <1>10. CASE SeekAgain(t) BY <1>1, <1>10, SeekAgainStep
  <1>11. CASE OfferIdx(t) BY <1>1, <1>11, OfferIdxStep
  <1>12. CASE OfferId(t) BY <1>1, <1>12, OfferIdStep
  <1>13. CASE OfferCas(t) BY <1>1, <1>13, OfferCasStep
  <1>14. CASE Moved(t) BY <1>1, <1>14, MovedStep
  <1>15. CASE TakeCell(t) BY <1>1, <1>15, TakeCellStep
  <1>16. CASE Finish(t) BY <1>1, <1>16, FinishStep
  <1>17. QED
    BY <1>2, <1>3, <1>4, <1>5, <1>6, <1>7, <1>8, <1>9, <1>10, <1>11, <1>12, <1>13, <1>14, <1>15,
       <1>16 DEF SeekSteps

LEMMA NextKeeps ==
    ASSUME IInv, Fits, Used > 0, [Next]_vars
    PROVE  IInv'
  <1>1. CASE Next
    <2>1. PICK t \in Thread : Enqueue(t) \/ Dequeue(t) \/ Step(t) BY <1>1 DEF Next
    <2>2. Bounded BY DEF Fits
    <2>3. CASE Enqueue(t) BY <2>2, <2>3, EnqueueStep
    <2>4. CASE Dequeue(t) BY <2>2, <2>4, DequeueStep
    <2>5. CASE Step(t)
      BY <2>5, PutStepsKeep, SlowStepsKeep, HelpStepsKeep, PopStepsKeep, SeekStepsKeep DEF Step,
         PutSteps, SlowSteps, HelpSteps, PopSteps, SeekSteps
    <2>6. QED BY <2>1, <2>3, <2>4, <2>5
  <1>2. CASE UNCHANGED vars BY <1>2, StutterIs
  <1>3. QED BY <1>1, <1>2

LEMMA TypesOf ==
    ASSUME IInv, Bounded
    PROVE  TypeOK
  <1>1. TypeInv /\ NodesInv /\ \A t \in Thread : PutInv(t) /\ ReqInv(t) /\ DrawInv(t) /\ DeqInv(t)
    BY DEF IInv, Whole, Own
  <1>2. /\ putIndex \in Nat /\ popIndex \in Nat /\ Used <= putIndex /\ Used <= popIndex
        /\ putIndex < Cells /\ popIndex < Cells /\ Cells \in Nat /\ Used \in Nat
    BY <1>1, Nulls DEF TypeInv, Bounded
  <1>3. putIndex \in Used .. Cells /\ popIndex \in Used .. Cells BY <1>2
  <1>4. /\ Segment(Cells) \in Nat /\ Segment(putIndex) \in Nat /\ Segment(popIndex) \in Nat
        /\ Segment(putIndex) <= Segment(Cells) /\ Segment(popIndex) <= Segment(Cells)
    BY <1>2, Segments
  <1>5. nodes \in [put : 0 .. Segment(Cells), pop : 0 .. Segment(Cells)]
    BY <1>1, <1>4 DEF TypeInv, NodesInv
  <1>6. ASSUME NEW t \in Thread
        PROVE  putNode[t] \in 0 .. Segment(Cells) /\ popNode[t] \in 0 .. Segment(Cells)
    BY <1>1, <1>4, RequestIs DEF PutInv, DrawInv
  <1>7. ASSUME NEW t \in Thread PROVE enq[t].id \in -Cells .. Cells
    BY <1>1, RequestIs, LocalIs, <1>2 DEF ReqInv, Number, PutInv, InPut, Claimed
  <1>8. ASSUME NEW t \in Thread PROVE deq[t].id \in 0 .. Cells /\ deq[t].idx \in -Cells .. Cells
    BY <1>1, RequestIs, <1>2 DEF DeqInv, Pending
  <1>9. /\ putNode \in [Thread -> 0 .. Segment(Cells)] /\ popNode \in [Thread -> 0 .. Segment(Cells)]
    BY <1>1, <1>6 DEF TypeInv
  <1>10. enq \in [Thread -> [id : -Cells .. Cells, val : Item \cup {Null}]]
    BY <1>1, <1>7 DEF TypeInv
  <1>11. deq \in [Thread -> [id : 0 .. Cells, idx : -Cells .. Cells]] BY <1>1, <1>8 DEF TypeInv
  <1>12. {ring[k] : k \in DOMAIN ring} \subseteq Thread BY <1>1 DEF TypeInv
  <1>13. QED BY <1>1, <1>3, <1>5, <1>9, <1>10, <1>11, <1>12 DEF TypeOK, TypeInv, Number


-----------------------------------------------------------------------------
(* One request of each thread: what a step leaves of what was read.        *)

Settled(c) ==
    /\ cells[c] # Null => cells'[c] # Null
    /\ cells[c] # Null /\ cells[c].deq # Null => cells'[c].deq = cells[c].deq
    /\ Full(c) => Full(c)'
    /\ Dead(c) => Dead(c)'

AllSettled == \A c \in Number : Settled(c)

Once(e) == enq[e].id # 0 =>
    /\ enq'[e].val = enq[e].val
    /\ enq'[e].id = enq[e].id \/ enq'[e].id < 0

AllOnce == \A e \in Thread : Once(e)

LEMMA PassedStays ==
    ASSUME AllSettled, NEW p, NEW id, NEW hi, PassedTo(p, id, hi)
    PROVE  PassedTo(p, id, hi)'
  <1>1. ASSUME NEW c \in Number, id < c, c < hi PROVE Passed(p, c)'
    BY <1>1 DEF PassedTo, AllSettled, Passed, Settled
  <1>2. QED BY <1>1 DEF PassedTo

LEMMA ReadStays ==
    ASSUME TypeInv, TypeInv', Signed, AllSettled, AllOnce, NEW l, NEW f, HelpAt(l, f), ReadAt(l, f)
    PROVE  ReadAt(l, f)'
  <1>1. /\ \A e \in Thread : enq[e].id \in Int /\ enq'[e].id \in Int
        /\ Cells \in Nat
    BY Nulls DEF TypeInv
  <1>2. CASE l = "helpOffer" BY <1>2, <1>1 DEF HelpAt, ReadAt, HelpPcs, AllOnce, Once
  <1>3. CASE l \in {"helpEv", "helpClaim", "helpId2", "helpVal2"}
    BY <1>1, <1>3 DEF HelpAt, HelpPcs, Number, Signed, AllOnce, SignedAt, Once, ReadAt
  <1>4. CASE l \in {"helpNext", "helpDone"}
    BY <1>1, <1>4 DEF HelpAt, HelpPcs, Number, ReadAt, AllSettled, Settled, Full
  <1>5. CASE l = "seekDeq" BY <1>5 DEF ReadAt, Dead, Full, AllSettled, Settled
  <1>6. CASE l \notin {"helpOffer", "helpEv", "helpClaim", "helpId2", "helpVal2", "helpNext", "helpDone", "seekDeq"}
    BY <1>6 DEF ReadAt
  <1>7. QED BY <1>2, <1>3, <1>4, <1>5, <1>6

LEMMA SoughtStays ==
    ASSUME AllSettled, NEW l, NEW f, SoughtAt(l, f),
           l \in {"moved", "offerId"} /\ deq'[f.ph].id = f.did => deq[f.ph].id = f.did
    PROVE  SoughtAt(l, f)'
  <1>1. /\ PassedTo(f.ph, f.did, f.i) => PassedTo(f.ph, f.did, f.i)'
        /\ PassedTo(f.ph, f.did, f.idx) => PassedTo(f.ph, f.did, f.idx)'
    BY PassedStays
  <1>2. Passed(f.ph, f.i) => Passed(f.ph, f.i)' BY DEF AllSettled, Passed, Settled
  <1>3. Full(f.i) => Full(f.i)' BY DEF AllSettled, Settled, Full
  <1>4. QED BY <1>1, <1>2, <1>3 DEF SoughtAt

\* What a step has to show, if it leaves the pc and the locals of the others.
Still(t) == \A u \in Thread \ {t} : pc'[u] = pc[u] /\ local'[u] = local[u]

Wishes == \A p \in Thread : deq'[p].id \in Nat /\ deq[p].id <= deq'[p].id
                            /\ (deq'[p] = deq[p] \/ WantedAt(p)')

LEMMA SoughtStep ==
    ASSUME IInv, Bounded, TypeInv', Signed, Sought, NEW t \in Thread, Still(t),
           AllSettled, AllOnce, Wishes,
           NEW l, NEW f, pc'[t] = l, local'[t] = f, ReadAt(l, f)', SoughtAt(l, f)'
    PROVE  Sought'
  <1>1. TypeInv BY DEF IInv
  <1>2. ASSUME NEW u \in Thread PROVE ReadAt(pc[u], local[u])' /\ SoughtAt(pc[u], local[u])'
    <2>1. CASE u = t
      <3>1. pc'[u] = l /\ local'[u] = f BY <2>1
      <3>2. ReadAt(pc[u], local[u])' BY <3>1 DEF ReadAt
      <3>3. QED BY <3>1, <3>2 DEF SoughtAt
    <2>2. CASE u # t
      <3>1. PICK m, g : m = pc[u] /\ g = local[u] OBVIOUS
      <3>2. pc'[u] = m /\ local'[u] = g BY <2>2, <3>1 DEF Still
      <3>3. HelpAt(m, g) /\ ReadAt(m, g) /\ SoughtAt(m, g) BY <3>1 DEF IInv, Own, HelpInv, Sought
      <3>4. ReadAt(m, g)' BY <1>1, <3>3, ReadStays
      <3>5. m \in {"moved", "offerId"} /\ deq'[g.ph].id = g.did => deq[g.ph].id = g.did
        BY <3>1, SeekIs DEF SeekPcs, SeekAt, Wishes
      <3>6. SoughtAt(m, g)' BY <3>3, <3>5, SoughtStays
      <3>7. ReadAt(pc[u], local[u])' BY <3>2, <3>4 DEF ReadAt
      <3>8. SoughtAt(pc[u], local[u])' BY <3>2, <3>6 DEF SoughtAt
      <3>9. QED BY <3>7, <3>8
    <2>3. QED BY <2>1, <2>2
  <1>3. ASSUME NEW p \in Thread PROVE WantedAt(p)'
    <2>1. CASE deq'[p] = deq[p]
      <3>1. WantedAt(p) BY DEF Sought
      <3>2. PICK id, x : id = deq[p].id /\ x = deq[p].idx OBVIOUS
      <3>3. x > id => Full(x) /\ PassedTo(p, id, x) BY <3>1, <3>2 DEF WantedAt
      <3>4. Full(x) => Full(x)' BY DEF AllSettled, Settled, Full
      <3>5. PassedTo(p, id, x) => PassedTo(p, id, x)' BY PassedStays
      <3>6. deq'[p].id = id /\ deq'[p].idx = x BY <2>1, <3>2
      <3>7. QED BY <3>3, <3>4, <3>5, <3>6 DEF WantedAt
    <2>2. QED BY <2>1 DEF Wishes
  <1>4. QED BY <1>2, <1>3 DEF Sought

LEMMA WishesStill ==
    ASSUME IInv, deq' = deq
    PROVE  Wishes
  <1>1. \A p \in Thread : deq[p].id \in Nat /\ deq[p].id <= deq[p].id BY DEF IInv, TypeInv
  <1>2. QED BY <1>1 DEF Wishes

\* A step that only looks.
LEMMA SoughtLooks ==
    ASSUME IInv, Bounded, TypeInv', Signed, Sought, NEW t \in Thread, Still(t),
           cells' = cells, enq' = enq, deq' = deq,
           NEW l, NEW f, pc'[t] = l, local'[t] = f, ReadAt(l, f), SoughtAt(l, f)
    PROVE  Signed' /\ Sought'
  <1>1. AllSettled /\ AllOnce BY DEF AllSettled, AllOnce, Settled, Once, Full, Dead
  <1>2. Wishes BY WishesStill
  <1>3. ReadAt(l, f)' BY DEF ReadAt, Full, Dead
  <1>4. SoughtAt(l, f)' BY <1>1, SoughtStays
  <1>5. Sought' BY <1>1, <1>2, <1>3, <1>4, SoughtStep
  <1>6. Signed' BY DEF Signed, SignedAt
  <1>7. QED BY <1>5, <1>6

\* Where nothing is in hand.
PlainPcs == PcLabels \ ({"helpOffer", "helpEv", "helpClaim", "helpId2", "helpVal2", "helpNext", "helpDone"}
                        \cup {"seekCell", "seekNew", "seekRaise", "seekDeq", "seekAgain", "moved",
                              "offerIdx", "offerId", "offerCas", "take"})

LEMMA PlainIs ==
    ASSUME NEW l \in PlainPcs, NEW f, l \in HelpPcs => f.back # "seekDeq"
    PROVE  ReadAt(l, f) /\ SoughtAt(l, f) /\ ReadAt(l, f)' /\ SoughtAt(l, f)'
  BY DEF PlainPcs, ReadAt, SoughtAt

\* A step that writes cell c.
LEMMA SoughtCell ==
    ASSUME IInv, Bounded, TypeInv', Signed, Sought, NEW t \in Thread, Still(t),
           enq' = enq, deq' = deq,
           NEW c \in Number, NEW r \in Cell, cells' = [cells EXCEPT ![c] = r],
           cells[c] # Null /\ cells[c].deq # Null => r.deq = cells[c].deq,
           Full(c) => r.val \notin {Null, Top},
           Dead(c) => r.val = Top /\ r.enq = cells[c].enq,
           r.enq \in Thread => enq[r.enq].id # 0 /\ enq[r.enq].id <= c,
           NEW l, NEW f, pc'[t] = l, local'[t] = f,
           AllSettled => ReadAt(l, f)', AllSettled => SoughtAt(l, f)'
    PROVE  Signed' /\ Sought'
  <1>1. /\ cells \in [Number -> Cell \cup {Null}] /\ cells'[c] = r /\ r # Null
        /\ \A d \in Number : d # c => cells'[d] = cells[d]
    BY Nulls DEF IInv, TypeInv
  <1>2. AllSettled
    <2>1. ASSUME NEW d \in Number PROVE Settled(d) BY <1>1 DEF Full, Dead, Settled
    <2>2. QED BY <2>1 DEF AllSettled
  <1>3. AllOnce BY DEF AllOnce, Once
  <1>4. Wishes BY WishesStill
  <1>5. Sought' BY <1>2, <1>3, <1>4, SoughtStep
  <1>6. ASSUME NEW d \in Number PROVE SignedAt(d)' BY <1>1 DEF SignedAt, Signed
  <1>7. QED BY <1>5, <1>6 DEF Signed

\* A step that writes the request of e.
LEMMA SoughtEnq ==
    ASSUME IInv, Bounded, TypeInv', Signed, Sought, NEW t \in Thread, Still(t),
           cells' = cells, deq' = deq, NEW e \in Thread,
           \A u \in Thread : u # e => enq'[u] = enq[u],
           enq[e].id # 0 => enq'[e].val = enq[e].val /\ (enq'[e].id = enq[e].id \/ enq'[e].id < 0),
           enq[e].id < 0 => enq'[e].id = enq[e].id,
           NEW l, NEW f, pc'[t] = l, local'[t] = f,
           AllOnce => ReadAt(l, f)', AllSettled => SoughtAt(l, f)'
    PROVE  Signed' /\ Sought'
  <1>1. \A u \in Thread : enq[u].id \in Int /\ enq'[u].id \in Int BY DEF IInv, TypeInv
  <1>2. AllOnce BY DEF AllOnce, Once
  <1>3. ASSUME NEW d \in Number PROVE Settled(d)
    <2>1. (Full(d) => Full(d)') BY DEF Full
    <2>2. Dead(d) => Dead(d)'
      <3>1. ASSUME Dead(d) PROVE Dead(d)' BY <3>1 DEF Dead
      <3>2. QED BY <3>1
    <2>3. QED BY <2>1, <2>2 DEF Settled
  <1>4. AllSettled /\ Wishes BY <1>3, WishesStill DEF AllSettled
  <1>5. Sought' BY <1>2, <1>4, SoughtStep
  <1>6. ASSUME NEW d \in Number PROVE SignedAt(d)'
    <2>1. ASSUME cells[d] # Null, cells[d].enq \in Thread
          PROVE  enq'[cells[d].enq].id # 0 /\ enq'[cells[d].enq].id <= d
      <3>1. PICK u \in Thread : u = cells[d].enq BY <2>1
      <3>2. enq[u].id # 0 /\ enq[u].id <= d /\ d >= 0 /\ d \in Int
        BY <2>1, <3>1, Nulls DEF Signed, SignedAt, Number
      <3>3. enq'[u].id = enq[u].id \/ enq'[u].id < 0 BY <1>2, <3>2 DEF AllOnce, Once
      <3>4. QED BY <1>1, <3>1, <3>2, <3>3
    <2>2. QED BY <2>1 DEF SignedAt
  <1>7. QED BY <1>5, <1>6 DEF Signed

\* A step that writes a request for a dequeue.
LEMMA SoughtDeq ==
    ASSUME IInv, Bounded, TypeInv', Signed, Sought, NEW t \in Thread, Still(t),
           cells' = cells, enq' = enq, Wishes,
           NEW l, NEW f, pc'[t] = l, local'[t] = f, ReadAt(l, f)', SoughtAt(l, f)'
    PROVE  Signed' /\ Sought'
  <1>1. AllSettled /\ AllOnce BY DEF AllSettled, AllOnce, Settled, Once, Full, Dead
  <1>2. Sought' BY <1>1, SoughtStep
  <1>3. QED BY <1>2 DEF Signed, SignedAt

-----------------------------------------------------------------------------
(* Steps that have nothing in hand afterwards.                             *)

LEMMA PlainStep ==
    ASSUME IInv, Bounded, TypeInv', Signed, Sought, NEW t \in Thread, Still(t),
           UNCHANGED <<cells, enq, deq>>, pc'[t] \in PlainPcs,
           pc'[t] \in HelpPcs => local'[t].back # "seekDeq"
    PROVE  Signed' /\ Sought'
  <1>1. PICK l, f : l \in PlainPcs /\ l = pc'[t] /\ f = local'[t] OBVIOUS
  <1>2. ReadAt(l, f) /\ SoughtAt(l, f) BY <1>1, PlainIs
  <1>3. QED BY <1>1, <1>2, SoughtLooks

LEMMA GotoIs ==
    ASSUME TypeInv, NEW t \in Thread, NEW l, Goto(t, l)
    PROVE  pc'[t] = l /\ \A u \in Thread \ {t} : pc'[u] = pc[u]
  BY DEF Goto, TypeInv

LEMMA KeepIs ==
    ASSUME TypeInv, NEW t \in Thread, NEW l, Keep(t, l)
    PROVE  pc'[t] = l /\ local'[t] = local[t] /\ Still(t)
  BY DEF Keep, Goto, TypeInv, Still

LEMMA PlainRegister ==
    ASSUME IInv, Bounded, TypeInv', Signed, Sought, NEW t \in Thread,
           \/ RegisterPut(t) \/ RegisterPop(t) \/ RegisterRing(t) \/ RegisterHelp(t)
           \/ RegisterDeq(t)
    PROVE  Signed' /\ Sought'
  <1>1. UNCHANGED <<cells, enq, deq>>
    BY DEF RegisterPut, RegisterPop, RegisterRing, RegisterHelp, RegisterDeq, shared
  <1>2. PICK l \in {"registerPop", "registerRing", "registerHelp", "registerDeq", "idle"} : Keep(t, l)
    BY DEF RegisterPut, RegisterPop, RegisterRing, RegisterHelp, RegisterDeq
  <1>3. l \in PlainPcs \ HelpPcs BY DEF PlainPcs, PcLabels, HelpPcs
  <1>5. Still(t) /\ pc'[t] \in PlainPcs \ HelpPcs BY <1>2, <1>3, KeepIs DEF IInv
  <1>4. QED BY <1>1, <1>5, PlainStep

LEMMA PlainPut ==
    ASSUME IInv, Bounded, TypeInv', Signed, Sought, NEW t \in Thread,
           \/ Enqueue(t) \/ ChasePut(t) \/ PutCell(t) \/ PutVal(t)
           \/ SlowTest(t) \/ SlowPut(t) \/ SlowCell(t) \/ SlowEnq(t) \/ SlowEnd(t) \/ SlowRaise(t)
    PROVE  Signed' /\ Sought'
  <1> DEFINE Next1 == {"putCell", "putNew", "putVal", "putCas", "slowVal", "slowPut", "slowEnd", "chasePut",
                       "slowCell", "slowNew", "slowEnq", "slowCas", "slowClaim", "slowTest", "slowRaise",
                       "slowSet"}
  <1>1. CASE ChasePut(t)
    <2>1. UNCHANGED <<cells, enq, deq>> /\ Keep(t, local[t].back) BY <1>1 DEF ChasePut
    <2>2. local[t].back \in {"putCell", "slowCell"} BY <1>1 DEF ChasePut, IInv, Own, PutInv
    <2>3. local[t].back \in PlainPcs \ HelpPcs BY <2>2 DEF PlainPcs, PcLabels, HelpPcs
    <2>4. QED BY <2>1, <2>3, KeepIs, PlainStep DEF IInv
  <1>2. CASE Enqueue(t) \/ SlowPut(t)
    <2>1. PICK l, n : l \in {"putCell", "slowCell"} /\ Draw(t, l, n) BY <1>2 DEF Enqueue, SlowPut
    <2>2. UNCHANGED <<cells, enq, deq>> /\ (Goto(t, l) \/ Goto(t, "chasePut")) BY <2>1 DEF Draw
    <2>3. pc'[t] \in PlainPcs \ HelpPcs /\ (\A u \in Thread \ {t} : pc'[u] = pc[u])
      BY <2>1, <2>2, GotoIs DEF PlainPcs, PcLabels, HelpPcs, IInv
    <2>4. \A u \in Thread \ {t} : local'[u] = local[u] BY <2>1 DEF Draw, IInv, TypeInv
    <2>5. QED BY <2>2, <2>3, <2>4, PlainStep DEF Still
  <1>3. CASE PutCell(t) \/ PutVal(t) \/ SlowTest(t) \/ SlowCell(t) \/ SlowEnq(t) \/ SlowRaise(t)
    <2>1. UNCHANGED <<cells, enq, deq>>
      BY <1>3 DEF PutCell, PutVal, SlowTest, SlowCell, SlowEnq, SlowRaise, shared
    <2>2. PICK l \in Next1 : Keep(t, l)
      BY <1>3 DEF PutCell, PutVal, SlowTest, SlowCell, SlowEnq, SlowRaise
    <2>3. l \in PlainPcs \ HelpPcs BY DEF PlainPcs, PcLabels, HelpPcs
    <2>4. QED BY <2>1, <2>2, <2>3, KeepIs, PlainStep DEF IInv
  <1>4. CASE SlowEnd(t)
    <2>1. UNCHANGED <<cells, enq, deq>> /\ \E l \in {"slowRaise", "slowSet"} : Goto(t, l)
      BY <1>4 DEF SlowEnd, SlowEndFrom, shared
    <2>2. pc'[t] \in PlainPcs \ HelpPcs /\ (\A u \in Thread \ {t} : pc'[u] = pc[u])
      BY <2>1, GotoIs DEF PlainPcs, PcLabels, HelpPcs, IInv
    <2>3. \A u \in Thread \ {t} : local'[u] = local[u]
      BY <1>4 DEF SlowEnd, SlowEndFrom, IInv, TypeInv
    <2>4. QED BY <2>1, <2>2, <2>3, PlainStep DEF Still
  <1>5. QED BY <1>1, <1>2, <1>3, <1>4

LEMMA PlainPop ==
    ASSUME IInv, Bounded, TypeInv', Signed, Sought, NEW t \in Thread,
           \/ Dequeue(t) \/ PopCell(t) \/ PopNode(t) \/ ChasePop(t)
           \/ SlowDone(t) \/ SlowGot(t) \/ Dequeued(t) \/ AskIdx(t) \/ AskId(t) \/ AskNode(t)
    PROVE  Signed' /\ Sought'
  <1>1. CASE Dequeue(t)
    <2>1. UNCHANGED <<cells, enq, deq>> /\ Goto(t, "popCell") BY <1>1 DEF Dequeue
    <2>2. pc'[t] \in PlainPcs \ HelpPcs /\ (\A u \in Thread \ {t} : pc'[u] = pc[u])
      BY <2>1 DEF Goto, IInv, TypeInv, PlainPcs, PcLabels, HelpPcs
    <2>3. \A u \in Thread \ {t} : local'[u] = local[u] BY <1>1 DEF Dequeue, IInv, TypeInv
    <2>4. QED BY <2>1, <2>2, <2>3, PlainStep DEF Still
  <1>2. CASE PopCell(t) \/ PopNode(t) \/ ChasePop(t)
    <2>1. UNCHANGED <<cells, enq, deq>> BY <1>2 DEF PopCell, PopNode, ChasePop, shared
    <2>2. \E l \in {"popNew", "popNode", "chasePop", "helpVal", "slowGot"} : Keep(t, l)
      BY <1>2 DEF PopCell, PopNode, ChasePop, PopOn
    <2>3. Still(t) /\ pc'[t] \in PlainPcs /\ local'[t] = local[t]
          /\ pc'[t] \in {"popNew", "popNode", "chasePop", "helpVal", "slowGot"}
      <3>1. {"popNew", "popNode", "chasePop", "helpVal", "slowGot"} \subseteq PlainPcs
        BY DEF PlainPcs, PcLabels
      <3>2. QED BY <2>2, <3>1, KeepIs DEF IInv
    <2>4. pc'[t] \in HelpPcs => local[t].back = "popDeq"
      <3>1. CASE pc'[t] = "helpVal"
        <4>1. Drawn(t)
          BY <1>2, <3>1, <2>3 DEF PopCell, PopNode, ChasePop, Drawn, NodePcs, Keep, Goto, IInv, TypeInv
        <4>2. QED BY <4>1 DEF IInv, Own, DrawInv
      <3>2. QED BY <2>3, <3>1 DEF HelpPcs
    <2>5. QED BY <2>1, <2>3, <2>4, PlainStep
  <1>3. CASE SlowDone(t)
    <2>1. UNCHANGED <<cells, enq, deq>> /\ \E l \in {"exit", "popNode", "slowGot"} : Goto(t, l)
      BY <1>3 DEF SlowDone, shared
    <2>2. pc'[t] \in {"exit", "popNode", "slowGot"} /\ (\A u \in Thread \ {t} : pc'[u] = pc[u])
      BY <2>1, GotoIs DEF IInv
    <2>3. pc'[t] \in PlainPcs \ HelpPcs BY <2>2 DEF TypeInv, PlainPcs, HelpPcs
    <2>4. \A u \in Thread \ {t} : local'[u] = local[u] BY <1>3 DEF SlowDone, IInv, TypeInv
    <2>5. QED BY <2>1, <2>2, <2>3, <2>4, PlainStep DEF Still
  <1>4. CASE SlowGot(t)
    <2>1. PICK v : Got(t, v) BY <1>4 DEF SlowGot
    <2>2. UNCHANGED <<cells, enq, deq>> BY <1>4 DEF SlowGot, shared
    <2>3. (Goto(t, "idle") \/ Goto(t, "askIdx")) /\ \A u \in Thread \ {t} : local'[u] = local[u]
      BY <2>1 DEF Got, Return, IInv, TypeInv
    <2>4. {"idle", "askIdx"} \subseteq PlainPcs \ HelpPcs BY DEF PlainPcs, PcLabels, HelpPcs
    <2>5. pc'[t] \in PlainPcs \ HelpPcs /\ Still(t) BY <2>3, <2>4, GotoIs DEF IInv, Still
    <2>6. QED BY <2>2, <2>5, PlainStep
  <1>5. CASE Dequeued(t)
    <2>1. UNCHANGED <<cells, enq, deq>> /\ Return(t) BY <1>5 DEF Dequeued, shared
    <2>2. pc'[t] \in PlainPcs \ HelpPcs /\ Still(t)
      BY <2>1 DEF Return, Goto, Still, IInv, TypeInv, PlainPcs, PcLabels, HelpPcs
    <2>3. QED BY <2>1, <2>2, PlainStep
  <1>6. CASE AskIdx(t) \/ AskId(t) \/ AskNode(t)
    <2>1. UNCHANGED <<cells, enq, deq>> BY <1>6 DEF AskIdx, AskId, AskNode, shared
    <2>2. local[t].then \in {"slowDone", "dequeued"}
      BY <1>6, SeekIs DEF AskIdx, AskId, AskNode, SeekPcs
    <2>6. PICK l \in {"slowDone", "dequeued", "askId", "askNode", "askAgain"} : Goto(t, l)
      BY <1>6, <2>2 DEF AskIdx, AskId, AskNode, Leave
    <2>7. l \in PlainPcs \ HelpPcs BY DEF PlainPcs, PcLabels, HelpPcs
    <2>3. pc'[t] \in PlainPcs \ HelpPcs /\ (\A u \in Thread \ {t} : pc'[u] = pc[u])
      BY <2>6, <2>7, GotoIs DEF IInv
    <2>4. \A u \in Thread \ {t} : local'[u] = local[u]
      BY <1>6 DEF AskIdx, AskId, AskNode, Leave, IInv, TypeInv
    <2>5. QED BY <2>1, <2>3, <2>4, PlainStep DEF Still
  <1>7. QED BY <1>1, <1>2, <1>3, <1>4, <1>5, <1>6

\* The same with a cell written.
LEMMA PlainCell ==
    ASSUME IInv, Bounded, TypeInv', Signed, Sought, NEW t \in Thread, Still(t),
           enq' = enq, deq' = deq, pc'[t] \in PlainPcs \ HelpPcs,
           NEW c \in Number, NEW r \in Cell, cells' = [cells EXCEPT ![c] = r],
           cells[c] # Null /\ cells[c].deq # Null => r.deq = cells[c].deq,
           Full(c) => r.val \notin {Null, Top},
           Dead(c) => r.val = Top /\ r.enq = cells[c].enq,
           r.enq \in Thread => enq[r.enq].id # 0 /\ enq[r.enq].id <= c
    PROVE  Signed' /\ Sought'
  <1>1. PICK l, f : l \in PlainPcs /\ l = pc'[t] /\ f = local'[t] /\ l \notin HelpPcs OBVIOUS
  <1>2. ReadAt(l, f)' /\ SoughtAt(l, f)' BY <1>1, PlainIs
  <1>3. QED BY <1>1, <1>2, SoughtCell

\* The cell of an index that was drawn.
LEMMA DrawnCell ==
    ASSUME IInv, Bounded, NEW t \in Thread,
           Pc(t) \in {"putCell", "putNew", "putVal", "putCas", "slowCell", "slowNew", "slowEnq",
                      "slowCas", "slowClaim"}
    PROVE  /\ local[t].cell = local[t].index /\ local[t].index \in Number /\ local[t].index >= Used
           /\ InPut(t) /\ Current(t) \in Op /\ InCall(t)
  <1>1. InPut(t) BY DEF InPut, Fast, Open, FastPcs, OpenPcs
  <1>2. TypeInv /\ PutInv(t) /\ local[t].index \in Int /\ putIndex \in Nat /\ Cells \in Nat /\ Used \in Nat
    BY LocalIs, Nulls DEF IInv, Own, TypeInv
  <1>3. local[t].cell = local[t].index /\ local[t].index \in Used .. putIndex - 1
    BY <1>1, <1>2 DEF PutInv
  <1>4. local[t].index \in Number /\ local[t].index >= Used BY <1>2, <1>3 DEF Number, Bounded
  <1>5. InCall(t) BY <1>1 DEF InPut, Fast, Open, Pc, FastPcs, OpenPcs, InCall, Registered
  <1>6. Current(t) \in Op BY <1>2, <1>5, CurrentIs
  <1>7. QED BY <1>1, <1>3, <1>4, <1>5, <1>6

\* The request of an open enqueue is older than its index.
LEMMA OpenLater ==
    ASSUME IInv, Bounded, Used > 0, NEW t \in Thread, Open(t)
    PROVE  /\ enq[t].id # 0 /\ enq[t].id <= local[t].index /\ local[t].id > 0 /\ local[t].index > 0
           /\ enq[t].id = local[t].id \/ Claimed(t)
  <1>1. /\ TypeInv /\ ReqInv(t) /\ PutInv(t) /\ InPut(t) /\ Used \in Nat
        /\ local[t].id \in Int /\ local[t].index \in Int /\ enq[t].id \in Int
    BY LocalIs, RequestIs, Nulls DEF IInv, Own, InPut
  <1>2. local[t].id \in Used .. local[t].index /\ (enq[t].id = local[t].id \/ Claimed(t))
    BY <1>1 DEF ReqInv
  <1>3. Claimed(t) => -enq[t].id > 0 BY DEF Claimed
  <1>4. PICK id \in Int, r \in Int, x \in Int : id = enq[t].id /\ r = local[t].id /\ x = local[t].index
    BY <1>1
  <1>5. r >= Used /\ r <= x /\ (id = r \/ -id > 0) BY <1>1, <1>2, <1>3, <1>4
  <1>6. id # 0 /\ id <= x /\ r > 0 /\ x > 0 BY <1>1, <1>5
  <1>7. QED BY <1>2, <1>4, <1>6

LEMMA PutNewOnce ==
    ASSUME IInv, Bounded, TypeInv', Signed, Sought, NEW t \in Thread, PutNew(t)
    PROVE  Signed' /\ Sought'
  <1>1. Pc(t) = "putNew" BY DEF PutNew, Pc
  <1>2. PICK c \in Number : c = local[t].cell /\ Current(t) \in Op BY <1>1, DrawnCell
  <1>3. UNCHANGED <<enq, deq>> BY DEF PutNew
  <1>4. {"idle", "putVal"} \subseteq PlainPcs \ HelpPcs BY DEF PlainPcs, PcLabels, HelpPcs
  <1>5. CASE cells[c] = Null
    <2>1. Return(t) /\ cells' = [cells EXCEPT ![c] = NewCell(Current(t), Null)]
      BY <1>2, <1>5 DEF PutNew, Empty
    <2>2. Still(t) /\ pc'[t] = "idle" BY <2>1, GotoIs DEF Return, Still, IInv, TypeInv
    <2>3. NewCell(Current(t), Null) \in Cell /\ NewCell(Current(t), Null).enq = Null
      BY <1>2 DEF NewCell, Cell, Item
    <2>4. ~Full(c) /\ ~Dead(c) BY <1>5 DEF Full, Dead
    <2>5. QED BY <1>3, <1>4, <1>5, <2>1, <2>2, <2>3, <2>4, Nulls, PlainCell
  <1>6. CASE cells[c] # Null BY <1>2, <1>6, <1>3, <1>4, KeepIs, PlainStep DEF PutNew, Empty, IInv
  <1>7. QED BY <1>5, <1>6

LEMMA PutCasOnce ==
    ASSUME IInv, Bounded, TypeInv', Signed, Sought, NEW t \in Thread, PutCas(t)
    PROVE  Signed' /\ Sought'
  <1>1. Pc(t) = "putCas" BY DEF PutCas, Pc
  <1>2. PICK c \in Number : c = local[t].cell /\ c = local[t].index /\ Current(t) \in Op
    BY <1>1, DrawnCell
  <1>3. UNCHANGED <<enq, deq>> /\ cells[c] # Null /\ cells[c] \in Cell
    BY <1>1, <1>2, CellIs DEF IInv, Own, PutInv, PutCas
  <1>4. {"idle", "slowVal"} \subseteq PlainPcs \ HelpPcs BY DEF PlainPcs, PcLabels, HelpPcs
  <1>5. Still(t) /\ pc'[t] \in {"idle", "slowVal"}
    BY GotoIs, KeepIs DEF PutCas, Return, Still, IInv, TypeInv
  <1>6. CASE cells[c].val = Null
    <2> DEFINE r == [cells[c] EXCEPT !.val = Current(t)]
    <2>1. r \in Cell /\ r.enq = cells[c].enq /\ r.deq = cells[c].deq BY <1>2, <1>3 DEF Cell, Item
    <2>2. cells' = [cells EXCEPT ![c] = r] BY <1>2, <1>6 DEF PutCas, Cas
    <2> HIDE DEF r
    <2>3. ~Full(c) /\ ~Dead(c) BY <1>6, Nulls DEF Full, Dead
    <2>4. r.enq \in Thread => enq[r.enq].id # 0 /\ enq[r.enq].id <= c
      BY <1>3, <2>1 DEF Signed, SignedAt
    <2>5. QED BY <1>3, <1>4, <1>5, <2>1, <2>2, <2>3, <2>4, PlainCell
  <1>7. CASE cells[c].val # Null BY <1>2, <1>7, <1>3, <1>4, <1>5, PlainStep DEF PutCas, Cas
  <1>8. QED BY <1>6, <1>7

LEMMA SlowNewOnce ==
    ASSUME IInv, Bounded, Used > 0, TypeInv', Signed, Sought, NEW t \in Thread, SlowNew(t)
    PROVE  Signed' /\ Sought'
  <1>1. Pc(t) = "slowNew" /\ Open(t) BY DEF SlowNew, Pc, Open, OpenPcs
  <1>2. PICK c \in Number : c = local[t].cell /\ c = local[t].index BY <1>1, DrawnCell
  <1>3. UNCHANGED <<enq, deq>> /\ enq[t].id # 0 /\ enq[t].id <= c
    BY <1>1, OpenLater, <1>2 DEF SlowNew
  <1>4. {"slowClaim", "slowEnq"} \subseteq PlainPcs \ HelpPcs BY DEF PlainPcs, PcLabels, HelpPcs
  <1>5. Still(t) /\ pc'[t] \in {"slowClaim", "slowEnq"} BY KeepIs DEF SlowNew, IInv
  <1>6. CASE cells[c] = Null
    BY <1>2, <1>6, <1>3, <1>4, <1>5, PlainCell DEF SlowNew, Empty, NewCell, Cell, Full, Dead
  <1>7. CASE cells[c] # Null BY <1>2, <1>7, <1>3, <1>4, <1>5, PlainStep DEF SlowNew, Empty
  <1>8. QED BY <1>6, <1>7

LEMMA SlowCasOnce ==
    ASSUME IInv, Bounded, Used > 0, TypeInv', Signed, Sought, NEW t \in Thread, SlowCas(t)
    PROVE  Signed' /\ Sought'
  <1>1. Pc(t) = "slowCas" /\ Open(t) BY DEF SlowCas, Pc, Open, OpenPcs
  <1>2. PICK c \in Number : c = local[t].cell /\ c = local[t].index BY <1>1, DrawnCell
  <1>3. UNCHANGED <<enq, deq>> /\ enq[t].id # 0 /\ enq[t].id <= c
    BY <1>1, OpenLater, <1>2 DEF SlowCas
  <1>4. {"slowClaim", "slowTest"} \subseteq PlainPcs \ HelpPcs BY DEF PlainPcs, PcLabels, HelpPcs
  <1>5. Still(t) /\ pc'[t] \in {"slowClaim", "slowTest"} BY KeepIs DEF SlowCas, IInv
  <1>6. cells[c] # Null /\ cells[c] \in Cell BY <1>1, <1>2, CellIs DEF IInv, Own, PutInv
  <1>7. CASE cells[c].enq = Null
    <2> DEFINE r == [cells[c] EXCEPT !.enq = t]
    <2>1. r \in Cell /\ r.enq = t /\ r.deq = cells[c].deq /\ r.val = cells[c].val BY <1>6 DEF Cell
    <2>2. cells' = [cells EXCEPT ![c] = r] BY <1>2, <1>7 DEF SlowCas, Cas
    <2> HIDE DEF r
    <2>3. ~Dead(c) /\ (Full(c) => r.val \notin {Null, Top}) BY <1>7, <2>1, Nulls DEF Full, Dead
    <2>4. QED BY <1>3, <1>4, <1>5, <2>1, <2>2, <2>3, PlainCell
  <1>8. CASE cells[c].enq # Null BY <1>2, <1>8, <1>3, <1>4, <1>5, PlainStep DEF SlowCas, Cas
  <1>9. QED BY <1>7, <1>8

LEMMA SlowSetOnce ==
    ASSUME IInv, Bounded, Used > 0, TypeInv', Signed, Sought, NEW t \in Thread, SlowSet(t)
    PROVE  Signed' /\ Sought'
  <1>1. pc[t] = "slowSet" /\ Open(t) /\ InCall(t)
    BY DEF SlowSet, Pc, Open, OpenPcs, InCall, Registered
  <1>2. /\ enq[t].id < 0 /\ local[t].cell = -enq[t].id /\ Claimed(t) /\ local[t].id > 0
        /\ enq[t].id \in Int /\ Current(t) \in Op
    BY <1>1, RequestIs, CurrentIs, OpenLater DEF IInv, Own, ReqInv
  <1>3. PICK c \in Number : c = local[t].cell /\ c = -enq[t].id BY <1>2 DEF Claimed
  <1>4. cells[c] # Null /\ cells[c] \in Cell /\ cells[c].enq = t
    BY <1>2, <1>3, CellIs DEF Claimed, IInv
  <1>5. UNCHANGED <<enq, deq>> /\ Return(t) /\ cells' = [cells EXCEPT ![c].val = Current(t)]
    BY <1>3, <1>4 DEF SlowSet, Empty
  <1>6. Still(t) /\ pc'[t] = "idle" BY <1>5, GotoIs DEF Return, Still, IInv, TypeInv
  <1>7. "idle" \in PlainPcs \ HelpPcs BY DEF PlainPcs, PcLabels, HelpPcs
  <1> DEFINE r == [cells[c] EXCEPT !.val = Current(t)]
  <1>8. r \in Cell /\ r.enq = t /\ r.deq = cells[c].deq /\ r.val = Current(t)
    BY <1>2, <1>4 DEF Cell, Item
  <1>9. cells' = [cells EXCEPT ![c] = r] BY <1>5
  <1> HIDE DEF r
  <1>10. ~Dead(c) /\ r.val \notin {Null, Top} BY <1>2, <1>3, Nulls, <1>4, <1>8 DEF Number, Dead
  <1>11. r.enq \in Thread => enq[r.enq].id # 0 /\ enq[r.enq].id <= c BY <1>2, <1>3, <1>8 DEF Number
  <1>12. QED BY <1>5, <1>6, <1>7, <1>8, <1>9, <1>10, <1>11, PlainCell

\* The same with a request written.
LEMMA PlainEnq ==
    ASSUME IInv, Bounded, TypeInv', Signed, Sought, NEW t \in Thread, Still(t),
           cells' = cells, deq' = deq, pc'[t] \in PlainPcs \ HelpPcs,
           \A u \in Thread : u # t => enq'[u] = enq[u],
           enq[t].id # 0 => enq'[t].val = enq[t].val /\ (enq'[t].id = enq[t].id \/ enq'[t].id < 0),
           enq[t].id < 0 => enq'[t].id = enq[t].id
    PROVE  Signed' /\ Sought'
  <1>1. PICK l, f : l \in PlainPcs /\ l = pc'[t] /\ f = local'[t] /\ l \notin HelpPcs OBVIOUS
  <1>2. ReadAt(l, f)' /\ SoughtAt(l, f)' BY <1>1, PlainIs
  <1>3. QED BY <1>1, <1>2, SoughtEnq

LEMMA SlowEnqOnce ==
    ASSUME IInv, Bounded, Used > 0, TypeInv', Signed, Sought, OneRequest, NEW t \in Thread,
           SlowVal(t) \/ SlowId(t) \/ SlowClaim(t)
    PROVE  Signed' /\ Sought'
  <1>1. /\ cells' = cells /\ deq' = deq /\ pc'[t] \in {"slowId", "slowTest", "slowEnd"} /\ Still(t)
    BY ZenonT(60) DEF SlowVal, SlowId, SlowClaim, Keep, Goto, Still, IInv, TypeInv
  <1>2. {"slowId", "slowTest", "slowEnd"} \subseteq PlainPcs \ HelpPcs
    BY DEF PlainPcs, PcLabels, HelpPcs
  <1>3. \A u \in Thread : u # t => enq'[u] = enq[u] BY DEF SlowVal, SlowId, SlowClaim, IInv, TypeInv
  <1>4. CASE SlowVal(t) \/ SlowId(t)
    BY <1>4, <1>1, <1>2, <1>3, PlainEnq DEF OneRequest, SlowVal, SlowId
  <1>5. CASE SlowClaim(t)
    <2>1. Open(t) /\ enq \in [Thread -> [id : Int, val : Item \cup {Null}]]
      BY <1>5 DEF SlowClaim, Open, Pc, OpenPcs, IInv, TypeInv
    <2>2. local[t].id > 0 /\ local[t].index > 0 /\ local[t].index \in Int /\ local[t].id \in Int
          /\ enq[t].id \in Int
      BY <2>1, OpenLater, LocalIs, RequestIs DEF IInv
    <2>3. PICK x \in Int : x = local[t].index /\ x > 0 BY <2>2
    <2>4. enq'[t].val = enq[t].val
          /\ enq'[t].id = (IF enq[t].id = local[t].id THEN -x ELSE enq[t].id)
      BY <1>5, <2>1, <2>3 DEF SlowClaim
    <2>5. (enq'[t].id = enq[t].id \/ enq'[t].id < 0) /\ (enq[t].id < 0 => enq'[t].id = enq[t].id)
      BY <2>2, <2>3, <2>4
    <2>6. QED BY <1>1, <1>2, <1>3, <2>4, <2>5, PlainEnq
  <1>6. QED BY <1>4, <1>5

LEMMA PopNewOnce ==
    ASSUME IInv, Bounded, TypeInv', Signed, Sought, NEW t \in Thread, PopNew(t)
    PROVE  Signed' /\ Sought'
  <1>1. Drawn(t) /\ pc[t] = "popNew" BY DEF PopNew, Drawn
  <1>2. PICK c \in Number : c = local[t].cell BY <1>1, DrawnIs DEF Number
  <1>3. UNCHANGED <<enq, deq>> /\ local[t].back = "popDeq" BY <1>1 DEF PopNew, IInv, Own, DrawInv
  <1>4. Still(t) /\ pc'[t] \in {"popNode", "helpVal"} /\ local'[t] = local[t]
    BY KeepIs DEF PopNew, PopOn, IInv
  <1>5. {"popNode", "helpVal"} \subseteq PlainPcs BY DEF PlainPcs, PcLabels
  <1>6. PICK l, f : l = pc'[t] /\ f = local'[t] OBVIOUS
  <1>7. ReadAt(l, f)' /\ SoughtAt(l, f)' BY <1>3, <1>4, <1>5, <1>6, PlainIs
  <1>8. CASE cells[c] = Null
    <2>1. cells' = [cells EXCEPT ![c] = NewCell(Null, Null)] BY <1>2, <1>8 DEF PopNew, Empty
    <2>2. NewCell(Null, Null) \in Cell /\ NewCell(Null, Null).enq = Null BY DEF NewCell, Cell
    <2>3. ~Full(c) /\ ~Dead(c) BY <1>8 DEF Full, Dead
    <2>4. QED BY <1>3, <1>4, <1>6, <1>7, <1>8, <2>1, <2>2, <2>3, Nulls, SoughtCell
  <1>9. CASE cells[c] # Null BY <1>2, <1>9, <1>3, <1>4, <1>5, PlainStep DEF PopNew, Empty
  <1>10. QED BY <1>8, <1>9

LEMMA PopDeqOnce ==
    ASSUME IInv, Bounded, TypeInv', Signed, Sought, NEW t \in Thread, PopDeq(t)
    PROVE  Signed' /\ Sought'
  <1>1. Drawn(t) /\ pc[t] = "popDeq" BY DEF PopDeq, Drawn
  <1>2. local[t].cell = local[t].index /\ local[t].index \in Number /\ cells[local[t].index] # Null
    BY <1>1, DrawnIs
  <1>3. PICK c \in Number : c = local[t].cell /\ cells[c] # Null BY <1>2
  <1>4. UNCHANGED <<enq, deq>> /\ cells[c] \in Cell BY <1>3, CellIs DEF PopDeq, IInv
  <1>5. {"idle", "askIdx", "slowDeqId"} \subseteq PlainPcs \ HelpPcs
    BY DEF PlainPcs, PcLabels, HelpPcs
  <1>6. Still(t) /\ pc'[t] \in {"idle", "askIdx", "slowDeqId"}
    <2>1. (\E v : Got(t, v)) \/ Keep(t, "slowDeqId") BY DEF PopDeq
    <2>2. CASE Keep(t, "slowDeqId") BY <2>2, KeepIs DEF IInv
    <2>3. CASE \E v : Got(t, v) BY <2>3, GotoIs DEF Got, Return, IInv, TypeInv, Still
    <2>4. QED BY <2>1, <2>2, <2>3
  <1>7. CASE cells' # cells
    <2> DEFINE r == [cells[c] EXCEPT !.deq = Top]
    <2>1. cells[c].deq = Null /\ cells' = [cells EXCEPT ![c] = r]
      BY <1>3, <1>7 DEF PopDeq, Cas
    <2>2. r \in Cell /\ r.enq = cells[c].enq /\ r.val = cells[c].val BY <1>4 DEF Cell
    <2> HIDE DEF r
    <2>3. (Full(c) => r.val \notin {Null, Top}) /\ (Dead(c) => r.val = Top) BY <2>2 DEF Full, Dead
    <2>4. r.enq \in Thread => enq[r.enq].id # 0 /\ enq[r.enq].id <= c
      BY <1>3, <2>2 DEF Signed, SignedAt
    <2>5. QED BY <1>4, <1>5, <1>6, <2>1, <2>2, <2>3, <2>4, PlainCell
  <1>8. CASE cells' = cells BY <1>4, <1>5, <1>6, <1>8, PlainStep
  <1>9. QED BY <1>7, <1>8

LEMMA SlowDeqOnce ==
    ASSUME IInv, Bounded, TypeInv', Signed, Sought, NEW t \in Thread, SlowDeqId(t) \/ SlowDeqIdx(t)
    PROVE  Signed' /\ Sought'
  <1>1. /\ cells' = cells /\ enq' = enq /\ pc'[t] \in {"slowDeqIdx", "askIdx"} /\ Still(t)
    BY ZenonT(60) DEF SlowDeqId, SlowDeqIdx, Keep, Goto, Still, IInv, TypeInv
  <1>2. {"slowDeqIdx", "askIdx"} \subseteq PlainPcs \ HelpPcs BY DEF PlainPcs, PcLabels, HelpPcs
  <1>3. \A p \in Thread : p # t => deq'[p] = deq[p] /\ deq[p].id \in Nat
    BY DEF SlowDeqId, SlowDeqIdx, IInv, TypeInv
  <1>4. deq'[t].id \in Nat /\ deq[t].id <= deq'[t].id /\ deq'[t].idx <= deq'[t].id
    <2>1. CASE SlowDeqId(t)
      <3>1. pc[t] = "slowDeqId" BY <2>1 DEF SlowDeqId
      <3>2. local[t].index \in Number /\ local[t].index > 0 /\ deq[t].idx < 0 /\ deq[t].id < local[t].index
            /\ deq[t].id \in Nat /\ Cells \in Nat
        BY <3>1, DrawnIs
      <3>3. deq'[t].id = local[t].index /\ deq'[t].idx = deq[t].idx /\ deq[t].idx \in Int
        BY <2>1 DEF SlowDeqId, IInv, TypeInv
      <3>4. QED BY <3>2, <3>3 DEF Number
    <2>2. CASE SlowDeqIdx(t) BY <2>2 DEF SlowDeqIdx, IInv, Own, DeqInv, TypeInv
    <2>3. QED BY <2>1, <2>2
  <1>5. WantedAt(t)' BY <1>4 DEF TypeInv, WantedAt
  <1>6. Wishes BY <1>4, <1>5, <1>3 DEF WantedAt, Full, PassedTo, Passed, Dead, Wishes
  <1>7. PICK l, f : l \in PlainPcs /\ l = pc'[t] /\ f = local'[t] /\ l \notin HelpPcs BY <1>1, <1>2
  <1>8. ReadAt(l, f)' /\ SoughtAt(l, f)' BY <1>7, PlainIs
  <1>9. QED BY <1>1, <1>6, <1>7, <1>8, SoughtDeq

-----------------------------------------------------------------------------
(* Steps of help_enq.                                                      *)

\* A step of help_enq leaves what help_deq has passed.
LEMMA HelpSought ==
    ASSUME Sought, NEW t \in Thread, pc[t] \in HelpPcs, local[t].back \in {"popDeq", "seekDeq"},
           NEW m, NEW g, m \in HelpPcs \cup {local[t].back},
           g.ph = local[t].ph, g.did = local[t].did, g.i = local[t].i, g.back = local[t].back
    PROVE  SoughtAt(m, g) /\ (AllSettled => SoughtAt(m, g)')
  <1>1. PICK l, f : l = pc[t] /\ f = local[t] /\ SoughtAt(l, f) BY DEF Sought
  <1>2. m \in HelpPcs \cup {"popDeq", "seekDeq"} OBVIOUS
  <1>3. m \notin {"seekCell", "seekNew", "seekRaise", "seekAgain", "moved", "offerIdx", "offerId", "offerCas",
                  "take"}
    BY <1>2 DEF HelpPcs
  <1>4. SoughtAt(m, g) BY <1>1, <1>2, <1>3 DEF SoughtAt, HelpPcs
  <1>5. ASSUME AllSettled PROVE SoughtAt(m, g)' BY <1>3, <1>4, <1>5, SoughtStays
  <1>6. QED BY <1>4, <1>5

LEMMA HelpIn ==
    ASSUME IInv, Bounded, Signed, Sought, NEW t \in Thread, pc[t] \in HelpPcs
    PROVE  \E c \in Number, f \in Local : /\ f = local[t] /\ f.i = c /\ c > 0 /\ f.cell = c /\ c \in Int
                                /\ cells[c] # Null /\ cells[c] \in Cell /\ ItemAt(c) /\ SignedAt(c)
                                /\ HelpAt(pc[t], f) /\ ReadAt(pc[t], f)
                                /\ f.back \in {"popDeq", "seekDeq"} /\ f \in Local /\ eh[t] \in Thread
  <1>1. HelpAt(pc[t], local[t]) /\ ReadAt(pc[t], local[t]) /\ local[t] \in Local
    BY DEF IInv, TypeInv, Own, HelpInv, Sought
  <1>2. local[t].i \in Number /\ SignedAt(local[t].i) /\ local[t].i \in Int
    BY HelpIs DEF Signed, Number
  <1>3. QED BY <1>1, <1>2, HelpIs

\* A step of help_enq that looks and goes on.
LEMMA HelpLooksOnce ==
    ASSUME IInv, Bounded, TypeInv', Signed, Sought, NEW t \in Thread, pc[t] \in HelpPcs, Still(t),
           UNCHANGED <<cells, enq, deq>>,
           NEW m, NEW g, pc'[t] = m, local'[t] = g, m \in HelpPcs \cup {local[t].back},
           g.ph = local[t].ph, g.did = local[t].did, g.i = local[t].i, g.back = local[t].back,
           ReadAt(m, g)
    PROVE  Signed' /\ Sought'
  <1>1. SoughtAt(m, g) BY HelpIs, HelpSought
  <1>2. QED BY <1>1, SoughtLooks

\* help_enq returns v.
LEMMA HelpGivesOnce ==
    ASSUME IInv, Bounded, TypeInv', Signed, Sought, NEW t \in Thread, pc[t] \in HelpPcs,
           UNCHANGED <<cells, enq, deq>>, NEW v, Gives(t, v),
           IF v \in {Top, Bot} THEN Dead(local[t].i) ELSE Full(local[t].i)
    PROVE  Signed' /\ Sought'
  <1>1. PICK f : f = local[t] /\ f \in Local /\ f.back \in {"popDeq", "seekDeq"}
    BY HelpIs DEF IInv, TypeInv
  <1> DEFINE g == [f EXCEPT !.val = v, !.e = Null, !.ei = 0, !.ev = Null, !.pe = Null, !.id = 0, !.outer = FALSE]
  <1>2. pc' = [pc EXCEPT ![t] = f.back] /\ local' = [local EXCEPT ![t] = g] BY <1>1 DEF Gives, Goto
  <1>3. g.ph = f.ph /\ g.did = f.did /\ g.i = f.i /\ g.back = f.back /\ g.val = v BY <1>1 DEF Local
  <1> HIDE DEF g
  <1>4. Still(t) /\ pc'[t] = f.back /\ local'[t] = g BY <1>2 DEF IInv, TypeInv, Still
  <1>5. ReadAt(f.back, g) BY <1>1, <1>3 DEF ReadAt
  <1>6. QED BY <1>1, <1>3, <1>4, <1>5, HelpLooksOnce

LEMMA HelpValOnce ==
    ASSUME IInv, Bounded, TypeInv', Signed, Sought, NEW t \in Thread, HelpVal(t) \/ HelpLost(t)
    PROVE  Signed' /\ Sought'
  <1>1. pc[t] \in {"helpVal", "helpLost"} /\ pc[t] \in HelpPcs BY DEF HelpVal, HelpLost, HelpPcs
  <1>2. PICK c \in Number, f \in Local : /\ f = local[t] /\ f.i = c /\ f.cell = c /\ cells[c] # Null /\ cells[c] \in Cell
                               /\ HelpAt(pc[t], f)
    BY <1>1, HelpIn
  <1>3. UNCHANGED <<cells, enq, deq>> BY DEF HelpVal, HelpLost, shared
  <1>4. \/ \E m \in {"helpSeal", "helpEnq"} : Keep(t, m)
        \/ Gives(t, cells[c].val) /\ cells[c].val \notin {Null, Top}
    BY <1>2, <1>1 DEF HelpVal, HelpLost, HelpAt
  <1>5. CASE \E m \in {"helpSeal", "helpEnq"} : Keep(t, m)
    <2>1. PICK m \in {"helpSeal", "helpEnq"} : Keep(t, m) BY <1>5
    <2>2. Still(t) /\ pc'[t] = m /\ local'[t] = f BY <1>2, <2>1, KeepIs DEF IInv
    <2>3. ReadAt(m, f) /\ m \in HelpPcs BY DEF ReadAt, HelpPcs
    <2>4. QED BY <1>1, <1>2, <1>3, <2>2, <2>3, HelpLooksOnce
  <1>6. CASE Gives(t, cells[c].val) /\ cells[c].val \notin {Null, Top}
    BY <1>2, <1>6, Nulls, <1>1, <1>3, HelpGivesOnce DEF Full, Cell, Item
  <1>7. QED BY <1>4, <1>5, <1>6

LEMMA HelpFoundIs ==
    ASSUME IInv, NEW t \in Thread, NEW e, Found(t, e)
    PROVE  /\ Still(t) /\ pc'[t] \in {"helpEmpty", "helpId"}
           /\ local'[t].ph = local[t].ph /\ local'[t].did = local[t].did
           /\ local'[t].i = local[t].i /\ local'[t].back = local[t].back
  <1>1. CASE e = Top BY <1>1, KeepIs DEF Found, IInv
  <1>2. CASE e # Top
    <2>1. local' = [local EXCEPT ![t].e = e] /\ pc' = [pc EXCEPT ![t] = "helpId"]
      BY <1>2 DEF Found, Goto
    <2>2. Still(t) /\ pc'[t] = "helpId" /\ local'[t] = [local[t] EXCEPT !.e = e]
      BY <2>1 DEF IInv, TypeInv, Still
    <2>3. local[t] \in Local BY DEF IInv, TypeInv
    <2>4. QED BY <2>2, <2>3 DEF Local
  <1>3. QED BY <1>1, <1>2

LEMMA HelpEnqOnce ==
    ASSUME IInv, Bounded, TypeInv', Signed, Sought, NEW t \in Thread, HelpEnq(t) \/ HelpPeer(t)
    PROVE  Signed' /\ Sought'
  <1>1. pc[t] \in HelpPcs /\ UNCHANGED <<cells, enq, deq>> BY DEF HelpEnq, HelpPeer, HelpPcs, shared
  <1>2. PICK c \in Number, f \in Local : /\ f = local[t] /\ f.i = c /\ f.cell = c /\ f \in Local /\ eh[t] \in Thread
    BY <1>1, HelpIn
  <1>3. CASE HelpEnq(t)
    <2>1. Keep(t, "helpPeer") \/ \E e : Found(t, e) BY <1>3 DEF HelpEnq
    <2>2. PICK m, g : /\ m = pc'[t] /\ g = local'[t] /\ Still(t) /\ m \in {"helpPeer", "helpEmpty", "helpId"}
                      /\ g.ph = f.ph /\ g.did = f.did /\ g.i = f.i /\ g.back = f.back
      BY <1>2, KeepIs, HelpFoundIs, <2>1 DEF IInv
    <2>3. ReadAt(m, g) /\ m \in HelpPcs BY <2>2 DEF ReadAt, HelpPcs
    <2>4. QED BY <1>1, <1>2, <2>2, <2>3, HelpLooksOnce
  <1>4. CASE HelpPeer(t)
    <2> DEFINE id == enq[eh[t]].id
               fits == id > 0 /\ id <= f.i
               m == IF fits THEN "helpOffer" ELSE "helpClose"
               g == [f EXCEPT !.pe = eh[t], !.id = id, !.outer = ~fits]
    <2>1. pc' = [pc EXCEPT ![t] = m] /\ local' = [local EXCEPT ![t] = g]
      BY <1>2, <1>4 DEF HelpPeer, Goto
    <2>2. g.ph = f.ph /\ g.did = f.did /\ g.i = f.i /\ g.back = f.back /\ g.pe = eh[t]
      BY <1>2 DEF Local
    <2>3. m \in {"helpOffer", "helpClose"} /\ (m = "helpOffer" => enq[g.pe].id # 0 /\ enq[g.pe].id <= g.i)
      <3>1. id \in Int BY <1>2 DEF IInv, TypeInv
      <3>2. QED BY <2>2, <3>1
    <2> HIDE DEF m, g
    <2>4. Still(t) /\ pc'[t] = m /\ local'[t] = g BY <2>1 DEF IInv, TypeInv, Still
    <2>5. ReadAt(m, g) /\ m \in HelpPcs BY <2>3 DEF ReadAt, HelpPcs
    <2>6. QED BY <1>1, <1>2, <2>2, <2>4, <2>5, HelpLooksOnce
  <1>5. QED BY <1>3, <1>4

\* A step of help_enq that writes its cell.
LEMMA HelpWritesOnce ==
    ASSUME IInv, Bounded, TypeInv', Signed, Sought, NEW t \in Thread, pc[t] \in HelpPcs, Still(t),
           enq' = enq, deq' = deq,
           NEW m, NEW g, pc'[t] = m, local'[t] = g, m \in HelpPcs,
           g.ph = local[t].ph, g.did = local[t].did, g.i = local[t].i, g.back = local[t].back,
           AllSettled => ReadAt(m, g)',
           NEW r \in Cell, cells' = [cells EXCEPT ![local[t].i] = r], r.deq = cells[local[t].i].deq,
           Full(local[t].i) => r.val \notin {Null, Top},
           ~Dead(local[t].i),
           r.enq \in Thread => enq[r.enq].id # 0 /\ enq[r.enq].id <= local[t].i
    PROVE  Signed' /\ Sought'
  <1>1. PICK c \in Number : c = local[t].i BY HelpIs
  <1>2. AllSettled => SoughtAt(m, g)' BY HelpIs, HelpSought
  <1>3. QED BY <1>1, <1>2, SoughtCell

LEMMA HelpSealOnce ==
    ASSUME IInv, Bounded, TypeInv', Signed, Sought, NEW t \in Thread, HelpSeal(t)
    PROVE  Signed' /\ Sought'
  <1>1. pc[t] \in HelpPcs /\ UNCHANGED <<enq, deq>> BY DEF HelpSeal, HelpPcs
  <1>2. PICK c \in Number, f \in Local : /\ f = local[t] /\ f.i = c /\ f.cell = c /\ cells[c] # Null /\ cells[c] \in Cell
                               /\ SignedAt(c)
    BY <1>1, HelpIn
  <1>3. PICK m \in {"helpEnq", "helpLost"} : Keep(t, m) BY DEF HelpSeal
  <1>4. Still(t) /\ pc'[t] = m /\ local'[t] = f BY <1>2, <1>3, KeepIs DEF IInv
  <1>5. ReadAt(m, f) /\ ReadAt(m, f)' /\ m \in HelpPcs BY DEF ReadAt, HelpPcs
  <1>6. CASE cells[c].val = Null
    <2> DEFINE r == [cells[c] EXCEPT !.val = Top]
    <2>1. r \in Cell /\ r.enq = cells[c].enq /\ r.deq = cells[c].deq BY <1>2 DEF Cell
    <2>2. cells' = [cells EXCEPT ![c] = r] BY <1>2, <1>6 DEF HelpSeal, Cas
    <2> HIDE DEF r
    <2>3. ~Full(c) /\ ~Dead(c) BY <1>6, Nulls DEF Full, Dead
    <2>4. r.enq \in Thread => enq[r.enq].id # 0 /\ enq[r.enq].id <= c BY <1>2, <2>1 DEF SignedAt
    <2>5. QED BY <1>1, <1>2, <1>4, <1>5, <2>1, <2>2, <2>3, <2>4, HelpWritesOnce
  <1>7. CASE cells[c].val # Null BY <1>2, <1>7, <1>1, <1>4, <1>5, HelpLooksOnce DEF HelpSeal, Cas
  <1>8. QED BY <1>6, <1>7

LEMMA HelpSignOnce ==
    ASSUME IInv, Bounded, TypeInv', Signed, Sought, NEW t \in Thread, HelpOffer(t) \/ HelpClose(t)
    PROVE  Signed' /\ Sought'
  <1>1. pc[t] \in HelpPcs /\ UNCHANGED <<enq, deq>> BY DEF HelpOffer, HelpClose, HelpPcs
  <1>2. PICK c \in Number, f \in Local : /\ f = local[t] /\ f.i = c /\ f.cell = c /\ cells[c] # Null /\ cells[c] \in Cell
                               /\ HelpAt(pc[t], f) /\ ReadAt(pc[t], f)
    BY <1>1, HelpIn
  <1>3. PICK v : /\ Cas(c, "enq", v) /\ v \in Thread \cup {Top}
                 /\ v \in Thread => enq[v].id # 0 /\ enq[v].id <= c
    BY <1>2, <1>1, Nulls DEF HelpOffer, HelpAt, ReadAt, HelpClose
  <1>4. PICK m, g : /\ m = pc'[t] /\ g = local'[t] /\ Still(t) /\ m \in {"helpEmpty", "helpId"}
                    /\ g.ph = f.ph /\ g.did = f.did /\ g.i = f.i /\ g.back = f.back
    <2>1. PICK e : Found(t, e) BY DEF HelpOffer, HelpClose
    <2>2. QED BY <1>2, <2>1, HelpFoundIs
  <1>5. ReadAt(m, g) /\ ReadAt(m, g)' /\ m \in HelpPcs BY <1>4 DEF ReadAt, HelpPcs
  <1>6. CASE cells[c].enq = Null
    <2> DEFINE r == [cells[c] EXCEPT !.enq = v]
    <2>1. r \in Cell /\ r.val = cells[c].val /\ r.deq = cells[c].deq /\ r.enq = v
      BY <1>2, <1>3 DEF Cell
    <2>2. cells' = [cells EXCEPT ![c] = r] BY <1>3, <1>6 DEF Cas
    <2> HIDE DEF r
    <2>3. ~Dead(c) /\ (Full(c) => r.val \notin {Null, Top}) BY <1>6, <2>1, Nulls DEF Full, Dead
    <2>4. r.enq \in Thread => enq[r.enq].id # 0 /\ enq[r.enq].id <= c BY <1>3, <2>1
    <2>5. QED BY <1>1, <1>2, <1>4, <1>5, <2>1, <2>2, <2>3, <2>4, HelpWritesOnce
  <1>7. CASE cells[c].enq # Null BY <1>3, <1>7, <1>1, <1>2, <1>4, <1>5, HelpLooksOnce DEF Cas
  <1>8. QED BY <1>6, <1>7

LEMMA HelpEmptyOnce ==
    ASSUME IInv, Bounded, TypeInv', Signed, Sought, NEW t \in Thread, HelpEmpty(t)
    PROVE  Signed' /\ Sought'
  <1>1. pc[t] = "helpEmpty" /\ pc[t] \in HelpPcs /\ UNCHANGED <<cells, enq, deq>>
    BY DEF HelpEmpty, HelpPcs, shared
  <1>2. PICK c \in Number, f \in Local : /\ f = local[t] /\ f.i = c /\ cells[c] # Null /\ ItemAt(c) /\ HelpAt(pc[t], f)
    BY <1>1, HelpIn
  <1>3. cells[c].enq = Top BY <1>1, <1>2 DEF HelpAt
  <1>4. Dead(c) BY <1>2, <1>3 DEF Dead, ItemAt
  <1>5. PICK v \in {Bot, Top} : Gives(t, v) BY DEF HelpEmpty
  <1>6. QED BY <1>1, <1>2, <1>4, <1>5, HelpGivesOnce

\* The request that signed the cell.
LEMMA SignerIs ==
    ASSUME IInv, Bounded, Signed, Sought, NEW t \in Thread,
           pc[t] \in {"helpId", "helpEv", "helpClaim", "helpId2", "helpVal2", "helpRaise", "helpSet"}
    PROVE  /\ pc[t] \in HelpPcs
           /\ \E c \in Number, f \in Local, e \in Thread :
                  /\ f = local[t] /\ f.i = c /\ c > 0 /\ f.cell = c /\ f.e = e /\ c \in Int /\ f \in Local
                  /\ cells[c] # Null /\ cells[c] \in Cell /\ cells[c].enq = e
                  /\ enq[e].id # 0 /\ enq[e].id <= c /\ enq[e].id \in Int /\ f.ei \in Int
                  /\ HelpAt(pc[t], f) /\ ReadAt(pc[t], f)
  <1>1. pc[t] \in HelpPcs BY DEF HelpPcs
  <1>2. PICK c \in Number, f \in Local : /\ f = local[t] /\ f.i = c /\ c > 0 /\ f.cell = c /\ c \in Int
                               /\ cells[c] # Null /\ cells[c] \in Cell /\ SignedAt(c)
                               /\ HelpAt(pc[t], f) /\ ReadAt(pc[t], f) /\ f \in Local
    BY <1>1, HelpIn
  <1>3. f.e \in Thread /\ cells[c].enq = f.e BY <1>1, <1>2 DEF HelpAt
  <1>4. enq[f.e].id # 0 /\ enq[f.e].id <= c /\ enq[f.e].id \in Int /\ f.ei \in Int
    BY <1>2, <1>3, RequestIs DEF SignedAt, IInv, Local
  <1>5. PICK e \in Thread : e = f.e BY <1>3
  <1>6. QED BY <1>1, <1>2, <1>3, <1>4, <1>5

LEMMA HelpReadsOnce ==
    ASSUME IInv, Bounded, TypeInv', Signed, Sought, NEW t \in Thread, HelpId(t) \/ HelpEv(t)
    PROVE  Signed' /\ Sought'
  <1>1. pc[t] \in {"helpId", "helpEv"} /\ UNCHANGED <<cells, enq, deq>>
    BY DEF HelpId, HelpEv, shared
  <1>2. PICK c \in Number, f \in Local, e \in Thread :
                  /\ f = local[t] /\ f.i = c /\ f.e = e /\ f \in Local /\ c \in Int
                  /\ enq[e].id # 0 /\ enq[e].id \in Int /\ f.ei \in Int /\ ReadAt(pc[t], f)
    BY <1>1, SignerIs
  <1>3. pc[t] \in HelpPcs BY <1>1 DEF HelpPcs
  <1>4. CASE HelpId(t)
    <2> DEFINE g == [f EXCEPT !.ei = enq[e].id]
    <2>1. pc' = [pc EXCEPT ![t] = "helpEv"] /\ local' = [local EXCEPT ![t] = g]
      BY <1>2, <1>4 DEF HelpId, Goto
    <2>2. g.ph = f.ph /\ g.did = f.did /\ g.i = f.i /\ g.back = f.back /\ g.e = e /\ g.ei = enq[e].id
      BY <1>2 DEF Local
    <2> HIDE DEF g
    <2>3. Still(t) /\ pc'[t] = "helpEv" /\ local'[t] = g BY <2>1 DEF IInv, TypeInv, Still
    <2>4. ReadAt("helpEv", g) /\ "helpEv" \in HelpPcs BY <2>2 DEF ReadAt, HelpPcs
    <2>5. QED BY <1>1, <1>2, <1>3, <2>2, <2>3, <2>4, HelpLooksOnce
  <1>5. CASE HelpEv(t)
    <2> DEFINE g == [f EXCEPT !.ev = enq[e].val]
               m == IF f.ei > 0 THEN "helpClaim" ELSE "helpId2"
    <2>1. pc' = [pc EXCEPT ![t] = m] /\ local' = [local EXCEPT ![t] = g]
      BY <1>2, <1>5 DEF HelpEv, Goto
    <2>2. g.ph = f.ph /\ g.did = f.did /\ g.i = f.i /\ g.back = f.back /\ g.e = e /\ g.ei = f.ei
          /\ g.ev = enq[e].val
      BY <1>2 DEF Local
    <2>3. enq[e].id < 0 \/ enq[e].id = f.ei BY <1>2, <1>5 DEF HelpEv, ReadAt
    <2>4. m \in {"helpClaim", "helpId2"} /\ (m = "helpId2" => enq[e].id < 0) BY <1>2, <2>3
    <2> HIDE DEF g, m
    <2>5. Still(t) /\ pc'[t] = m /\ local'[t] = g BY <2>1 DEF IInv, TypeInv, Still
    <2>6. ReadAt(m, g) /\ m \in HelpPcs BY <2>2, <2>3, <2>4 DEF ReadAt, HelpPcs
    <2>7. QED BY <1>1, <1>2, <1>3, <2>2, <2>5, <2>6, HelpLooksOnce
  <1>6. QED BY <1>4, <1>5

LEMMA HelpClaimOnce ==
    ASSUME IInv, Bounded, TypeInv', Signed, Sought, NEW t \in Thread, HelpClaim(t)
    PROVE  Signed' /\ Sought'
  <1>1. pc[t] = "helpClaim" /\ UNCHANGED <<cells, deq>> BY DEF HelpClaim
  <1>2. PICK c \in Number, f \in Local, e \in Thread :
                  /\ f = local[t] /\ f.i = c /\ c > 0 /\ f.e = e /\ f \in Local /\ c \in Int
                  /\ enq[e].id # 0 /\ enq[e].id \in Int /\ f.ei \in Int
                  /\ HelpAt(pc[t], f) /\ ReadAt(pc[t], f)
    BY <1>1, SignerIs
  <1>3. pc[t] \in HelpPcs BY <1>1 DEF HelpPcs
  <1>4. f.ei > 0 /\ (enq[e].id < 0 \/ enq[e].id = f.ei) /\ f.ev = enq[e].val
    BY <1>1, <1>2, <1>3 DEF HelpAt, ReadAt
  <1>5. CASE enq[e].id = f.ei
    <2>1. Keep(t, "helpRaise") /\ enq' = [enq EXCEPT ![e].id = -c] BY <1>2, <1>5 DEF HelpClaim
    <2>2. Still(t) /\ pc'[t] = "helpRaise" /\ local'[t] = f BY <1>2, <2>1, KeepIs DEF IInv
    <2>3. enq'[e].val = enq[e].val /\ enq'[e].id = -c /\ \A u \in Thread : u # e => enq'[u] = enq[u]
      BY <2>1 DEF IInv, TypeInv
    <2>4. enq'[e].id < 0 /\ ~(enq[e].id < 0) BY <1>2, <1>4, <1>5, <2>3
    <2>5. ReadAt("helpRaise", f)' /\ "helpRaise" \in HelpPcs BY DEF ReadAt, HelpPcs
    <2>6. AllSettled => SoughtAt("helpRaise", f)' BY <1>2, <1>3, <2>5, HelpIs, HelpSought
    <2>8. QED BY <1>1, <2>2, <2>3, <2>4, <2>5, <2>6, SoughtEnq
  <1>6. CASE enq[e].id # f.ei
    <2>1. Keep(t, "helpId2") /\ enq' = enq BY <1>2, <1>6 DEF HelpClaim, IInv, TypeInv
    <2>2. Still(t) /\ pc'[t] = "helpId2" /\ local'[t] = f BY <1>2, <2>1, KeepIs DEF IInv
    <2>3. ReadAt("helpId2", f) /\ "helpId2" \in HelpPcs BY <1>2, <1>4, <1>6 DEF ReadAt, HelpPcs
    <2>4. QED BY <1>1, <1>2, <1>3, <2>1, <2>2, <2>3, HelpLooksOnce
  <1>7. QED BY <1>5, <1>6

LEMMA HelpTestsOnce ==
    ASSUME IInv, Bounded, TypeInv', Signed, Sought, NEW t \in Thread,
           HelpId2(t) \/ HelpVal2(t) \/ HelpRaise(t)
    PROVE  Signed' /\ Sought'
  <1>1. pc[t] \in {"helpId2", "helpVal2", "helpRaise"} /\ UNCHANGED <<cells, enq, deq>>
    BY DEF HelpId2, HelpVal2, HelpRaise, shared
  <1>2. PICK c \in Number, f \in Local, e \in Thread :
                  /\ f = local[t] /\ f.i = c /\ f.cell = c /\ f.e = e
                  /\ cells[c] # Null /\ cells[c].enq = e /\ ReadAt(pc[t], f)
    BY <1>1, SignerIs
  <1>3. pc[t] \in HelpPcs BY <1>1 DEF HelpPcs
  <1>4. PICK m \in {"helpVal2", "helpNext", "helpRaise", "helpSet"} : Keep(t, m)
    BY DEF HelpId2, HelpVal2, HelpRaise
  <1>5. Still(t) /\ pc'[t] = m /\ local'[t] = f BY <1>2, <1>4, KeepIs DEF IInv
  <1>6. m = "helpVal2" => f.ev = enq[e].val
    BY <1>1, <1>2, <1>5 DEF HelpId2, HelpVal2, HelpRaise, Keep, Goto, IInv, TypeInv, ReadAt
  <1>7. m = "helpNext" /\ cells[c].val = Top => Dead(c)
    BY <1>1, <1>2, <1>5 DEF HelpId2, HelpVal2, HelpRaise, Keep, Goto, IInv, TypeInv, ReadAt, Dead
  <1>8. ReadAt(m, f) /\ m \in HelpPcs BY <1>2, <1>6, <1>7 DEF ReadAt, HelpPcs
  <1>9. QED BY <1>1, <1>2, <1>3, <1>5, <1>8, HelpLooksOnce

LEMMA HelpSetOnce ==
    ASSUME IInv, Bounded, TypeInv', Signed, Sought, NEW t \in Thread, HelpSet(t)
    PROVE  Signed' /\ Sought'
  <1>1. pc[t] = "helpSet" /\ UNCHANGED <<enq, deq>> /\ Keep(t, "helpNext") BY DEF HelpSet
  <1>2. PICK c \in Number, f \in Local, e \in Thread :
                  /\ f = local[t] /\ f.i = c /\ f.cell = c /\ f.e = e
                  /\ cells[c] # Null /\ cells[c] \in Cell /\ cells[c].enq = e
                  /\ enq[e].id # 0 /\ enq[e].id <= c /\ HelpAt(pc[t], f)
    BY <1>1, SignerIs
  <1>3. pc[t] \in HelpPcs BY <1>1 DEF HelpPcs
  <1>4. Still(t) /\ pc'[t] = "helpNext" /\ local'[t] = f BY <1>1, <1>2, KeepIs DEF IInv
  <1>5. Due(e, c, f.ev) BY <1>1, <1>2, <1>3 DEF HelpAt
  <1>6. f.ev \in Op BY CurrentIs, <1>5 DEF IInv, Open, OpenPcs, Pc, InCall, Registered, Due
  <1> DEFINE r == [cells[c] EXCEPT !.val = f.ev]
  <1>7. r \in Cell /\ r.enq = e /\ r.deq = cells[c].deq /\ r.val = f.ev BY <1>2, <1>6 DEF Cell, Item
  <1>8. cells' = [cells EXCEPT ![c] = r] BY <1>2 DEF HelpSet
  <1> HIDE DEF r
  <1>9. ~Dead(c) BY <1>2, <1>5, Nulls DEF Dead, Due
  <1>10. ReadAt("helpNext", f)' /\ "helpNext" \in HelpPcs
    <2>1. cells'[c].val # Top BY <1>6, <1>7, <1>8, Nulls DEF IInv, TypeInv
    <2>2. QED BY <1>2, <2>1 DEF ReadAt, HelpPcs
  <1>11. r.val \notin {Null, Top} BY <1>6, <1>7, Nulls
  <1>12. QED BY <1>1, <1>2, <1>3, <1>4, <1>7, <1>8, <1>9, <1>10, <1>11, HelpWritesOnce

LEMMA HelpEndsOnce ==
    ASSUME IInv, Bounded, TypeInv', Signed, Sought, NEW t \in Thread, HelpNext(t) \/ HelpDone(t)
    PROVE  Signed' /\ Sought'
  <1>1. pc[t] \in {"helpNext", "helpDone"} /\ UNCHANGED <<cells, enq, deq>>
    BY DEF HelpNext, HelpDone, shared
  <1>2. pc[t] \in HelpPcs BY <1>1 DEF HelpPcs
  <1>3. PICK c \in Number, f \in Local : /\ f = local[t] /\ f.i = c /\ f.cell = c /\ cells[c] # Null /\ cells[c] \in Cell
                               /\ HelpAt(pc[t], f) /\ ReadAt(pc[t], f)
    BY <1>2, HelpIn
  <1>4. cells[c].val # Null /\ (cells[c].val = Top => Dead(c))
    BY <1>1, <1>2, <1>3 DEF HelpAt, ReadAt
  <1>5. CASE HelpNext(t)
    BY <1>3, <1>5, KeepIs, <1>4, <1>1, <1>2, HelpLooksOnce DEF HelpNext, IInv, ReadAt, HelpPcs
  <1>6. CASE HelpDone(t)
    BY <1>3, <1>6, <1>4, Nulls, <1>1, <1>2, HelpGivesOnce DEF HelpDone, Full, Cell, Item
  <1>7. QED BY <1>5, <1>6

-----------------------------------------------------------------------------
(* Steps of help_deq.                                                      *)

LEMMA SeekIn ==
    ASSUME IInv, Bounded, Sought, NEW t \in Thread, pc[t] \in SeekPcs \ {"askIdx", "askId"}
    PROVE  \E p \in Thread, id \in Int, x \in Int, i \in Int, f \in Local :
               /\ f = local[t] /\ p = f.ph /\ id = f.did /\ x = f.idx /\ i = f.i
               /\ SeekAt(t, pc[t], f) /\ ReadAt(pc[t], f) /\ SoughtAt(pc[t], f) /\ WantedAt(p)
               /\ id >= 0 /\ id <= deq[p].id /\ deq[p].id \in Nat /\ deq[p].idx \in Int
               /\ popIndex \in Nat /\ popIndex < Cells /\ Cells \in Nat
               /\ f.then \in {"slowDone", "dequeued"} /\ f.dp \in Nat
  <1>1. PICK f \in Local : f = local[t] /\ SeekAt(t, pc[t], f) BY SeekIs
  <1>2. f.ph \in Thread /\ f.did \in Int /\ f.idx \in Int /\ f.i \in Int BY <1>1, SeekIs
  <1>3. f.did \in 0 .. deq[f.ph].id /\ deq[f.ph].id \in Nat /\ deq[f.ph].idx \in Int
    BY <1>1, SeekIs DEF SeekAt
  <1>4. ReadAt(pc[t], f) /\ SoughtAt(pc[t], f) /\ WantedAt(f.ph) BY <1>1, <1>2 DEF Sought
  <1>5. /\ popIndex \in Nat /\ popIndex < Cells /\ Cells \in Nat
        /\ f.then \in {"slowDone", "dequeued"} /\ f.dp \in Nat
    BY <1>1, SeekIs
  <1>6. f.did >= 0 /\ f.did <= deq[f.ph].id BY <1>2, <1>3
  <1>7. PICK p \in Thread, id \in Int, x \in Int, i \in Int : p = f.ph /\ id = f.did /\ x = f.idx /\ i = f.i
    BY <1>2
  <1>8. QED BY <1>1, <1>3, <1>4, <1>5, <1>6, <1>7

LEMMA LeaveOnce ==
    ASSUME IInv, Bounded, TypeInv', Signed, Sought, NEW t \in Thread, pc[t] \in SeekPcs, Leave(t),
           UNCHANGED <<cells, enq>>, Wishes
    PROVE  Signed' /\ Sought'
  <1>1. local[t].then \in {"slowDone", "dequeued"} BY SeekIs
  <1>2. pc'[t] \in {"slowDone", "dequeued"} /\ Still(t)
    BY <1>1 DEF Leave, Goto, Still, IInv, TypeInv
  <1>3. {"slowDone", "dequeued"} \subseteq PlainPcs \ HelpPcs BY DEF PlainPcs, PcLabels, HelpPcs
  <1>4. PICK l, f : l \in PlainPcs /\ l = pc'[t] /\ f = local'[t] /\ l \notin HelpPcs BY <1>2, <1>3
  <1>5. ReadAt(l, f)' /\ SoughtAt(l, f)' BY <1>4, PlainIs
  <1>6. QED BY <1>2, <1>4, <1>5, SoughtDeq

\* One more round, for index i.
LEMMA RoundIs ==
    ASSUME IInv, NEW t \in Thread, NEW f \in Local, f = local[t],
           NEW idx \in Int, NEW old \in Int, NEW i \in Int, Round(t, idx, old, i)
    PROVE  \E m, g : /\ Still(t) /\ pc'[t] = m /\ local'[t] = g
                     /\ m = (IF idx = old THEN "seekCell" ELSE "moved")
                     /\ g.ph = f.ph /\ g.did = f.did /\ g.i = i /\ g.idx = idx
  <1>1. CASE idx = old
    <2> DEFINE n == FindCell(f.dp, i)
               g == [f EXCEPT !.idx = idx, !.old = old, !.i = i, !.dp = n, !.cell = At(n, i),
                              !.back = "seekDeq"]
    <2>1. local' = [local EXCEPT ![t] = g] /\ pc' = [pc EXCEPT ![t] = "seekCell"]
      BY ZenonT(60), <1>1 DEF Round, Goto
    <2>2. g.ph = f.ph /\ g.did = f.did /\ g.i = i /\ g.idx = idx BY DEF Local
    <2> HIDE DEF g
    <2>3. Still(t) /\ pc'[t] = "seekCell" /\ local'[t] = g BY <2>1 DEF IInv, TypeInv, Still
    <2>4. QED BY <1>1, <2>2, <2>3
  <1>2. CASE idx # old
    <2> DEFINE g == [f EXCEPT !.idx = idx, !.old = old, !.i = i]
    <2>1. local' = [local EXCEPT ![t] = g] /\ pc' = [pc EXCEPT ![t] = "moved"]
      BY <1>2 DEF Round, Goto
    <2>2. g.ph = f.ph /\ g.did = f.did /\ g.i = i /\ g.idx = idx BY DEF Local
    <2> HIDE DEF g
    <2>3. Still(t) /\ pc'[t] = "moved" /\ local'[t] = g BY <2>1 DEF IInv, TypeInv, Still
    <2>4. QED BY <1>2, <2>2, <2>3
  <1>3. QED BY <1>1, <1>2

LEMMA RoundOnce ==
    ASSUME IInv, Bounded, TypeInv', Signed, Sought, NEW t \in Thread, NEW f \in Local, f = local[t],
           UNCHANGED <<cells, enq, deq>>,
           NEW idx \in Int, NEW old \in Int, NEW i \in Int, Round(t, idx, old, i),
           PassedTo(f.ph, f.did, i),
           idx # old /\ deq[f.ph].id = f.did => PassedTo(f.ph, f.did, idx)
    PROVE  Signed' /\ Sought'
  <1>1. PICK m, g : /\ Still(t) /\ pc'[t] = m /\ local'[t] = g
                    /\ m = (IF idx = old THEN "seekCell" ELSE "moved")
                    /\ g.ph = f.ph /\ g.did = f.did /\ g.i = i /\ g.idx = idx
    BY RoundIs
  <1>2. m \in {"seekCell", "moved"} /\ (m = "moved" => idx # old) BY <1>1
  <1>3. ReadAt(m, g) BY <1>2 DEF ReadAt
  <1>4. PassedTo(g.ph, g.did, g.i) /\ (m = "moved" /\ deq[g.ph].id = g.did => PassedTo(g.ph, g.did, g.idx))
    BY <1>1, <1>2
  <1>5. SoughtAt(m, g) BY <1>2, <1>4 DEF SoughtAt, HelpPcs
  <1>6. QED BY <1>1, <1>3, <1>5, SoughtLooks

\* The request, as it is read, is behind cells that have nothing to give.
LEMMA WantedIs ==
    ASSUME NEW p \in Thread, WantedAt(p), deq[p].id \in Nat, deq[p].idx \in Int
    PROVE  PassedTo(p, deq[p].id, deq[p].idx)
  <1>1. CASE deq[p].idx > deq[p].id BY <1>1 DEF WantedAt
  <1>2. CASE ~(deq[p].idx > deq[p].id) BY <1>2, Nulls DEF PassedTo, Number
  <1>3. QED BY <1>1, <1>2

LEMMA AskAgainOnce ==
    ASSUME IInv, Bounded, TypeInv', Signed, Sought, NEW t \in Thread, AskAgain(t)
    PROVE  Signed' /\ Sought'
  <1>1. pc[t] \in SeekPcs \ {"askIdx", "askId"} /\ UNCHANGED <<cells, enq, deq>>
    BY DEF AskAgain, SeekPcs, shared
  <1>2. PICK p \in Thread, id \in Int, f \in Local : /\ f = local[t] /\ p = f.ph /\ id = f.did /\ WantedAt(p)
                                                     /\ deq[p].id \in Nat /\ deq[p].idx \in Int
    BY <1>1, SeekIn
  <1>3. PICK x \in Int, i \in Int : x = deq[p].idx /\ i = id + 1 BY <1>2
  <1>4. Round(t, x, id, i) BY <1>2, <1>3 DEF AskAgain
  <1>5. PassedTo(p, id, i) BY <1>3, Nulls DEF PassedTo, Number
  <1>6. deq[p].id = id => PassedTo(p, id, x) BY <1>2, <1>3, WantedIs
  <1>7. QED BY <1>1, <1>2, <1>4, <1>5, <1>6, RoundOnce

LEMMA SeekAgainOnce ==
    ASSUME IInv, Bounded, TypeInv', Signed, Sought, NEW t \in Thread, SeekAgain(t)
    PROVE  Signed' /\ Sought'
  <1>1. pc[t] = "seekAgain" /\ pc[t] \in SeekPcs \ {"askIdx", "askId"} /\ UNCHANGED <<cells, enq, deq>>
    BY DEF SeekAgain, SeekAgainAt, SeekPcs, shared
  <1>2. PICK p \in Thread, id \in Int, i \in Int, f \in Local :
            /\ f = local[t] /\ p = f.ph /\ id = f.did /\ i = f.i /\ WantedAt(p)
            /\ deq[p].id \in Nat /\ deq[p].idx \in Int /\ SoughtAt(pc[t], f)
    BY <1>1, SeekIn
  <1>3. PICK x \in Int, old \in Int, j \in Int : x = deq[p].idx /\ old = f.old /\ j = i + 1
    BY <1>2 DEF Local
  <1>4. Round(t, x, old, j) BY <1>2, <1>3 DEF SeekAgain, SeekAgainAt
  <1>5. PassedTo(p, id, i) /\ Passed(p, i) BY <1>1, <1>2 DEF SoughtAt
  <1>6. PassedTo(p, id, j) BY <1>3, Nulls, <1>5 DEF Number, PassedTo
  <1>7. deq[p].id = id => PassedTo(p, id, x) BY <1>2, <1>3, WantedIs
  <1>8. QED BY <1>1, <1>2, <1>4, <1>6, <1>7, RoundOnce

LEMMA SeekNextOnce ==
    ASSUME IInv, Bounded, TypeInv', Signed, Sought, NEW t \in Thread, SeekCell(t) \/ SeekRaise(t)
    PROVE  Signed' /\ Sought'
  <1>1. pc[t] \in {"seekCell", "seekRaise"} /\ UNCHANGED <<cells, enq, deq>>
    BY DEF SeekCell, SeekRaise, shared
  <1>2. pc[t] \in SeekPcs \ {"askIdx", "askId"} BY <1>1 DEF SeekPcs
  <1>3. PICK f \in Local : f = local[t] /\ SoughtAt(pc[t], f) BY <1>2, SeekIn
  <1>4. PICK m \in {"seekNew", "seekRaise", "helpVal"} : Keep(t, m) BY DEF SeekCell, SeekRaise
  <1>5. Still(t) /\ pc'[t] = m /\ local'[t] = f BY <1>3, <1>4, KeepIs DEF IInv
  <1>6. PassedTo(f.ph, f.did, f.i) BY <1>1, <1>3 DEF SoughtAt
  <1>7. ReadAt(m, f) /\ SoughtAt(m, f) BY <1>6 DEF ReadAt, SoughtAt
  <1>8. QED BY <1>1, <1>5, <1>7, SoughtLooks

LEMMA SeekNewOnce ==
    ASSUME IInv, Bounded, TypeInv', Signed, Sought, NEW t \in Thread, SeekNew(t)
    PROVE  Signed' /\ Sought'
  <1>1. pc[t] = "seekNew" /\ UNCHANGED <<enq, deq>> /\ Keep(t, "seekRaise") BY DEF SeekNew
  <1>2. pc[t] \in SeekPcs \ {"askIdx", "askId"} BY <1>1 DEF SeekPcs
  <1>3. PICK id \in Int, i \in Int, f \in Local :
            /\ f = local[t] /\ id = f.did /\ i = f.i /\ SoughtAt(pc[t], f) /\ SeekAt(t, pc[t], f)
            /\ id >= 0 /\ popIndex \in Nat /\ popIndex < Cells /\ Cells \in Nat
    BY <1>2, SeekIn
  <1>4. Still(t) /\ pc'[t] = "seekRaise" /\ local'[t] = f BY <1>1, <1>3, KeepIs DEF IInv
  <1>5. PassedTo(f.ph, f.did, f.i) BY <1>1, <1>3 DEF SoughtAt
  <1>6. ReadAt("seekRaise", f) /\ SoughtAt("seekRaise", f) /\ ReadAt("seekRaise", f)'
    BY <1>5 DEF ReadAt, SoughtAt, HelpPcs
  <1>7. f.cell = i /\ i \in Number BY <1>1, <1>3 DEF SeekAt, Number
  <1>8. CASE cells[i] = Null
    <2>1. cells' = [cells EXCEPT ![i] = NewCell(Null, Null)] BY <1>3, <1>7, <1>8 DEF SeekNew, Empty
    <2>2. NewCell(Null, Null) \in Cell /\ NewCell(Null, Null).enq = Null BY DEF NewCell, Cell
    <2>3. ~Full(i) /\ ~Dead(i) BY <1>8 DEF Full, Dead
    <2>4. AllSettled => SoughtAt("seekRaise", f)' BY <1>6, SoughtStays
    <2>5. QED BY <1>1, <1>4, <1>6, <1>7, <1>8, <2>1, <2>2, <2>3, <2>4, Nulls, SoughtCell
  <1>9. CASE cells[i] # Null BY <1>3, <1>7, <1>9, <1>1, <1>4, <1>6, SoughtLooks DEF SeekNew, Empty
  <1>10. QED BY <1>8, <1>9

\* A request that is written for p and is answered by that.
LEMMA AnsweredWishes ==
    ASSUME IInv, NEW p \in Thread, \A u \in Thread \ {p} : deq'[u] = deq[u],
           deq'[p].id = deq[p].id, deq'[p].idx \in Int, deq'[p].idx < 0
    PROVE  Wishes
  <1>1. \A u \in Thread : deq[u].id \in Nat BY DEF IInv, TypeInv
  <1>2. ~(deq'[p].idx > deq'[p].id) BY <1>1
  <1>3. WantedAt(p)' BY <1>2 DEF WantedAt
  <1>4. ASSUME NEW u \in Thread
        PROVE  deq'[u].id \in Nat /\ deq[u].id <= deq'[u].id /\ (deq'[u] = deq[u] \/ WantedAt(u)')
    BY <1>2, <1>1 DEF WantedAt
  <1>5. QED BY <1>4 DEF Wishes

LEMMA SeekDeqOnce ==
    ASSUME IInv, Bounded, TypeInv', Signed, Sought, NEW t \in Thread, SeekDeq(t)
    PROVE  Signed' /\ Sought'
  <1>1. pc[t] = "seekDeq" /\ UNCHANGED <<cells, enq>> BY DEF SeekDeq
  <1>2. pc[t] \in SeekPcs \ {"askIdx", "askId"} BY <1>1 DEF SeekPcs
  <1>3. PICK p \in Thread, id \in Int, x \in Int, i \in Int, f \in Local :
            /\ f = local[t] /\ p = f.ph /\ id = f.did /\ x = f.idx /\ i = f.i
            /\ SoughtAt(pc[t], f) /\ SeekAt(t, pc[t], f) /\ ReadAt(pc[t], f)
            /\ id >= 0 /\ popIndex \in Nat /\ popIndex < Cells /\ Cells \in Nat
    BY <1>2, SeekIn
  <1>4. /\ i > 0 /\ i \in Number /\ f.cell = i /\ cells[i] # Null
        /\ PassedTo(p, id, i) /\ IF f.val \in {Top, Bot} THEN Dead(i) ELSE Full(i)
    BY <1>1, <1>3 DEF SeekAt, SoughtAt, ReadAt, Number
  <1>5. CASE f.val = Bot /\ deq[p].idx = x
    <2>1. x >= 0 BY <1>1, <1>3 DEF SeekAt
    <2>2. deq' = [deq EXCEPT ![p].idx = -i] BY <1>3, <1>5 DEF SeekDeq
    <2>3. deq'[p].id = deq[p].id /\ deq'[p].idx = -i /\ \A u \in Thread \ {p} : deq'[u] = deq[u]
      BY <2>2 DEF IInv, TypeInv
    <2>4. deq'[p].idx \in Int /\ deq'[p].idx < 0 /\ deq'[p].idx # deq[p].idx
      BY <1>4, <1>5, <2>1, <2>3
    <2>5. Leave(t) BY <2>4 DEF SeekDeq
    <2>6. QED BY <1>1, <1>2, <2>3, <2>4, <2>5, AnsweredWishes, LeaveOnce
  <1>6. CASE ~(f.val = Bot /\ deq[p].idx = x)
    <2>1. deq' = deq BY <1>3, <1>6 DEF SeekDeq
    <2>2. CASE f.val \notin {Top, Bot} /\ cells[i].deq \in {Null, p}
      <3> DEFINE g == [f EXCEPT !.new = i]
      <3>1. local' = [local EXCEPT ![t] = g] /\ pc' = [pc EXCEPT ![t] = "offerIdx"]
        BY <1>3, <1>4, <2>1, <2>2 DEF SeekDeq, Goto
      <3>2. g.ph = p /\ g.did = id /\ g.i = i BY <1>3 DEF Local
      <3> HIDE DEF g
      <3>3. Still(t) /\ pc'[t] = "offerIdx" /\ local'[t] = g BY <3>1 DEF IInv, TypeInv, Still
      <3>4. Full(g.i) /\ PassedTo(g.ph, g.did, g.i) BY <1>4, <2>2, <3>2
      <3>5. ReadAt("offerIdx", g) /\ SoughtAt("offerIdx", g) BY <3>4 DEF ReadAt, SoughtAt, HelpPcs
      <3>6. QED BY <1>1, <2>1, <3>3, <3>5, SoughtLooks
    <2>3. CASE ~(f.val \notin {Top, Bot} /\ cells[i].deq \in {Null, p})
      BY <1>3, <1>4, <2>1, <2>3, KeepIs, <1>1, SoughtLooks DEF SeekDeq, IInv, Passed, ReadAt, SoughtAt,
         HelpPcs
    <2>4. QED BY <2>2, <2>3
  <1>7. QED BY <1>5, <1>6

LEMMA TakeGoes ==
    ASSUME IInv, NEW t \in Thread, NEW f \in Local, f = local[t], NEW x \in Int, Take(t, x)
    PROVE  \E g : /\ Still(t) /\ pc'[t] = "take" /\ local'[t] = g
                  /\ g.ph = f.ph /\ g.did = f.did /\ g.idx = x
  <1> DEFINE n == FindCell(f.dp, x)
             g == [f EXCEPT !.idx = x, !.dp = n, !.cell = At(n, x), !.new = 0]
  <1>1. local' = [local EXCEPT ![t] = g] /\ pc' = [pc EXCEPT ![t] = "take"] BY DEF Take, Goto
  <1>2. g.ph = f.ph /\ g.did = f.did /\ g.idx = x BY DEF Local
  <1> HIDE DEF g
  <1>3. Still(t) /\ pc'[t] = "take" /\ local'[t] = g BY <1>1 DEF IInv, TypeInv, Still
  <1>4. QED BY <1>2, <1>3

LEMMA TakeOnce ==
    ASSUME IInv, Bounded, TypeInv', Signed, Sought, NEW t \in Thread, NEW f \in Local, f = local[t],
           UNCHANGED <<cells, enq>>, NEW x \in Int, Take(t, x), Wishes, PassedTo(f.ph, f.did, x)
    PROVE  Signed' /\ Sought'
  <1>1. PICK g : /\ Still(t) /\ pc'[t] = "take" /\ local'[t] = g
                 /\ g.ph = f.ph /\ g.did = f.did /\ g.idx = x
    BY TakeGoes
  <1>2. AllSettled BY DEF AllSettled, Settled, Full, Dead
  <1>3. ReadAt("take", g)' /\ SoughtAt("take", g) BY <1>1 DEF ReadAt, SoughtAt, HelpPcs
  <1>4. SoughtAt("take", g)' BY <1>2, <1>3, SoughtStays
  <1>5. QED BY <1>1, <1>3, <1>4, SoughtDeq

LEMMA OfferIdxOnce ==
    ASSUME IInv, Bounded, TypeInv', Signed, Sought, NEW t \in Thread, OfferIdx(t)
    PROVE  Signed' /\ Sought'
  <1>1. pc[t] = "offerIdx" /\ UNCHANGED <<cells, enq, deq>> BY DEF OfferIdx, shared
  <1>2. pc[t] \in SeekPcs \ {"askIdx", "askId"} BY <1>1 DEF SeekPcs
  <1>3. PICK p \in Thread, id \in Int, i \in Int, f \in Local :
            /\ f = local[t] /\ p = f.ph /\ id = f.did /\ i = f.i
            /\ SoughtAt(pc[t], f) /\ WantedAt(p) /\ deq[p].id \in Nat /\ deq[p].idx \in Int
    BY <1>2, SeekIn
  <1>4. CASE deq[p].idx < 0 BY <1>1, <1>3, <1>4, WishesStill, <1>2, LeaveOnce DEF OfferIdx
  <1>5. CASE ~(deq[p].idx < 0)
    <2> DEFINE g == [f EXCEPT !.idx = deq[p].idx]
    <2>1. local' = [local EXCEPT ![t] = g] /\ pc' = [pc EXCEPT ![t] = "offerId"]
      BY <1>3, <1>5 DEF OfferIdx, Goto
    <2>2. g.ph = p /\ g.did = id /\ g.i = i /\ g.idx = deq[p].idx BY <1>3 DEF Local
    <2> HIDE DEF g
    <2>3. Still(t) /\ pc'[t] = "offerId" /\ local'[t] = g BY <2>1 DEF IInv, TypeInv, Still
    <2>4. PassedTo(p, id, i) /\ Full(i) BY <1>1, <1>3 DEF SoughtAt
    <2>5. deq[p].id = id => PassedTo(p, id, deq[p].idx) BY <1>3, WantedIs
    <2>6. ReadAt("offerId", g) /\ SoughtAt("offerId", g)
      BY <2>2, <2>4, <2>5 DEF ReadAt, SoughtAt, HelpPcs
    <2>7. QED BY <1>1, <2>3, <2>6, SoughtLooks
  <1>6. QED BY <1>4, <1>5

LEMMA OfferIdOnce ==
    ASSUME IInv, Bounded, TypeInv', Signed, Sought, NEW t \in Thread, OfferId(t)
    PROVE  Signed' /\ Sought'
  <1>1. pc[t] = "offerId" /\ UNCHANGED <<cells, enq, deq>> BY DEF OfferId, shared
  <1>2. pc[t] \in SeekPcs \ {"askIdx", "askId"} BY <1>1 DEF SeekPcs
  <1>3. PICK p \in Thread, id \in Int, x \in Int, f \in Local :
            /\ f = local[t] /\ p = f.ph /\ id = f.did /\ x = f.idx /\ SoughtAt(pc[t], f)
    BY <1>2, SeekIn
  <1>4. Wishes BY <1>1, WishesStill
  <1>5. CASE deq[p].id # id BY <1>3, <1>5, <1>1, <1>2, <1>4, LeaveOnce DEF OfferId
  <1>6. CASE deq[p].id = id /\ Take(t, x) BY <1>1, <1>3, <1>6, <1>4, TakeOnce DEF SoughtAt
  <1>7. CASE Keep(t, "offerCas")
    BY <1>3, <1>7, KeepIs, <1>1, SoughtLooks DEF IInv, ReadAt, SoughtAt, HelpPcs
  <1>8. QED BY <1>3, <1>5, <1>6, <1>7 DEF OfferId

LEMMA OfferCasOnce ==
    ASSUME IInv, Bounded, TypeInv', Signed, Sought, NEW t \in Thread, OfferCas(t)
    PROVE  Signed' /\ Sought'
  <1>1. pc[t] = "offerCas" /\ UNCHANGED <<cells, enq>> BY DEF OfferCas
  <1>2. pc[t] \in SeekPcs \ {"askIdx", "askId"} BY <1>1 DEF SeekPcs
  <1>3. PICK p \in Thread, id \in Int, x \in Int, i \in Int, f \in Local :
            /\ f = local[t] /\ p = f.ph /\ id = f.did /\ x = f.idx /\ i = f.i
            /\ SoughtAt(pc[t], f) /\ SeekAt(t, pc[t], f) /\ deq[p].id \in Nat
    BY <1>2, SeekIn
  <1>4. x >= 0 /\ Bound(p, id, x) /\ f.new = i BY <1>1, <1>3 DEF SeekAt
  <1>5. PassedTo(p, id, i) /\ Full(i) BY <1>1, <1>3 DEF SoughtAt
  <1>6. CASE deq[p].idx = x
    <2>1. deq[p].id = id BY <1>3, <1>4, <1>6, PendingIs
    <2>2. deq' = [deq EXCEPT ![p].idx = i] /\ Take(t, i) BY <1>3, <1>4, <1>6 DEF OfferCas
    <2>3. deq'[p].id = id /\ deq'[p].idx = i /\ \A u \in Thread : u # p => deq'[u] = deq[u] /\ deq[u].id \in Nat
      BY <1>3, <2>1, <2>2 DEF IInv, TypeInv
    <2>4. AllSettled BY <1>1 DEF AllSettled, Settled, Full, Dead
    <2>5. Full(i)' /\ PassedTo(p, id, i)' BY <1>5, <2>4, PassedStays, <1>1 DEF Full
    <2>6. ASSUME NEW u \in Thread
          PROVE  deq'[u].id \in Nat /\ deq[u].id <= deq'[u].id /\ (deq'[u] = deq[u] \/ WantedAt(u)')
      BY <1>3, <2>1, <2>3, <2>5 DEF PassedTo, Passed, Dead, WantedAt
    <2>7. Wishes BY <2>6 DEF Wishes
    <2>8. QED BY <1>1, <1>3, <1>5, <2>2, <2>7, TakeOnce
  <1>7. CASE deq[p].idx # x
    BY <1>3, <1>7, KeepIs, <1>1, SoughtLooks DEF OfferCas, IInv, ReadAt, SoughtAt, HelpPcs
  <1>8. QED BY <1>6, <1>7

LEMMA MovedOnce ==
    ASSUME IInv, Bounded, TypeInv', Signed, Sought, NEW t \in Thread, Moved(t)
    PROVE  Signed' /\ Sought'
  <1>1. pc[t] = "moved" /\ UNCHANGED <<cells, enq, deq>> BY DEF Moved, shared
  <1>2. pc[t] \in SeekPcs \ {"askIdx", "askId"} BY <1>1 DEF SeekPcs
  <1>3. PICK p \in Thread, id \in Int, x \in Int, i \in Int, f \in Local :
            /\ f = local[t] /\ p = f.ph /\ id = f.did /\ x = f.idx /\ i = f.i /\ SoughtAt(pc[t], f)
    BY <1>2, SeekIn
  <1>4. Wishes BY <1>1, WishesStill
  <1>5. PassedTo(p, id, i) /\ (deq[p].id = id => PassedTo(p, id, x)) BY <1>1, <1>3 DEF SoughtAt
  <1>6. Leave(t) \/ Round(t, x, x, i) \/ (deq[p].id = id /\ Take(t, x)) BY <1>3 DEF Moved
  <1>7. CASE Leave(t) BY <1>1, <1>2, <1>4, <1>7, LeaveOnce
  <1>8. CASE Round(t, x, x, i) BY <1>1, <1>3, <1>5, <1>8, RoundOnce
  <1>9. CASE deq[p].id = id /\ Take(t, x) BY <1>1, <1>3, <1>4, <1>5, <1>9, TakeOnce
  <1>10. QED BY <1>6, <1>7, <1>8, <1>9

LEMMA TakeCellOnce ==
    ASSUME IInv, Bounded, TypeInv', Signed, Sought, NEW t \in Thread, TakeCell(t)
    PROVE  Signed' /\ Sought'
  <1>1. pc[t] = "take" /\ UNCHANGED <<enq, deq>> BY DEF TakeCell
  <1>2. pc[t] \in SeekPcs \ {"askIdx", "askId"} BY <1>1 DEF SeekPcs
  <1>3. PICK p \in Thread, id \in Int, x \in Int, f \in Local :
            /\ f = local[t] /\ p = f.ph /\ id = f.did /\ x = f.idx
            /\ SoughtAt(pc[t], f) /\ SeekAt(t, pc[t], f)
            /\ id >= 0 /\ popIndex \in Nat /\ popIndex < Cells /\ Cells \in Nat
    BY <1>2, SeekIn
  <1>4. x \in Number /\ cells[x] # Null /\ f.cell = x BY <1>1, <1>3 DEF SeekAt, Bound, Number
  <1>5. PassedTo(p, id, x) /\ cells[x] \in Cell BY <1>1, <1>3, <1>4, CellIs DEF SoughtAt, IInv
  <1>6. PICK y \in Int : y = x + 1 BY <1>3
  <1>7. Cas(x, "deq", p) /\ IF cells'[x].deq = p THEN Keep(t, "finish") ELSE Round(t, x, x, y)
    BY <1>3, <1>4, <1>6 DEF TakeCell, Empty
  <1>8. cells \in [Number -> Cell \cup {Null}] BY DEF IInv, TypeInv
  <1>9. cells'[x] # Null /\ cells'[x].deq # Null BY <1>4, <1>5, <1>7, <1>8, Nulls DEF Cas, Cell
  <1>10. PICK m, g : /\ Still(t) /\ pc'[t] = m /\ local'[t] = g
                     /\ \/ m = "finish"
                        \/ /\ m = "seekCell" /\ cells'[x].deq # p
                           /\ g.ph = p /\ g.did = id /\ g.i = y
    BY <1>3, <1>7, KeepIs, RoundIs DEF IInv
  <1>11. ReadAt(m, g)' BY <1>10 DEF ReadAt
  <1>12. ASSUME AllSettled PROVE SoughtAt(m, g)'
    <2>1. CASE m = "finish" BY <2>1 DEF SoughtAt, HelpPcs
    <2>2. CASE m = "seekCell" /\ cells'[x].deq # p /\ g.ph = p /\ g.did = id /\ g.i = y
      <3>1. PassedTo(p, id, x)' BY <1>5, <1>12, PassedStays
      <3>2. Passed(p, x)' BY <1>4, <1>9, <2>2 DEF Passed
      <3>3. ASSUME NEW c \in Number, id < c, c < y PROVE Passed(p, c)'
        BY <1>6, <3>3, Nulls, <3>1, <3>2 DEF Number, PassedTo
      <3>4. PassedTo(p, id, y)' BY <3>3 DEF PassedTo
      <3>5. QED BY <2>2, <3>4 DEF SoughtAt, HelpPcs
    <2>3. QED BY <1>10, <2>1, <2>2
  <1>13. CASE cells[x].deq = Null
    <2> DEFINE r == [cells[x] EXCEPT !.deq = p]
    <2>1. r \in Cell /\ r.val = cells[x].val /\ r.enq = cells[x].enq BY <1>5 DEF Cell
    <2>2. cells' = [cells EXCEPT ![x] = r] BY <1>7, <1>13 DEF Cas
    <2> HIDE DEF r
    <2>3. (Full(x) => r.val \notin {Null, Top}) /\ (Dead(x) => r.val = Top) BY <2>1 DEF Full, Dead
    <2>4. r.enq \in Thread => enq[r.enq].id # 0 /\ enq[r.enq].id <= x
      BY <1>4, <2>1 DEF Signed, SignedAt
    <2>5. QED BY <1>1, <1>4, <1>10, <1>11, <1>12, <1>13, <2>1, <2>2, <2>3, <2>4, SoughtCell
  <1>14. CASE cells[x].deq # Null
    <2>1. cells' = cells BY <1>7, <1>14 DEF Cas
    <2>2. AllSettled /\ AllOnce /\ Wishes
      BY <1>1, <2>1, WishesStill DEF AllSettled, AllOnce, Settled, Once, Full, Dead
    <2>3. Sought' BY <1>10, <1>11, <1>12, <2>2, SoughtStep
    <2>4. QED BY <1>1, <2>1, <2>3 DEF Signed, SignedAt
  <1>15. QED BY <1>13, <1>14

LEMMA FinishOnce ==
    ASSUME IInv, Bounded, TypeInv', Signed, Sought, NEW t \in Thread, Finish(t)
    PROVE  Signed' /\ Sought'
  <1>1. pc[t] = "finish" /\ UNCHANGED <<cells, enq>> /\ Leave(t) BY DEF Finish
  <1>2. pc[t] \in SeekPcs \ {"askIdx", "askId"} BY <1>1 DEF SeekPcs
  <1>3. PICK p \in Thread, id \in Int, x \in Int, f \in Local :
            /\ f = local[t] /\ p = f.ph /\ id = f.did /\ x = f.idx /\ id >= 0 /\ SeekAt(t, pc[t], f)
    BY <1>2, SeekIn
  <1>4. x > 0 BY <1>1, <1>3 DEF SeekAt
  <1>5. deq' = [deq EXCEPT ![p].idx = IF @ = x THEN -x ELSE @] BY <1>3 DEF Finish
  <1>6. Wishes
    <2>1. CASE deq[p].idx = x
      <3>1. deq'[p].id = deq[p].id /\ deq'[p].idx = -x /\ \A u \in Thread \ {p} : deq'[u] = deq[u]
        BY <1>5, <2>1 DEF IInv, TypeInv
      <3>2. -x \in Int /\ -x < 0 BY <1>4
      <3>3. QED BY <3>1, <3>2, AnsweredWishes
    <2>2. CASE deq[p].idx # x
      <3>1. deq' = deq BY <1>5, <2>2 DEF IInv, TypeInv
      <3>2. QED BY <3>1, WishesStill
    <2>3. QED BY <2>1, <2>2
  <1>7. QED BY <1>1, <1>2, <1>6, LeaveOnce

-----------------------------------------------------------------------------
(* Requests come from enqueues: OneEnqueue gives OneRequest.               *)

AwayPcs == PcLabels \ (FastPcs \cup OpenPcs \cup {"chasePut"})

\* The step of t ends outside of an enqueue, or leaves what an enqueue goes by.
Outside(t) == (\E l \in AwayPcs : Goto(t, l)) /\ \A u \in Thread \ {t} : local'[u] = local[u]

LEMMA AwayIs ==
    /\ RegisterPcs \cup HelpPcs \cup SeekPcs \cup NodePcs \subseteq AwayPcs
    /\ {"idle", "popCell", "popNew", "popDeq", "slowDeqId", "slowDeqIdx", "slowDone", "slowGot",
        "dequeued"} \subseteq AwayPcs
  <1>1. {"idle", "popCell", "popNew", "popDeq", "slowDeqId", "slowDeqIdx", "slowDone", "slowGot",
         "dequeued"} \subseteq AwayPcs
    BY DEF AwayPcs, PcLabels, FastPcs, OpenPcs
  <1>2. RegisterPcs \cup NodePcs \subseteq AwayPcs
    BY DEF AwayPcs, PcLabels, FastPcs, OpenPcs, RegisterPcs, NodePcs
  <1>3. HelpPcs \subseteq AwayPcs BY DEF AwayPcs, PcLabels, FastPcs, OpenPcs, HelpPcs
  <1>4. SeekPcs \subseteq AwayPcs BY DEF AwayPcs, PcLabels, FastPcs, OpenPcs, SeekPcs
  <1>5. QED BY <1>1, <1>2, <1>3, <1>4

LEMMA MadeAway ==
    ASSUME TypeInv, MadeOnce, NEW t \in Thread, Outside(t), program' = program,
           \A u \in Thread : enq'[u].id = enq[u].id \/ enq[u].id # 0,
           \A u \in Thread \ {t} : calls'[u] = calls[u], calls[t] <= calls'[t], calls'[t] \in Nat
    PROVE  MadeOnce'
  <1>1. PICK l \in AwayPcs : Goto(t, l) BY DEF Outside
  <1>2. pc'[t] = l /\ \A u \in Thread \ {t} : pc'[u] = pc[u] BY <1>1, GotoIs
  <1>3. \A u \in Thread : calls[u] \in Nat BY Nulls DEF TypeInv
  <1>4. ASSUME NEW u \in Thread PROVE MadeInv(u)'
    BY <1>2, <1>3, Status DEF MadeOnce, InPut, Fast, Open, Pc, AwayPcs, MadeInv, Outside
  <1>5. QED BY <1>4 DEF MadeOnce

LEMMA KeepAway ==
    ASSUME TypeInv, NEW t \in Thread, NEW l \in AwayPcs, Keep(t, l)
    PROVE  Outside(t)
  BY DEF Keep, Outside

LEMMA GivesAway ==
    ASSUME IInv, Bounded, NEW t \in Thread, pc[t] \in HelpPcs, NEW v, Gives(t, v)
    PROVE  Outside(t)
  <1>1. local[t].back \in AwayPcs BY HelpIs, AwayIs DEF SeekPcs
  <1>2. \A u \in Thread \ {t} : local'[u] = local[u] BY DEF Gives, IInv, TypeInv
  <1>3. QED BY <1>1, <1>2 DEF Gives, Outside

LEMMA FoundAway ==
    ASSUME TypeInv, NEW t \in Thread, NEW e, Found(t, e)
    PROVE  Outside(t)
  <1>1. {"helpEmpty", "helpId"} \subseteq AwayPcs BY AwayIs DEF HelpPcs
  <1>2. \A u \in Thread \ {t} : local'[u] = local[u] BY DEF Found, Keep, TypeInv
  <1>3. Goto(t, "helpEmpty") \/ Goto(t, "helpId") BY DEF Found, Keep
  <1>4. QED BY <1>1, <1>2, <1>3 DEF Outside

LEMMA LeaveAway ==
    ASSUME IInv, Bounded, NEW t \in Thread, pc[t] \in SeekPcs, Leave(t)
    PROVE  Outside(t)
  <1>1. local[t].then \in AwayPcs BY SeekIs, AwayIs
  <1>2. \A u \in Thread \ {t} : local'[u] = local[u] BY DEF Leave, IInv, TypeInv
  <1>3. QED BY <1>1, <1>2 DEF Leave, Outside

LEMMA GotAway ==
    ASSUME TypeInv, NEW t \in Thread, NEW v, Got(t, v)
    PROVE  Outside(t)
  <1>1. {"idle", "askIdx"} \subseteq AwayPcs BY AwayIs DEF SeekPcs
  <1>2. \A u \in Thread \ {t} : local'[u] = local[u] BY DEF Got, Return, TypeInv
  <1>3. Goto(t, "idle") \/ Goto(t, "askIdx") BY DEF Got, Return
  <1>4. QED BY <1>1, <1>2, <1>3 DEF Outside

LEMMA RoundAway ==
    ASSUME TypeInv, NEW t \in Thread, NEW idx, NEW old, NEW i, Round(t, idx, old, i)
    PROVE  Outside(t)
  <1>1. {"seekCell", "moved"} \subseteq AwayPcs BY AwayIs DEF SeekPcs
  <1>2. \A u \in Thread \ {t} : local'[u] = local[u] BY DEF Round, TypeInv
  <1>3. Goto(t, "seekCell") \/ Goto(t, "moved") BY DEF Round
  <1>4. QED BY <1>1, <1>2, <1>3 DEF Outside

LEMMA TakeAway ==
    ASSUME TypeInv, NEW t \in Thread, NEW x, Take(t, x)
    PROVE  Outside(t)
  <1>1. "take" \in AwayPcs BY AwayIs DEF SeekPcs
  <1>2. \A u \in Thread \ {t} : local'[u] = local[u] BY DEF Take, TypeInv
  <1>3. QED BY <1>1, <1>2 DEF Take, Outside

LEMMA MadeStays ==
    ASSUME TypeInv, MadeOnce, NEW t \in Thread, Outside(t), enq' = enq, UNCHANGED <<program, calls>>
    PROVE  MadeOnce'
  <1>1. \A u \in Thread : calls[u] \in Nat /\ calls[u] <= calls[u] BY Nulls DEF TypeInv
  <1>2. QED BY <1>1, MadeAway

LEMMA MadeRegister ==
    ASSUME IInv, MadeOnce, NEW t \in Thread,
           \/ RegisterPut(t) \/ RegisterPop(t) \/ RegisterRing(t) \/ RegisterHelp(t) \/ RegisterDeq(t)
    PROVE  MadeOnce'
  <1>1. enq' = enq /\ UNCHANGED <<program, calls>>
    BY DEF RegisterPut, RegisterPop, RegisterRing, RegisterHelp, RegisterDeq, shared, history
  <1>2. PICK l \in {"registerPop", "registerRing", "registerHelp", "registerDeq", "idle"} : Keep(t, l)
    BY DEF RegisterPut, RegisterPop, RegisterRing, RegisterHelp, RegisterDeq
  <1>3. l \in AwayPcs BY AwayIs DEF RegisterPcs
  <1>4. QED BY <1>1, <1>2, <1>3, KeepAway, MadeStays DEF IInv

LEMMA MadeHelp ==
    ASSUME IInv, Bounded, MadeOnce, NEW t \in Thread, HelpSteps(t), ~HelpClaim(t)
    PROVE  MadeOnce'
  <1>1. enq' = enq /\ UNCHANGED <<program, calls>> /\ pc[t] \in HelpPcs
    <2>1. CASE HelpVal(t) \/ HelpSeal(t) \/ HelpLost(t) \/ HelpEnq(t) \/ HelpPeer(t) \/ HelpOffer(t)
               \/ HelpClose(t) \/ HelpEmpty(t)
      BY <2>1 DEF HelpVal, HelpSeal, HelpLost, HelpEnq, HelpPeer, HelpOffer, HelpClose, HelpEmpty,
                  shared, history, HelpPcs
    <2>2. CASE HelpId(t) \/ HelpEv(t) \/ HelpId2(t) \/ HelpVal2(t) \/ HelpRaise(t) \/ HelpSet(t)
               \/ HelpNext(t) \/ HelpDone(t)
      BY <2>2 DEF HelpId, HelpEv, HelpId2, HelpVal2, HelpRaise, HelpSet, HelpNext, HelpDone,
                  shared, history, HelpPcs
    <2>3. QED BY <2>1, <2>2 DEF HelpSteps
  <1>2. \/ \E v : Gives(t, v)
        \/ \E e : Found(t, e)
        \/ \E l \in HelpPcs : Goto(t, l) /\ \A u \in Thread \ {t} : local'[u] = local[u]
    <2>1. CASE HelpVal(t) \/ HelpSeal(t) \/ HelpLost(t) \/ HelpEnq(t)
      BY <2>1 DEF HelpVal, HelpSeal, HelpLost, HelpEnq, Keep, HelpPcs
    <2>2. CASE HelpOffer(t) \/ HelpClose(t) \/ HelpEmpty(t) \/ HelpDone(t)
      BY <2>2 DEF HelpOffer, HelpClose, HelpEmpty, HelpDone
    <2>3. CASE HelpPeer(t) \/ HelpId(t) \/ HelpEv(t)
      BY <2>3 DEF HelpPeer, HelpId, HelpEv, IInv, TypeInv, HelpPcs
    <2>4. CASE HelpId2(t) \/ HelpVal2(t) \/ HelpRaise(t) \/ HelpSet(t) \/ HelpNext(t)
      BY <2>4 DEF HelpId2, HelpVal2, HelpRaise, HelpSet, HelpNext, Keep, HelpPcs
    <2>5. QED BY <2>1, <2>2, <2>3, <2>4 DEF HelpSteps
  <1>3. Outside(t) BY AwayIs, <1>1, <1>2, GivesAway, FoundAway DEF Outside, IInv
  <1>4. QED BY <1>1, <1>3, MadeStays DEF IInv

LEMMA MadePop ==
    ASSUME IInv, Bounded, MadeOnce, NEW t \in Thread, PopSteps(t)
    PROVE  MadeOnce'
  <1>1. enq' = enq /\ UNCHANGED <<program, calls>>
    <2>1. CASE PopCell(t) \/ PopNew(t) \/ PopNode(t) \/ ChasePop(t) \/ PopDeq(t)
      BY <2>1 DEF PopCell, PopNew, PopNode, ChasePop, PopDeq, shared, history
    <2>2. CASE SlowDeqId(t) \/ SlowDeqIdx(t) \/ SlowDone(t) \/ SlowGot(t) \/ Dequeued(t)
      BY <2>2 DEF SlowDeqId, SlowDeqIdx, SlowDone, SlowGot, Dequeued, shared, history
    <2>3. QED BY <2>1, <2>2 DEF PopSteps
  <1> DEFINE Ends == {"popNew", "popNode", "chasePop", "helpVal", "slowGot", "slowDeqId", "slowDeqIdx",
                      "askIdx", "idle"}
  <1>2. Ends \subseteq AwayPcs BY AwayIs DEF SeekPcs, NodePcs, HelpPcs
  <1>3. CASE PopCell(t) \/ PopNew(t) \/ PopNode(t) \/ ChasePop(t) \/ SlowDeqId(t)
    <2>1. PICK l \in Ends : Keep(t, l)
      BY <1>3 DEF PopCell, PopNew, PopNode, ChasePop, SlowDeqId, PopOn
    <2>2. QED BY <1>1, <1>2, <2>1, KeepAway, MadeStays DEF IInv
  <1>4. CASE PopDeq(t) \/ SlowGot(t)
    BY <1>4, <1>1, <1>2, GotAway, KeepAway, MadeStays DEF PopDeq, SlowGot, IInv
  <1>5. CASE SlowDeqIdx(t) \/ Dequeued(t)
    BY <1>5, <1>1, <1>2, MadeStays DEF SlowDeqIdx, Dequeued, Return, IInv, TypeInv, Outside
  <1>6. CASE SlowDone(t)
    <2>1. \A u \in Thread \ {t} : local'[u] = local[u] BY <1>6 DEF SlowDone, IInv, TypeInv
    <2>2. PICK i \in Number : i = -deq[t].idx /\ cells[i] # Null /\ i \in Nat /\ popNode[t] \in Nat
                              /\ popNode[t] <= Segment(i)
      BY <1>6, AnswerIs, Nulls, Segments DEF SlowDone, Answering, Number
    <2>3. At(FindCell(popNode[t], i), i) = i BY <2>2, Segments
    <2>4. Goto(t, "popNode") \/ Goto(t, "slowGot") BY <1>6, <2>2, <2>3 DEF SlowDone, Empty
    <2>5. QED BY <1>1, <1>2, <2>1, <2>4, MadeStays DEF IInv, Outside
  <1>7. QED BY <1>3, <1>4, <1>5, <1>6 DEF PopSteps

LEMMA MadeSeek ==
    ASSUME IInv, Bounded, MadeOnce, NEW t \in Thread, SeekSteps(t), TypeInv'
    PROVE  MadeOnce'
  <1>1. enq' = enq /\ UNCHANGED <<program, calls>> /\ pc[t] \in SeekPcs
    <2>1. CASE AskIdx(t) \/ AskId(t) \/ AskNode(t) \/ AskAgain(t) \/ SeekCell(t) \/ SeekNew(t)
               \/ SeekRaise(t) \/ SeekDeq(t)
      BY <2>1 DEF AskIdx, AskId, AskNode, AskAgain, SeekCell, SeekNew, SeekRaise, SeekDeq,
                  shared, history, SeekPcs
    <2>2. CASE SeekAgain(t) \/ OfferIdx(t) \/ OfferId(t) \/ OfferCas(t) \/ Moved(t) \/ TakeCell(t)
               \/ Finish(t)
      BY <2>2 DEF SeekAgain, SeekAgainAt, OfferIdx, OfferId, OfferCas, Moved, TakeCell, Finish,
                  shared, history, SeekPcs
    <2>3. QED BY <2>1, <2>2 DEF SeekSteps
  <1> DEFINE Ends == {"askId", "askNode", "seekNew", "seekRaise", "helpVal", "offerIdx", "offerId",
                      "offerCas", "seekAgain", "finish"}
  <1>2. Ends \subseteq AwayPcs BY AwayIs DEF SeekPcs, HelpPcs
  <1>3. \/ Leave(t)
        \/ \E idx, old, i : Round(t, idx, old, i)
        \/ \E x : Take(t, x)
        \/ \E l \in Ends \cup {"askAgain", "exit"} : Keep(t, l)
        \/ (\E l \in Ends \cup {"askAgain"} : Goto(t, l)) /\ \A u \in Thread \ {t} : local'[u] = local[u]
    <2>1. CASE AskIdx(t) \/ AskId(t) \/ AskNode(t)
      BY <2>1 DEF AskIdx, AskId, AskNode, Leave, IInv, TypeInv
    <2>2. CASE AskAgain(t) \/ SeekAgain(t) BY <2>2 DEF AskAgain, SeekAgain, SeekAgainAt
    <2>3. CASE SeekCell(t) \/ SeekNew(t) \/ SeekRaise(t) BY <2>3 DEF SeekCell, SeekNew, SeekRaise
    <2>4. CASE SeekDeq(t) \/ OfferIdx(t) BY <2>4 DEF SeekDeq, OfferIdx, Leave, Keep, IInv, TypeInv
    <2>5. CASE OfferId(t) \/ OfferCas(t) \/ Moved(t) BY <2>5 DEF OfferId, OfferCas, Moved
    <2>6. CASE TakeCell(t) \/ Finish(t) BY <2>6 DEF TakeCell, Finish
    <2>7. QED BY <1>1, <2>1, <2>2, <2>3, <2>4, <2>5, <2>6 DEF SeekSteps
  <1>4. CASE Leave(t) BY <1>1, <1>4, LeaveAway, MadeStays DEF IInv
  <1>5. CASE (\E idx, old, i : Round(t, idx, old, i)) \/ \E x : Take(t, x)
    BY <1>1, <1>5, RoundAway, TakeAway, MadeStays DEF IInv
  <1>6. CASE \E l \in Ends \cup {"askAgain", "exit"} : Keep(t, l)
    <2>1. PICK l \in Ends \cup {"askAgain", "exit"} : Keep(t, l) BY <1>6
    <2>2. l # "exit"
      <3>1. pc'[t] = l /\ pc'[t] \in PcLabels BY <2>1, KeepIs DEF IInv, TypeInv
      <3>2. QED BY <3>1 DEF PcLabels
    <2>3. l \in AwayPcs BY <1>2, <2>2, AwayIs DEF SeekPcs
    <2>4. QED BY <1>1, <2>1, <2>3, KeepAway, MadeStays DEF IInv
  <1>7. CASE (\E l \in Ends \cup {"askAgain"} : Goto(t, l)) /\ \A u \in Thread \ {t} : local'[u] = local[u]
    BY <1>2, AwayIs, <1>1, <1>7, MadeStays DEF SeekPcs, Outside, IInv
  <1>8. QED BY <1>3, <1>4, <1>5, <1>6, <1>7

LEMMA MadeClaim ==
    ASSUME IInv, Bounded, MadeOnce, NEW t \in Thread, HelpClaim(t)
    PROVE  MadeOnce'
  <1>1. UNCHANGED <<program, calls>> /\ pc[t] = "helpClaim" /\ pc[t] \in HelpPcs
    BY DEF HelpClaim, history, HelpPcs
  <1>2. Outside(t) BY AwayIs, KeepAway DEF HelpClaim, HelpPcs, IInv
  <1>3. local[t].ei > 0 /\ local[t].ei \in Int /\ local[t].e \in Thread
    BY <1>1, LocalIs DEF IInv, Own, HelpInv, HelpAt
  <1>4. ASSUME NEW u \in Thread PROVE enq'[u].id = enq[u].id \/ enq[u].id # 0
    <2>1. PICK e \in Thread, x \in Int : e = local[t].e /\ x = local[t].ei /\ x # 0 BY <1>3
    <2>2. enq' = [enq EXCEPT ![e].id = IF @ = x THEN -local[t].i ELSE @] BY <2>1 DEF HelpClaim
    <2>3. u # e => enq'[u] = enq[u] BY <2>2 DEF IInv, TypeInv
    <2>4. enq'[e].id = IF enq[e].id = x THEN -local[t].i ELSE enq[e].id BY <2>2 DEF IInv, TypeInv
    <2>5. QED BY <2>1, <2>3, <2>4
  <1>5. calls[t] \in Nat BY Nulls DEF IInv, TypeInv
  <1>6. QED BY <1>1, <1>2, <1>4, <1>5, MadeAway DEF IInv

LEMMA MadePut ==
    ASSUME TypeInv, MadeOnce, NEW t \in Thread, UNCHANGED <<program, calls>>, Still(t), InPut(t),
           Fast(t)' => Fast(t) /\ enq'[t].id = enq[t].id,
           \A u \in Thread \ {t} : enq'[u] = enq[u]
    PROVE  MadeOnce'
  <1>1. ASSUME NEW u \in Thread PROVE MadeInv(u)'
    <2>1. MadeInv(u) BY DEF MadeOnce
    <2>2. CASE u = t BY <2>1, <2>2, Nulls DEF MadeInv, TypeInv, Fast, Pc
    <2>3. CASE u # t BY <2>3, Status, <2>1 DEF Still, MadeInv
    <2>4. QED BY <2>2, <2>3
  <1>2. QED BY <1>1 DEF MadeOnce

LEMMA MadeFast ==
    ASSUME IInv, MadeOnce, NEW t \in Thread,
           PutCell(t) \/ PutNew(t) \/ PutVal(t) \/ PutCas(t) \/ SlowVal(t)
    PROVE  MadeOnce'
  <1>1. Fast(t) /\ InPut(t)
    BY DEF PutCell, PutNew, PutVal, PutCas, SlowVal, InPut, Fast, Pc, FastPcs
  <1>2. UNCHANGED <<program, calls>> BY DEF PutCell, PutNew, PutVal, PutCas, SlowVal, history
  <1>3. Still(t)
    BY DEF PutCell, PutNew, PutVal, PutCas, SlowVal, Keep, Return, Goto, Still, IInv, TypeInv
  <1>4. enq'[t].id = enq[t].id /\ \A u \in Thread \ {t} : enq'[u] = enq[u]
    BY DEF PutCell, PutNew, PutVal, PutCas, SlowVal, shared, IInv, TypeInv
  <1>5. QED BY <1>1, <1>2, <1>3, <1>4, MadePut DEF IInv

LEMMA MadeChase ==
    ASSUME IInv, MadeOnce, NEW t \in Thread, ChasePut(t)
    PROVE  MadeOnce'
  <1>1. pc[t] = "chasePut" /\ Keep(t, local[t].back) /\ enq' = enq /\ UNCHANGED <<program, calls>>
    BY DEF ChasePut, history
  <1>2. local[t].back \in {"putCell", "slowCell"} BY <1>1 DEF IInv, Own, PutInv
  <1>3. Still(t) /\ pc'[t] = local[t].back /\ local'[t] = local[t] BY <1>1, KeepIs DEF IInv
  <1>4. Pc(t)' = Pc(t) BY <1>1, <1>2, <1>3 DEF Pc
  <1>5. InPut(t) /\ (Fast(t)' <=> Fast(t))
    BY <1>1, <1>2, <1>4 DEF InPut, Fast, Open, Pc, FastPcs, OpenPcs
  <1>6. QED BY <1>1, <1>3, <1>5, MadePut DEF IInv

LEMMA MadeSlow ==
    ASSUME IInv, MadeOnce, NEW t \in Thread, SlowSteps(t), ~SlowVal(t)
    PROVE  MadeOnce'
  <1> DEFINE Ends == OpenPcs \cup {"idle", "exit", "chasePut"}
  <1>1. InPut(t) /\ UNCHANGED <<program, calls>> /\ \A u \in Thread \ {t} : enq'[u] = enq[u]
    <2>1. CASE SlowId(t) \/ SlowTest(t) \/ SlowPut(t) \/ SlowCell(t) \/ SlowNew(t) \/ SlowEnq(t)
      BY <2>1 DEF SlowId, SlowTest, SlowPut, SlowCell, SlowNew, SlowEnq, Draw, shared, history,
                  InPut, Fast, Open, Pc, FastPcs, OpenPcs, IInv, TypeInv
    <2>2. CASE SlowCas(t) \/ SlowClaim(t) \/ SlowEnd(t) \/ SlowRaise(t) \/ SlowSet(t)
      BY <2>2 DEF SlowCas, SlowClaim, SlowEnd, SlowEndFrom, SlowRaise, SlowSet, shared, history,
                  InPut, Fast, Open, Pc, FastPcs, OpenPcs, IInv, TypeInv
    <2>3. QED BY <2>1, <2>2 DEF SlowSteps
  <1>2. CASE SlowPut(t)
    <2>1. Draw(t, "slowCell", local[t].reserve) BY <1>2 DEF SlowPut
    <2>2. Goto(t, "chasePut") \/ Goto(t, "slowCell") BY <2>1 DEF Draw
    <2>3. local'[t].back = "slowCell" /\ \A u \in Thread \ {t} : local'[u] = local[u]
      BY <2>1 DEF IInv, TypeInv, Draw, Local
    <2>4. pc'[t] \in {"chasePut", "slowCell"} /\ \A u \in Thread \ {t} : pc'[u] = pc[u]
      BY <2>2, GotoIs DEF IInv
    <2>5. ~Fast(t)' BY <2>3, <2>4 DEF Fast, Pc, FastPcs
    <2>6. QED BY <1>1, <2>3, <2>4, <2>5, MadePut DEF IInv, Still
  <1>3. CASE SlowEnd(t) \/ SlowSet(t)
    <2>1. \A u \in Thread \ {t} : local'[u] = local[u]
      BY <1>3 DEF SlowEnd, SlowEndFrom, SlowSet, Keep, Return, IInv, TypeInv
    <2>2. \E l \in {"slowRaise", "slowSet", "idle", "exit"} : Goto(t, l)
      BY <1>3 DEF SlowEnd, SlowEndFrom, SlowSet, Keep, Return
    <2>3. pc'[t] \in {"slowRaise", "slowSet", "idle", "exit"} /\ \A u \in Thread \ {t} : pc'[u] = pc[u]
      BY <2>2, GotoIs DEF IInv
    <2>4. ~Fast(t)' BY <2>3 DEF Fast, Pc, FastPcs
    <2>5. QED BY <1>1, <2>1, <2>3, <2>4, MadePut DEF IInv, Still
  <1>4. CASE ~(SlowPut(t) \/ SlowEnd(t) \/ SlowSet(t))
    <2>1. PICK l \in {"slowTest", "slowPut", "slowEnd", "slowNew", "slowEnq", "slowClaim", "slowCas",
                      "slowSet"} : Keep(t, l)
      BY <1>4 DEF SlowId, SlowTest, SlowCell, SlowNew, SlowEnq, SlowCas, SlowClaim, SlowRaise, SlowSteps
    <2>2. Still(t) /\ pc'[t] = l BY <2>1, KeepIs DEF IInv
    <2>3. ~Fast(t)' BY <2>2 DEF Fast, Pc, FastPcs
    <2>4. QED BY <1>1, <2>2, <2>3, MadePut DEF IInv
  <1>5. QED BY <1>2, <1>3, <1>4

LEMMA MadeDequeue ==
    ASSUME IInv, MadeOnce, NEW t \in Thread, Dequeue(t)
    PROVE  MadeOnce'
  <1>1. /\ calls[t] \in Nat /\ calls'[t] = calls[t] + 1
        /\ \A u \in Thread \ {t} : calls'[u] = calls[u]
    BY BeginsIs DEF Dequeue, IInv
  <1>2. enq' = enq /\ program' = program /\ Goto(t, "popCell") /\ \A u \in Thread \ {t} : local'[u] = local[u]
    BY DEF Dequeue, IInv, TypeInv
  <1>3. Outside(t) BY <1>2, AwayIs DEF Outside
  <1>4. calls[t] <= calls'[t] /\ calls'[t] \in Nat BY <1>1
  <1>5. QED BY <1>1, <1>2, <1>3, <1>4, MadeAway DEF IInv

LEMMA MadeEnqueue ==
    ASSUME IInv, MadeOnce, OneEnqueue, NEW t \in Thread, Enqueue(t)
    PROVE  MadeOnce'
  <1>1. /\ calls[t] \in Nat /\ calls'[t] = calls[t] + 1
        /\ \A u \in Thread \ {t} : calls'[u] = calls[u]
    BY BeginsIs DEF Enqueue, IInv
  <1>2. program \in Programs /\ Len(program[t]) \in Nat BY CellsAssumption DEF IInv, TypeInv
  <1>3. calls'[t] \in 1 .. Len(program[t]) /\ program[t][calls'[t]] = "enqueue"
    BY <1>1, <1>2 DEF Enqueue, Begins
  <1>4. Draw(t, "putCell", 0) /\ enq' = enq /\ program' = program BY DEF Enqueue, Draw
  <1>5. (Goto(t, "chasePut") \/ Goto(t, "putCell")) /\ \A u \in Thread \ {t} : local'[u] = local[u]
    BY <1>4 DEF Draw, IInv, TypeInv
  <1>6. \A u \in Thread \ {t} : pc'[u] = pc[u] BY <1>5, GotoIs DEF IInv
  <1>7. enq[t].id = 0
    <2>1. ASSUME enq[t].id # 0 PROVE FALSE
      <3>1. PICK k \in 1 .. calls[t] : program[t][k] = "enqueue" BY <2>1 DEF MadeOnce, MadeInv
      <3>2. k \in 1 .. Len(program[t]) /\ k # calls'[t] BY <1>1, <1>2, <1>3, <3>1
      <3>3. QED BY <1>2, <1>3, <3>1, <3>2 DEF OneEnqueue
    <2>2. QED BY <2>1
  <1>8. ASSUME NEW u \in Thread PROVE MadeInv(u)'
    BY <1>3, <1>4, <1>7, <1>1, <1>5, <1>6, Status DEF MadeOnce, MadeInv
  <1>9. QED BY <1>8 DEF MadeOnce

-----------------------------------------------------------------------------
(* The invariant of programs in which no thread enqueues twice.            *)

LEMMA OnceFits ==
    ASSUME IInv, Bounded, Signed, Sought
    PROVE  Fits
  <1>1. ASSUME NEW t \in Thread, pc[t] = "helpClaim", enq[local[t].e].id = local[t].ei
        PROVE  local[t].ei <= local[t].i
    BY <1>1, SignerIs
  <1>2. ASSUME NEW t \in Thread, pc[t] = "helpVal2" PROVE local[t].ev = enq[local[t].e].val
    BY <1>2 DEF Sought, ReadAt
  <1>3. ASSUME NEW t \in Thread, pc[t] = "offerCas", deq[local[t].ph].idx = local[t].idx,
               local[t].idx # local[t].did
        PROVE  cells[local[t].idx].deq \notin {Null, local[t].ph}
    <2>1. pc[t] \in SeekPcs \ {"askIdx", "askId"} BY <1>3 DEF SeekPcs
    <2>2. PICK p \in Thread, id \in Int, x \in Int, i \in Int, f \in Local :
              /\ f = local[t] /\ p = f.ph /\ id = f.did /\ x = f.idx /\ i = f.i
              /\ SoughtAt(pc[t], f) /\ SeekAt(t, pc[t], f) /\ WantedAt(p)
              /\ deq[p].id \in Nat /\ deq[p].idx \in Int
      BY <2>1, SeekIn
    <2>3. x >= 0 /\ x < i /\ Bound(p, id, x) BY <1>3, <2>2 DEF SeekAt
    <2>4. PassedTo(p, id, i) BY <1>3, <2>2 DEF SoughtAt
    <2>5. deq[p].id = id /\ x \in Number /\ x > id
      <3>1. deq[p].idx = x /\ x # id /\ deq[p].idx >= 0 BY <1>3, <2>2, <2>3
      <3>2. deq[p].id = id /\ x \in Number /\ x >= deq[p].id BY <2>3, <3>1, PendingIs
      <3>3. QED BY <2>2, <3>1, <3>2
    <2>6. Full(x) /\ Passed(p, x) BY <1>3, <2>2, <2>3, <2>4, <2>5 DEF WantedAt, PassedTo
    <2>7. QED BY <2>2, <2>6 DEF Full, Passed, Dead
  <1>4. QED BY <1>1, <1>2, <1>3 DEF Fits, ClaimsFit, ItemsFit, OffersFit

LEMMA OnceStep ==
    ASSUME IInv, Bounded, Used > 0, Signed, Sought, OneRequest, TypeInv', Next
    PROVE  Signed' /\ Sought'
  <1>1. PICK t \in Thread : Enqueue(t) \/ Dequeue(t) \/ Step(t) BY DEF Next
  <1>2. CASE Enqueue(t) \/ Dequeue(t) BY <1>2, PlainPut, PlainPop
  <1>3. CASE PutSteps(t) BY <1>3, PlainRegister, PlainPut, PutNewOnce, PutCasOnce DEF PutSteps
  <1>4. CASE SlowSteps(t)
    BY <1>4, PlainPut, SlowEnqOnce, SlowNewOnce, SlowCasOnce, SlowSetOnce DEF SlowSteps
  <1>5. CASE HelpSteps(t)
    BY <1>5, HelpValOnce, HelpSealOnce, HelpEnqOnce, HelpSignOnce, HelpEmptyOnce, HelpReadsOnce,
       HelpClaimOnce, HelpTestsOnce, HelpSetOnce, HelpEndsOnce DEF HelpSteps
  <1>6. CASE PopSteps(t) BY <1>6, PlainPop, PopNewOnce, PopDeqOnce, SlowDeqOnce DEF PopSteps
  <1>7. CASE SeekSteps(t)
    BY <1>7, PlainPop, AskAgainOnce, SeekNextOnce, SeekNewOnce, SeekDeqOnce, SeekAgainOnce,
       OfferIdxOnce, OfferIdOnce, OfferCasOnce, MovedOnce, TakeCellOnce, FinishOnce DEF SeekSteps
  <1>8. QED
    BY <1>1, <1>2, <1>3, <1>4, <1>5, <1>6, <1>7
       DEF Step, PutSteps, SlowSteps, HelpSteps, PopSteps, SeekSteps

LEMMA MadeStep ==
    ASSUME IInv, Bounded, OneEnqueue, MadeOnce, TypeInv', Next
    PROVE  MadeOnce'
  <1>1. PICK t \in Thread : Enqueue(t) \/ Dequeue(t) \/ Step(t) BY DEF Next
  <1>2. CASE Enqueue(t) \/ Dequeue(t) BY <1>2, MadeEnqueue, MadeDequeue
  <1>3. CASE PutSteps(t) BY <1>3, MadeRegister, MadeChase, MadeFast DEF PutSteps
  <1>4. CASE SlowSteps(t) BY <1>4, MadeFast, MadeSlow
  <1>5. CASE HelpSteps(t) BY <1>5, MadeHelp, MadeClaim
  <1>6. CASE PopSteps(t) BY <1>6, MadePop
  <1>7. CASE SeekSteps(t) BY <1>7, MadeSeek
  <1>8. QED
    BY <1>1, <1>2, <1>3, <1>4, <1>5, <1>6, <1>7
       DEF Step, PutSteps, SlowSteps, HelpSteps, PopSteps, SeekSteps

LEMMA OnceInit ==
    ASSUME Used > 0, Bounded, Init
    PROVE  OnceInv
  <1>1. IInv BY InitIs
  <1>2. ASSUME NEW t \in Thread
        PROVE  pc[t] = "new" /\ enq[t].id = 0 /\ deq[t].id = 0 /\ deq[t].idx = -1 /\ calls[t] = 0
    BY DEF Init
  <1>3. ASSUME NEW c \in Number PROVE SignedAt(c) BY Nulls DEF Init, SignedAt, Number
  <1>4. ASSUME NEW t \in Thread
        PROVE  ReadAt(pc[t], local[t]) /\ SoughtAt(pc[t], local[t]) /\ WantedAt(t) /\ MadeInv(t)
    BY <1>2 DEF ReadAt, SoughtAt, WantedAt, MadeInv, HelpPcs, InPut, Fast, Open, Pc, FastPcs, OpenPcs
  <1>5. QED BY <1>1, <1>3, <1>4 DEF OnceInv, Signed, Sought, MadeOnce

LEMMA OnceNext ==
    ASSUME Used > 0, OneEnqueue, OnceInv, Bounded, [Next]_vars
    PROVE  OnceInv'
  <1>1. IInv /\ Signed /\ Sought /\ MadeOnce BY DEF OnceInv
  <1>2. OneRequest BY <1>1 DEF OneRequest, MadeOnce, MadeInv, Fast, Pc, FastPcs
  <1>3. Fits BY <1>1, OnceFits
  <1>4. IInv' /\ TypeInv' BY <1>1, <1>3, NextKeeps DEF IInv
  <1>5. CASE Next BY <1>1, <1>2, <1>4, <1>5, OnceStep, MadeStep DEF OnceInv
  <1>6. CASE UNCHANGED vars
    <2>1. /\ pc' = pc /\ local' = local /\ cells' = cells /\ enq' = enq /\ deq' = deq
          /\ calls' = calls /\ program' = program
      BY <1>6 DEF vars, shared, handles, history
    <2>2. Signed' BY <1>1, <2>1 DEF Signed, SignedAt
    <2>3. MadeOnce' BY <1>1, <2>1 DEF MadeOnce, MadeInv, InPut, Fast, Open, Pc
    <2>4. \A c : (Full(c)' <=> Full(c)) /\ (Dead(c)' <=> Dead(c)) BY <2>1 DEF Full, Dead
    <2>5. \A p, c : Passed(p, c)' <=> Passed(p, c) BY <2>1, <2>4 DEF Passed
    <2>6. \A p, i, c : PassedTo(p, i, c)' <=> PassedTo(p, i, c) BY <2>5 DEF PassedTo
    <2>7. \A l, f : ReadAt(l, f)' <=> ReadAt(l, f) BY <2>1, <2>4 DEF ReadAt
    <2>8. \A l, f : SoughtAt(l, f)' <=> SoughtAt(l, f) BY <2>1, <2>4, <2>5, <2>6 DEF SoughtAt
    <2>9. Sought' BY <1>1, <2>1, <2>4, <2>6, <2>7, <2>8 DEF Sought, WantedAt
    <2>10. QED BY <1>4, <2>2, <2>3, <2>9 DEF OnceInv
  <1>7. QED BY <1>5, <1>6

LEMMA OnceHolds ==
    ASSUME Used > 0, OneEnqueue
    PROVE  Spec /\ []Bounded => []OnceInv
  <1>1. Init /\ Bounded => OnceInv BY OnceInit
  <1>2. OnceInv /\ Bounded /\ [Next]_vars => OnceInv' BY OnceNext
  <1>3. QED BY <1>1, <1>2, PTL DEF Spec

\* Nobody comes to the System.exit of the code (WaitFreeQueue.java:174 and 390)
\* and every field keeps its range: a request that is answered has a cell, for
\* every number of threads, of dequeues and of cells to a node, in a queue that
\* was used before, as long as no thread enqueues twice and there are cells enough.
THEOREM NobodyExits ==
    ASSUME Used > 0, OneEnqueue
    PROVE  Spec /\ []Bounded => []TypeOK
  <1>1. OnceInv /\ Bounded => TypeOK BY TypesOf DEF OnceInv
  <1>2. Spec /\ []Bounded => []OnceInv BY OnceHolds
  <1>3. QED BY <1>1, <1>2, PTL

\* No element is handed out twice: a dequeue that takes the item of the cell of
\* its index and one that is given it by a request signed the cell first, and the
\* signature stays (WaitFreeQueue.java:280 and 393), in the same programs.
THEOREM NothingTwice ==
    ASSUME Used > 0, OneEnqueue
    PROVE  Spec /\ []Bounded => []TakenOnce
  <1>1. OnceInv => TakenOnce BY DEF OnceInv, IInv, Whole
  <1>2. Spec /\ []Bounded => []OnceInv BY OnceHolds
  <1>3. QED BY <1>1, <1>2, PTL

=============================================================================
