------------------------- MODULE WaitFreeQueueProof -------------------------
(***************************************************************************)
(* Every step of WaitFreeQueueFastPath keeps the invariant of              *)
(* WaitFreeQueueInvariant, and what follows from it.  Then, that the queue *)
(* implements FifoQueue: what has to be known beyond that invariant, and   *)
(* that every step maps to a step of the abstract queue or changes nothing *)
(* there.  Last, the bound of WaitFreeQueueBound: how often a call is      *)
(* overtaken.                                                              *)
(***************************************************************************)
EXTENDS WaitFreeQueueInvariant, WaitFreeQueueBound, TLAPS, FiniteSetTheorems

-----------------------------------------------------------------------------
(* Constants and types.                                                    *)

\* The null references are no calls and no objects.
LEMMA Nulls ==
    /\ Dummy \notin Op /\ NoNode \notin Op /\ NoOp \notin Op /\ None \notin Op /\ Empty \notin Op
    /\ NoNode \notin Node /\ None # Empty /\ NoOp \notin PNode
    /\ Op \subseteq Node /\ Dummy \in Node
  BY QueueConstants DEF QueueConstants, Op, Node

\* A call is a thread and a number; every such pair is a call.
LEMMA OpFacts ==
    /\ \A o \in Op : o[1] \in Thread /\ o[2] \in 1 .. MaxCalls[o[1]] /\ o = <<o[1], o[2]>>
    /\ \A t \in Thread, k \in Nat : k \in 1 .. MaxCalls[t] => <<t, k>> \in Op
    /\ \A t \in Thread : MaxCalls[t] \in Nat
    /\ \A o \in Op : o[2] \in Nat /\ o[2] # 0
  <1>1. \A t \in Thread : MaxCalls[t] \in Nat
    BY QueueConstants DEF QueueConstants
  <1>2. \A o \in Op : o[1] \in Thread /\ o[2] \in 1 .. MaxCalls[o[1]] /\ o = <<o[1], o[2]>>
    BY DEF Op
  <1>3. \A t \in Thread, k \in Nat : k \in 1 .. MaxCalls[t] => <<t, k>> \in Op
    BY DEF Op
  <1>4. ASSUME NEW o \in Op PROVE o[2] \in Nat /\ o[2] # 0
    <2>1. o[1] \in Thread /\ o[2] \in 1 .. MaxCalls[o[1]] /\ MaxCalls[o[1]] \in Nat
      BY <1>1, <1>2
    <2>2. QED
      BY <2>1
  <1>5. QED
    BY <1>1, <1>2, <1>3, <1>4

LEMMA Bounds == MAXFAILURES \in Nat \ {0} /\ HELPINGDELAY \in Nat
  BY QueueConstants DEF QueueConstants

\* The call a thread is in.
LEMMA CurrentOp ==
    ASSUME NEW t \in Thread, calls[t] \in 0 .. MaxCalls[t], calls[t] # 0
    PROVE  Current(t) \in Op
  <1>1. calls[t] \in 1 .. MaxCalls[t] /\ calls[t] \in Nat
    BY OpFacts
  <1>2. QED
    BY <1>1, OpFacts DEF Current

\* The locals of a thread, spelt out.
LEMMA FrameTypes ==
    ASSUME TypeOK, NEW t \in Thread
    PROVE  LET f == frame[t]
           IN  /\ f \in Frame
               /\ f.localHead \in NodeHead /\ f.localHead.node \in Node
               /\ f.localHead.opDesc \in Op \cup {NoOp}
               /\ f.first \in Node /\ f.last \in Node /\ f.next \in Node \cup {NoNode}
               /\ f.pNode \in PNode /\ f.pNode.node \in Node \cup {NoNode}
               /\ f.pNode.pending \in {0, 1} /\ f.done \in BOOLEAN
  <1>1. frame[t] \in Frame
    BY DEF TypeOK
  <1>2. QED
    BY <1>1 DEF Frame, NodeHead, PNode

LEMMA SharedTypes ==
    ASSUME TypeOK
    PROVE  /\ head.node \in Node /\ head.opDesc \in Op \cup {NoOp} /\ tail \in Node
           /\ head = [node |-> head.node, opDesc |-> head.opDesc]
           /\ \A n \in Node : next[n] \in Op \cup {NoNode}
           /\ \A o \in Op : desc[o] \in PNode \cup {NoOp}
           /\ \A o \in Op : desc[o] # NoOp =>
                /\ desc[o] \in PNode /\ desc[o].pending \in {0, 1}
                /\ desc[o].node \in Node \cup {NoNode}
           /\ \A o \in Op : kind[o] \in {"add", "poll"}
  BY DEF TypeOK, NodeHead, PNode

\* Places are numbers, and told apart by them.
LEMMA Places ==
    ASSUME TypeOK, ListInv
    PROVE  /\ back \in Nat
           /\ \A n \in Node : pos(n) \in Nat /\ pos(n) <= back
           /\ \A o \in Op : pos(o) = place[o]
           /\ \A m, n \in Node : Listed(m) /\ Listed(n) /\ pos(m) = pos(n) => m = n
           /\ \A n \in Node : Listed(n) /\ pos(n) < back => next[n] # NoNode
           /\ \A n \in Node : next[n] # NoNode => next[n] \in Op /\ pos(n) < back
                                                 /\ Listed(n) /\ Listed(next[n])
                                                 /\ pos(next[n]) = pos(n) + 1
  <1>1. back \in Nat
    BY FS_CardinalityType DEF ListInv, back
  <1>2. \A o \in Op : pos(o) = place[o] /\ place[o] \in Nat
    BY Nulls DEF pos, ListInv
  <1>3. \A n \in Node : n = Dummy \/ n \in Op
    BY DEF Node
  <1>4. \A n \in Node : pos(n) \in Nat /\ pos(n) <= back
    BY <1>1, <1>2, <1>3 DEF pos, ListInv
  <1>5. \A m, n \in Node : Listed(m) /\ Listed(n) /\ pos(m) = pos(n) => m = n
    BY <1>2, <1>3 DEF pos, Listed, ListInv
  <1>6. \A n \in Node : Listed(n) /\ pos(n) < back => next[n] # NoNode
    BY <1>1 DEF ListInv
  <1>7. ASSUME NEW n \in Node, next[n] # NoNode
        PROVE  next[n] \in Op /\ pos(n) < back /\ Listed(n) /\ Listed(next[n])
               /\ pos(next[n]) = pos(n) + 1
    <2>1. next[n] \in Op /\ Listed(n) /\ pos(next[n]) = pos(n) + 1
      BY <1>7, SharedTypes DEF ListInv
    <2>2. pos(n) + 1 <= back /\ pos(n) + 1 # 0 /\ pos(n) \in Nat
      BY <1>2, <1>4, <2>1 DEF ListInv
    <2>3. QED
      BY <1>1, <1>2, <2>1, <2>2 DEF Listed
  <1>8. QED
    BY <1>1, <1>2, <1>4, <1>5, <1>6, <1>7

\* The list is a chain: no two nodes have the same successor.
LEMMA ChainLinkedOnce ==
    ASSUME TypeOK, ListInv
    PROVE  LinkedOnce
  <1> SUFFICES ASSUME NEW m \in Node, NEW n \in Node, next[m] = next[n], next[m] # NoNode
               PROVE  m = n
    BY DEF LinkedOnce
  <1>1. /\ pos(next[m]) = pos(m) + 1 /\ pos(next[n]) = pos(n) + 1
        /\ pos(m) \in Nat /\ pos(n) \in Nat /\ Listed(m) /\ Listed(n)
    BY Places
  <1>2. pos(m) = pos(n)
    BY <1>1
  <1>3. QED
    BY <1>1, <1>2, Places

-----------------------------------------------------------------------------
(* What Watch records.                                                     *)

\* Nothing when no node is linked.
LEMMA WatchSame ==
    ASSUME TypeOK, ListInv, Watch, next' = next
    PROVE  place' = place
  <1>1. place' = [o \in Op |-> IF place[o] = 0 /\ Linked(o)' THEN back + 1 ELSE place[o]]
    BY DEF Watch
  <1>2. \A o \in Op : Linked(o)' = Linked(o)
    BY DEF Linked
  <1>3. \A o \in Op : place'[o] = place[o]
    BY <1>1, <1>2 DEF ListInv
  <1>4. QED
    BY <1>1, <1>3 DEF ListInv

\* The next place when a node is linked behind the last one.
LEMMA WatchLink ==
    ASSUME TypeOK, ListInv, Watch, NEW l \in Node, NEW o \in Op,
           next[l] = NoNode, Listed(l), place[o] = 0, next' = [next EXCEPT ![l] = o]
    PROVE  /\ place' = [place EXCEPT ![o] = back + 1]
           /\ back' = back + 1
           /\ ListInv'
  <1>1. place' = [q \in Op |-> IF place[q] = 0 /\ Linked(q)' THEN back + 1 ELSE place[q]]
    BY DEF Watch
  <1>2. \A n \in Node : next'[n] = IF n = l THEN o ELSE next[n]
    BY DEF TypeOK
  <1>3. \A q \in Op : Linked(q)' <=> Linked(q) \/ q = o
    BY <1>2, Nulls DEF Linked
  <1>4. \A q \in Op : place'[q] = IF q = o THEN back + 1 ELSE place[q]
    BY <1>1, <1>3 DEF ListInv
  <1>5. place' = [place EXCEPT ![o] = back + 1]
    BY <1>1, <1>4 DEF ListInv
  <1>6. back \in Nat /\ back + 1 \in Nat /\ back + 1 # 0
    BY Places
  <1>7. Placed' = Placed \cup {o} /\ o \notin Placed
    BY <1>4, <1>6 DEF Placed
  <1>8. IsFiniteSet(Placed') /\ back' = back + 1
    BY <1>7, FS_AddElement DEF ListInv, back
  <1>9. place' \in [Op -> Nat]
    BY <1>5, <1>6 DEF ListInv
  <1>10. \A q \in Op : place'[q] # 0 <=> Linked(q)'
    BY <1>3, <1>4, <1>6 DEF ListInv
  <1>11. \A q \in Op : place'[q] <= back'
    BY <1>4, <1>6, <1>8 DEF ListInv
  <1>12. \A m, n \in Op : place'[m] # 0 /\ place'[m] = place'[n] => m = n
    <2>1. \A q \in Op : place[q] # back + 1
      BY <1>6 DEF ListInv
    <2>2. QED
      BY <1>4, <2>1 DEF ListInv
  <1>13. \A n \in Node : pos(n)' = IF n = o THEN back + 1 ELSE pos(n)
    BY <1>4, Nulls DEF pos, Node
  <1>14. \A n \in Node : Listed(n)' <=> Listed(n) \/ n = o
    BY <1>4, <1>6, Nulls DEF Listed, Node
  <1>15. l # o /\ ~Listed(o) /\ next[o] = NoNode /\ pos(l) = back
    BY Nulls DEF Listed, ListInv
  <1>16. ASSUME NEW n \in Node, next'[n] # NoNode
         PROVE  Listed(n)' /\ pos(next[n])' = pos(n)' + 1
    <2>1. next'[n] \in Op /\ pos(next[n])' = place'[next'[n]]
      <3>1. next'[n] \in Op
        BY <1>2, <1>16, SharedTypes
      <3>2. QED
        BY <3>1, Nulls DEF pos
    <2>2. CASE n = l
      BY <1>2, <1>4, <1>13, <1>14, <1>15, <2>1, <2>2
    <2>3. CASE n # l
      <3>1. next'[n] = next[n] /\ n # o /\ next[n] \in Op /\ Listed(n) /\ Listed(next[n])
            /\ pos(next[n]) = pos(n) + 1
        BY <1>2, <1>15, <1>16, <2>3, Places
      <3>2. next[n] # o /\ pos(next[n]) = place[next[n]]
        BY <1>15, <3>1, Places
      <3>3. QED
        BY <1>4, <1>13, <1>14, <2>1, <3>1, <3>2
    <2>4. QED
      BY <2>2, <2>3
  <1>17. ASSUME NEW n \in Node, Listed(n)', next'[n] = NoNode
         PROVE  pos(n)' = back'
    <2>1. n # l
      BY <1>2, <1>17, Nulls
    <2>2. n = o
      <3>1. n # o => Listed(n) /\ next[n] = NoNode
        BY <1>2, <1>14, <1>17, <2>1
      <3>2. n # o => pos(n) = back
        BY <3>1 DEF ListInv
      <3>3. QED
        BY <1>15, <2>1, <3>1, <3>2, Places
    <2>3. QED
      BY <1>8, <1>13, <2>2
  <1>18. QED
    BY <1>5, <1>8, <1>9, <1>10, <1>11, <1>12, <1>16, <1>17 DEF ListInv

-----------------------------------------------------------------------------
(* What a step leaves to the others.                                       *)

\* What a thread has read stays what it was.
LEMMA Stable ==
    ASSUME TypeOK, TypeOK', SharedInv, NEW t, Evolves(t)
    PROVE  /\ pos(head.node) \in Nat /\ pos(head.node)' \in Nat /\ pos(head.node) <= pos(head.node)'
           /\ \A n \in Node \cup {NoNode} : Noted(n) => Noted(n)'
           /\ \A n \in Node, o \in Op : Listed(n) /\ Left(n, o) => Left(n, o)'
           /\ \A h \in NodeHead : HeadPast(h) => HeadPast(h)'
           /\ \A h \in NodeHead : Listed(h.node) /\ Taken(h) => Taken(h)'
  <1>1. /\ head.node \in Node /\ head'.node \in Node /\ tail \in Node
        /\ head = [node |-> head.node, opDesc |-> head.opDesc]
        /\ head' = [node |-> head'.node, opDesc |-> head'.opDesc]
        /\ Listed(head.node) /\ Listed(tail) /\ ListInv
    <2>1. head' \in NodeHead
      BY DEF TypeOK
    <2>2. head'.node \in Node /\ head' = [node |-> head'.node, opDesc |-> head'.opDesc]
      BY <2>1 DEF NodeHead
    <2>3. QED
      BY <2>2, SharedTypes DEF SharedInv, EndsInv
  <1>2. \A n \in Node : Listed(n) => pos(n) \in Nat /\ Listed(n)' /\ pos(n)' = pos(n)
    BY <1>1, Places DEF Evolves
  <1>3. \/ /\ pos(head.node)' = pos(head.node) /\ head'.node = head.node
           /\ head' = head \/ (head.opDesc = NoOp /\ head'.opDesc # NoOp)
        \/ /\ pos(head.node)' = pos(head.node) + 1 /\ head'.opDesc = NoOp /\ head' # head
           /\ (head.opDesc # NoOp => desc[head.opDesc].pending = 0)
    <2>1. CASE head'.node = head.node
      <3>1. pos(head.node)' = (IF head.node = Dummy THEN 0 ELSE place'[head.node])
        BY <2>1 DEF pos
      <3>2. pos(head.node) = (IF head.node = Dummy THEN 0 ELSE place'[head.node])
        BY <1>1, <1>2 DEF pos
      <3>3. head.node # next[head.node] \/ next[head.node] = NoNode
        BY <1>1, Places
      <3>4. head' = head \/ (head.opDesc = NoOp /\ head'.opDesc # NoOp)
        BY <2>1, <3>3 DEF Evolves, HeadMoves
      <3>5. QED
        BY <2>1, <3>1, <3>2, <3>4
    <2>2. CASE head'.node # head.node
      <3>1. /\ head'.opDesc = NoOp /\ next[head.node] # NoNode /\ head'.node = next[head.node]
            /\ head.opDesc # NoOp => desc[head.opDesc].pending = 0
        BY <2>2 DEF Evolves, HeadMoves
      <3>2. Listed(next[head.node]) /\ pos(next[head.node]) = pos(head.node) + 1
            /\ next[head.node] \in Op
        BY <1>1, <3>1, Places
      <3>3. place'[next[head.node]] = place[next[head.node]]
            /\ pos(next[head.node]) = place[next[head.node]]
        <4>1. \A m \in Op : Listed(m) => place'[m] = place[m]
          BY <1>2, Nulls DEF pos
        <4>2. QED
          BY <1>1, <3>2, <4>1, Places
      <3>4. pos(head.node)' = place'[next[head.node]]
        BY <3>1, <3>2, Nulls DEF pos
      <3>5. QED
        BY <2>2, <3>1, <3>2, <3>3, <3>4
    <2>3. QED
      BY <2>1, <2>2
  <1>4. pos(head.node) \in Nat /\ pos(head.node)' \in Nat /\ pos(head.node) <= pos(head.node)'
    BY <1>1, <1>2, <1>3
  <1>5. pos(tail) <= pos(tail)' /\ pos(tail) \in Nat /\ pos(tail)' \in Nat
    <2>1. tail' \in Node
      BY DEF TypeOK
    <2>2. \A n \in Node : pos(n)' \in Nat
      BY DEF pos, Evolves, Node
    <2>3. pos(tail)' \in Nat
      BY <2>1, <2>2 DEF pos
    <2>4. QED
      BY <1>1, <1>2, <2>3 DEF Evolves
  <1>6. ASSUME NEW n \in Node \cup {NoNode}, Noted(n)
        PROVE  Noted(n)'
    <2>1. CASE n = NoNode
      BY <2>1 DEF Noted
    <2>2. CASE n # NoNode
      <3>1. n \in Node /\ Listed(n) /\ pos(n) <= pos(head.node) /\ pos(n) < pos(tail)
        BY <1>6, <2>2 DEF Noted
      <3>2. Listed(n)' /\ pos(n)' = pos(n) /\ pos(n) \in Nat
        BY <1>2, <3>1
      <3>3. pos(n)' <= pos(head.node)' /\ pos(n)' < pos(tail)'
        BY <1>4, <1>5, <3>1, <3>2
      <3>4. QED
        BY <3>2, <3>3 DEF Noted
    <2>3. QED
      BY <2>1, <2>2
  <1>7. ASSUME NEW n \in Node, NEW o \in Op, Listed(n), Left(n, o)
        PROVE  Left(n, o)'
    <2>1. pos(n)' = pos(n) /\ pos(n) \in Nat
      BY <1>2, <1>7
    <2>2. CASE pos(n) < pos(head.node)
      <3>1. pos(n)' < pos(head.node)'
        BY <1>4, <2>1, <2>2
      <3>2. QED
        BY <3>1 DEF Left
    <2>3. CASE head = [node |-> n, opDesc |-> o]
      <3>1. head.node = n /\ head.opDesc = o /\ o # NoOp
        BY <2>3, Nulls
      <3>2. head' = head \/ pos(head.node)' = pos(head.node) + 1
        BY <1>3, <3>1
      <3>3. CASE head' = head
        BY <2>3, <3>3 DEF Left
      <3>4. CASE pos(head.node)' = pos(head.node) + 1
        <4>1. pos(n)' < pos(head.node)'
          BY <1>4, <2>1, <3>1, <3>4
        <4>2. QED
          BY <4>1 DEF Left
      <3>5. QED
        BY <3>2, <3>3, <3>4
    <2>4. QED
      BY <1>7, <2>2, <2>3 DEF Left
  <1>8. ASSUME NEW h \in NodeHead, HeadPast(h)
        PROVE  HeadPast(h)'
    <2>1. h.node \in Node /\ h.opDesc \in Op \cup {NoOp}
      BY DEF NodeHead
    <2>2. Listed(h.node)' /\ pos(h.node)' = pos(h.node) /\ pos(h.node) \in Nat
      <3>1. Listed(h.node)
        BY <1>8 DEF HeadPast
      <3>2. QED
        BY <1>2, <2>1, <3>1
    <2>3. pos(h.node) < pos(head.node) => pos(h.node)' < pos(head.node)'
      BY <1>4, <2>2
    <2>4. h.node = head.node => head' = head \/ pos(h.node)' < pos(head.node)'
                                \/ (head'.node = h.node /\ head.opDesc = NoOp /\ head'.opDesc # NoOp)
      BY <1>3, <1>4, <2>2
    <2>5. \/ h = head \/ pos(h.node) < pos(head.node)
          \/ h.node = head.node /\ h.opDesc = NoOp /\ head.opDesc # NoOp
      BY <1>8 DEF HeadPast
    <2>6. \/ h = head' \/ pos(h.node)' < pos(head.node)'
          \/ h.node = head'.node /\ h.opDesc = NoOp /\ head'.opDesc # NoOp
      BY <2>3, <2>4, <2>5
    <2>7. QED
      BY <2>2, <2>6 DEF HeadPast
  <1>9. ASSUME NEW h \in NodeHead, Listed(h.node), Taken(h)
        PROVE  Taken(h)'
    <2>1. /\ h.node \in Node /\ h.opDesc \in Op
          /\ desc[h.opDesc] # NoOp /\ kind[h.opDesc] = "poll" /\ desc[h.opDesc].node = h.node
          /\ h # head => desc[h.opDesc].pending = 0 /\ pos(h.node) < pos(head.node)
      BY <1>9 DEF NodeHead, Taken
    <2>2. pos(h.node)' = pos(h.node) /\ pos(h.node) \in Nat
      BY <1>2, <1>9, <2>1
    <2>3. DescMoves(h.opDesc) /\ kind'[h.opDesc] = "poll" /\ desc'[h.opDesc] # NoOp
      BY <2>1 DEF Evolves, DescMoves
    <2>4. CASE h = head
      <3>1. desc'[h.opDesc].node = h.node
        BY <2>1, <2>3, <2>4 DEF DescMoves
      <3>2. h # head' => desc'[h.opDesc].pending = 0 /\ pos(h.node)' < pos(head.node)'
        <4>1. h # head' => pos(head.node)' = pos(head.node) + 1 /\ desc[h.opDesc].pending = 0
          BY <1>3, <2>1, <2>4, Nulls
        <4>2. QED
          BY <1>4, <2>2, <2>3, <2>4, <4>1 DEF DescMoves
      <3>3. QED
        BY <2>1, <2>3, <3>1, <3>2, Nulls DEF Taken
    <2>5. CASE h # head
      <3>1. desc'[h.opDesc] = desc[h.opDesc] /\ desc[h.opDesc].pending = 0
        BY <2>1, <2>3, <2>5 DEF DescMoves
      <3>2. pos(h.node)' < pos(head.node)'
        BY <1>4, <2>1, <2>2, <2>5
      <3>3. QED
        BY <2>1, <2>3, <3>1, <3>2, Nulls DEF Taken
    <2>6. QED
      BY <2>4, <2>5
  <1>10. QED
    BY <1>4, <1>6, <1>7, <1>8, <1>9

-----------------------------------------------------------------------------
(* A thread that does not step.                                            *)

\* The part of the invariant about a thread survives the step of another.
LEMMA OtherStep ==
    ASSUME IInv, TypeOK', NEW t \in Thread, NEW u \in Thread, u # t, Evolves(t), Aside(u)
    PROVE  RoleInv(u)' /\ RecordInv(u)' /\ CallInv(u)' /\ FrameInv(u)'
  <1> USE DEF Aside
  <1>1. TypeOK /\ SharedInv /\ RoleInv(u) /\ RecordInv(u) /\ CallInv(u) /\ FrameInv(u)
    BY DEF IInv
  <1>2. /\ calls'[u] = calls[u] /\ Current(u)' = Current(u)
        /\ pc[u] # "idle" => Current(u) \in Op /\ Current(u)[1] = u
                             /\ kind'[Current(u)] = kind[Current(u)]
    <2>1. calls'[u] = calls[u] /\ Current(u)' = Current(u) /\ Current(u)[1] = u
      BY DEF Evolves, Current
    <2>2. pc[u] # "idle" => Current(u) \in Op
      BY <1>1, CurrentOp DEF CallInv
    <2>3. QED
      BY <2>1, <2>2 DEF Evolves
  <1>3. \A o \in Op : desc[o] # NoOp =>
          /\ desc'[o] # NoOp /\ kind'[o] = kind[o]
          /\ desc[o].pending = 0 => desc'[o] = desc[o]
    BY DEF Evolves, DescMoves
  <1>4. RoleInv(u)'
    <2>1. pc[u] \in AddPc \cup PollPc => pc[u] # "idle" /\ Adding(u)' = Adding(u)
      BY <1>2 DEF Adding, AddPc, PollPc
    <2>2. QED
      BY <1>1, <2>1 DEF RoleInv
  <1>5. RecordInv(u)'
    <2>1. state[u] \in Op \cup {NoOp} /\ willHelp[u] \in Op \cup {NoOp}
      BY <1>1 DEF TypeOK
    <2>2. QED
      BY <1>1, <1>3, <2>1 DEF RecordInv
  <1>6. CallInv(u)'
    <2>1. Undone(Current(u)) /\ pc[u] # "idle" => Undone(Current(u))'
      <3>1. pc[u] # "idle" /\ Undone(Current(u)) =>
              place'[Current(u)] = 0 /\ desc'[Current(u)] = NoOp /\ result'[Current(u)] = None
        <4>1. \A o \in Op : o[1] # t /\ Undone(o) =>
                place'[o] = 0 /\ desc'[o] = NoOp /\ result'[o] = None
          BY DEF Evolves, Undone
        <4>2. QED
          BY <1>2, <4>1
      <3>2. QED
        BY <1>2, <3>1 DEF Undone
    <2>2. pc[u] = "addSwing" /\ desc[Current(u)] = NoOp /\ next[frame[u].last] = Current(u) =>
            desc'[Current(u)] = NoOp /\ next'[frame[u].last] = Current(u)
      <3>1. frame[u].last \in Node
        BY <1>1, FrameTypes
      <3>2. pc[u] = "addSwing" => Current(u) \in Op /\ Current(u) # NoNode
        BY <1>2, Nulls
      <3>3. pc[u] = "addSwing" /\ next[frame[u].last] = Current(u) => place[Current(u)] # 0
        BY <1>1, <3>1, <3>2 DEF SharedInv, ListInv, Linked
      <3>4. QED
        BY <1>2, <3>1, <3>2, <3>3 DEF Evolves
    <2>3. /\ role[u] = "self" => target[u] = Current(u) /\ desc'[Current(u)] # NoOp
          /\ role[u] \in {"help", "self"} /\ pc[u] \in EnqPc \cup DeqPc \cup FinPc =>
               target[u] # NoOp /\ desc'[target[u]] # NoOp
          /\ pc[u] \in EnqPc => kind'[target[u]] = "add"
          /\ pc[u] \in DeqPc => kind'[target[u]] = "poll"
      <3>1. pc[u] \in EnqPc \cup DeqPc => role[u] \in {"help", "self"}
        BY <1>1 DEF RoleInv, TypeOK, EnqPc, DeqPc, FinPc, AddPc, PollPc
      <3>2. target[u] \in Op \cup {NoOp} /\ (role[u] = "self" => pc[u] # "idle")
        BY <1>1 DEF TypeOK, RoleInv, EnqPc, DeqPc, FinPc
      <3>3. QED
        BY <1>1, <1>2, <1>3, <3>1, <3>2, Nulls DEF CallInv
    <2>4. QED
      BY <1>1, <1>2, <2>1, <2>2, <2>3 DEF CallInv
  <1>7. TailInv(u)'
    <2> DEFINE f == frame[u]
    <2>1. f.last \in Node /\ f.next \in Node \cup {NoNode} /\ target[u] \in Op \cup {NoOp}
          /\ tail \in Node /\ Listed(tail)
      BY <1>1, FrameTypes DEF TypeOK, SharedInv, EndsInv
    <2>2. TailInv(u)
      BY <1>1 DEF FrameInv
    <2>3. Listed(f.last) /\ pos(f.last) <= pos(tail) =>
            Listed(f.last)' /\ pos(f.last)' <= pos(tail)'
      <3>1. pos(f.last) \in Nat /\ pos(tail) \in Nat /\ pos(tail)' \in Nat
        <4>1. \A n \in Node : pos(n)' \in Nat
          BY DEF pos, Evolves, Node
        <4>2. tail' \in Node
          BY DEF TypeOK
        <4>3. pos(tail)' \in Nat
          BY <4>1, <4>2 DEF pos
        <4>4. QED
          BY <1>1, <2>1, <4>3, Places DEF SharedInv
      <3>2. Listed(f.last) => Listed(f.last)' /\ pos(f.last)' = pos(f.last)
        BY <2>1 DEF Evolves, pos, Listed
      <3>3. QED
        BY <3>1, <3>2 DEF Evolves
    <2>4. next[f.last] # NoNode => next'[f.last] = next[f.last]
      BY <2>1 DEF Evolves
    <2>5. f.next # NoNode /\ next[f.last] = f.next =>
            /\ f.next \in Op
            /\ desc[f.next] = NoOp => desc'[f.next] = NoOp
      BY <1>1, <2>1, Places DEF Evolves, Listed, SharedInv, Node
    <2>6. pc[u] = "enqCas" /\ (place[target[u]] = 0 \/ next[f.last] # NoNode) =>
            place'[target[u]] = 0 \/ next'[f.last] # NoNode
      <3>1. pc[u] = "enqCas" => Listed(f.last)
        BY <2>2 DEF TailInv, TailRead
      <3>2. place' # place /\ pc[u] = "enqCas" => next'[f.last] # NoNode
        BY <2>1, <3>1 DEF Evolves
      <3>3. QED
        BY <2>4, <3>2
    <2>7. /\ pc[u] \in TailRead => Listed(f.last)' /\ pos(f.last)' <= pos(tail)'
          /\ pc[u] \in {"addCheck", "enqCheck"} => f.next = NoNode \/ next'[f.last] = f.next
          /\ pc[u] \in {"fixTail", "finCheck", "finPending", "finCas"} =>
               f.next # NoNode /\ next'[f.last] = f.next
          /\ pc[u] = "fixTail" => desc'[f.next] = NoOp
          /\ pc[u] \in {"finCheck", "finPending"} => desc'[f.next] # NoOp
          /\ pc[u] = "finCas" => desc'[f.next] = NoOp \/ desc'[f.next].pending = 0
          /\ pc[u] = "enqCas" => place'[target[u]] = 0 \/ next'[f.last] # NoNode
      BY <2>2, <2>3, <2>4, <2>5, <2>6, <1>3 DEF TailInv
    <2>8. QED
      BY <2>7 DEF TailInv, pos, Listed
  <1>8. HeadInv(u)'
    <2> DEFINE f == frame[u]
               h == frame[u].localHead
    <2>1. /\ h \in NodeHead /\ h.node \in Node /\ h.opDesc \in Op \cup {NoOp}
          /\ f.last \in Node /\ f.next \in Node \cup {NoNode} /\ tail \in Node /\ Listed(tail)
      BY <1>1, FrameTypes DEF TypeOK, SharedInv, EndsInv
    <2>2. HeadInv(u)
      BY <1>1 DEF FrameInv
    <2>3. \A n \in Node : Listed(n) => pos(n) \in Nat /\ Listed(n)' /\ pos(n)' = pos(n)
      BY <1>1, Places DEF Evolves, SharedInv
    <2>4. pos(tail) \in Nat /\ pos(tail)' \in Nat /\ pos(tail) <= pos(tail)'
      <3>1. \A n \in Node : pos(n)' \in Nat
        BY DEF pos, Evolves, Node
      <3>2. tail' \in Node
        BY DEF TypeOK
      <3>3. pos(tail)' \in Nat
        BY <3>1, <3>2 DEF pos
      <3>4. QED
        BY <2>1, <2>3, <3>3 DEF Evolves
    <2>5. next[h.node] # NoNode => next'[h.node] = next[h.node]
      BY <2>1 DEF Evolves
    <2>6. (HeadPast(h) => HeadPast(h)') /\ (Listed(h.node) /\ Taken(h) => Taken(h)')
      BY <1>1, <2>1, Stable
    <2>7. pc[u] \in HeadRead => HeadPast(h) /\ Listed(h.node)
      BY <2>2 DEF HeadInv, HeadPast
    <2>8. pc[u] \in {"pollNext", "pollCheck", "deqNext", "deqCheck"} =>
            pos(h.node)' <= pos(f.last)'
      <3>1. pc[u] \in {"pollNext", "pollCheck", "deqNext", "deqCheck"} =>
              Listed(h.node) /\ Listed(f.last) /\ pos(h.node) <= pos(f.last)
        BY <1>1, <2>2, <2>7 DEF HeadInv, HeadRead, FrameInv, TailInv, TailRead
      <3>2. QED
        BY <2>1, <2>3, <3>1
    <2>9. pc[u] = "pollCas" => pos(h.node)' < pos(tail)'
      <3>1. pc[u] = "pollCas" => Listed(h.node) /\ pos(h.node) < pos(tail)
        BY <2>2, <2>7 DEF HeadInv, HeadRead
      <3>2. QED
        BY <2>1, <2>3, <2>4, <3>1
    <2>10. pc[u] = "finDeq" => desc'[h.opDesc].pending = 0
      <3>1. pc[u] = "finDeq" => Taken(h) /\ desc[h.opDesc].pending = 0
        BY <2>2 DEF HeadInv
      <3>2. pc[u] = "finDeq" => h.opDesc \in Op /\ desc[h.opDesc] # NoOp
        BY <2>1, <3>1 DEF Taken
      <3>3. QED
        BY <1>3, <3>1, <3>2
    <2>11. /\ pc[u] \in HeadRead => HeadPast(h)'
           /\ pc[u] \in {"finHeadNext", "finRead", "finDone", "finDeq"} => Taken(h)'
      BY <2>2, <2>6, <2>7 DEF HeadInv, HeadRead
    <2>12. /\ pc[u] \in {"pollCheck", "deqCheck"} => f.next = NoNode \/ next'[h.node] = f.next
           /\ pc[u] = "pollCheck" /\ f.next = NoNode => h.node = f.last
           /\ pc[u] = "pollCas" => f.next # NoNode /\ next'[h.node] = f.next
           /\ pc[u] \in {"finRead", "finDone", "finDeq"} =>
                f.next = NoNode \/ next'[h.node] = f.next
           /\ pc[u] = "finDone" => f.pNode = [node |-> h.node, pending |-> 1]
      BY <2>2, <2>5 DEF HeadInv
    <2>13. QED
      BY <2>8, <2>9, <2>10, <2>11, <2>12 DEF HeadInv, pos, HeadPast, Taken, Listed
  <1>9. PNodeInv(u)'
    <2> DEFINE f == frame[u]
               p == frame[u].pNode
               h == frame[u].localHead
               o == target[u]
    <2>1. /\ h.node \in Node /\ f.last \in Node /\ p \in PNode /\ p.node \in Node \cup {NoNode}
          /\ head.node \in Node /\ tail \in Node
      BY <1>1, FrameTypes, SharedTypes
    <2>2. PNodeInv(u) /\ HeadInv(u) /\ TailInv(u)
      BY <1>1 DEF FrameInv
    <2>3. pc[u] \in DeqPc => o \in Op /\ desc[o] # NoOp /\ kind[o] = "poll"
      <3>1. pc[u] \in DeqPc => role[u] \in {"help", "self"}
        BY <1>1 DEF RoleInv, TypeOK, EnqPc, DeqPc, FinPc, AddPc, PollPc
      <3>2. target[u] \in Op \cup {NoOp}
        BY <1>1 DEF TypeOK
      <3>3. QED
        BY <1>1, <3>1, <3>2 DEF CallInv
    <2>4. \A n \in Node : Listed(n) => pos(n) \in Nat /\ Listed(n)' /\ pos(n)' = pos(n)
      BY <1>1, Places DEF Evolves, SharedInv
    <2>5. pos(head.node) \in Nat /\ pos(head.node)' \in Nat /\ pos(head.node) <= pos(head.node)'
      BY <1>1, Stable
    <2>6. pos(tail) \in Nat /\ pos(tail)' \in Nat /\ pos(tail) <= pos(tail)'
      <3>1. \A n \in Node : pos(n)' \in Nat
        BY DEF pos, Evolves, Node
      <3>2. tail' \in Node
        BY DEF TypeOK
      <3>3. pos(tail)' \in Nat
        BY <3>1, <3>2 DEF pos
      <3>4. Listed(tail)
        BY <1>1 DEF SharedInv, EndsInv
      <3>5. QED
        BY <2>1, <2>4, <3>3, <3>4 DEF Evolves
    <2>7. PNodeRead \subseteq DeqPc
      BY DEF PNodeRead
    <2>8. pc[u] \in PNodeRead => p.pending = 1 /\ Noted(p.node) /\ Noted(p.node)'
          /\ (p.node # NoNode => p.node \in Node /\ Listed(p.node))
      BY <1>1, <2>1, <2>2, Stable DEF PNodeInv, Noted
    <2>9. pc[u] \in PNodeRead /\ p.node # NoNode => desc'[o] = p \/ Left(p.node, o)'
      <3> SUFFICES ASSUME pc[u] \in PNodeRead, p.node # NoNode, desc'[o] # p
                   PROVE  Left(p.node, o)'
        OBVIOUS
      <3>1. o \in Op /\ desc[o] # NoOp /\ kind[o] = "poll" /\ DescMoves(o)
            /\ p.node \in Node /\ Listed(p.node)
        BY <2>3, <2>7, <2>8 DEF Evolves
      <3>2. desc[o] = p \/ Left(p.node, o)
        BY <2>2 DEF PNodeInv
      <3>3. CASE desc[o] = p
        BY <3>1, <3>3 DEF DescMoves
      <3>4. CASE Left(p.node, o)
        BY <1>1, <3>1, <3>4, Stable
      <3>5. QED
        BY <3>2, <3>3, <3>4
    <2>10. pc[u] \in PNodeRead /\ desc'[o].pending = 1 /\ desc'[o].node = NoNode => desc'[o] = p
      <3>1. pc[u] \in PNodeRead => DescMoves(o) /\ kind[o] = "poll" /\ desc[o].pending \in {0, 1}
        BY <1>1, <2>3, <2>7, SharedTypes DEF Evolves
      <3>2. pc[u] \in PNodeRead /\ desc[o].pending = 1 /\ desc[o].node = NoNode => desc[o] = p
        BY <2>2 DEF PNodeInv
      <3>3. QED
        BY <3>1, <3>2 DEF DescMoves
    <2>11. pc[u] = "deqReread" /\ desc'[o].pending = 1 => desc'[o].node # NoNode
      <3>1. pc[u] = "deqReread" => DescMoves(o) /\ kind[o] = "poll" /\ desc[o].pending \in {0, 1}
        BY <1>1, <2>3, SharedTypes DEF Evolves, DeqPc
      <3>2. pc[u] = "deqReread" /\ desc[o].pending = 1 => desc[o].node # NoNode
        BY <2>2 DEF PNodeInv
      <3>3. QED
        BY <3>1, <3>2 DEF DescMoves
    <2>12. pc[u] \in {"deqTail", "deqNext", "deqCheck", "deqClaim"} /\ p.node # NoNode =>
             pos(p.node)' <= pos(h.node)'
      <3>1. pc[u] \in {"deqTail", "deqNext", "deqCheck", "deqClaim"} =>
              Listed(h.node) /\ pc[u] \in PNodeRead
        BY <2>2 DEF HeadInv, HeadRead, HeadPast, PNodeRead, DeqPc
      <3>2. pc[u] \in {"deqTail", "deqNext", "deqCheck", "deqClaim"} /\ p.node # NoNode =>
              pos(p.node) <= pos(h.node)
        BY <2>2 DEF PNodeInv
      <3>3. QED
        BY <2>1, <2>4, <2>8, <3>1, <3>2
    <2>13. pc[u] \in {"deqNext", "deqCheck"} /\ p.node # NoNode => pos(p.node)' < pos(f.last)'
      <3>1. pc[u] \in {"deqNext", "deqCheck"} => Listed(f.last) /\ pc[u] \in PNodeRead
        BY <2>2 DEF TailInv, TailRead, PNodeRead, DeqPc
      <3>2. pc[u] \in {"deqNext", "deqCheck"} /\ p.node # NoNode => pos(p.node) < pos(f.last)
        BY <2>2 DEF PNodeInv
      <3>3. QED
        BY <2>1, <2>4, <2>8, <3>1, <3>2
    <2>14. pc[u] \in {"deqEmpty", "deqNull"} /\ p.node # NoNode =>
             pos(p.node)' < pos(head.node)'
      <3>1. pc[u] \in {"deqEmpty", "deqNull"} => pc[u] \in PNodeRead
        BY DEF PNodeRead, DeqPc
      <3>2. pc[u] \in {"deqEmpty", "deqNull"} /\ p.node # NoNode => pos(p.node) < pos(head.node)
        BY <2>2 DEF PNodeInv
      <3>3. QED
        BY <2>1, <2>4, <2>5, <2>8, <3>1, <3>2
    <2>15. pc[u] = "deqClaim" => h.node # p.node /\ pos(h.node)' < pos(tail)'
      <3>1. pc[u] = "deqClaim" => Listed(h.node)
        BY <2>2 DEF HeadInv, HeadRead, HeadPast
      <3>2. pc[u] = "deqClaim" => h.node # p.node /\ pos(h.node) < pos(tail)
        BY <2>2 DEF PNodeInv
      <3>3. QED
        BY <2>1, <2>4, <2>6, <3>1, <3>2
    <2>16. /\ pc[u] \in {"deqTail", "deqNext", "deqCheck", "deqClaim"} => f.first = h.node
           /\ pc[u] \in {"deqStill", "deqCas"} => f.first = p.node /\ p.node # NoNode
      BY <2>2 DEF PNodeInv
    <2>17. QED
      BY <2>8, <2>9, <2>10, <2>11, <2>12, <2>13, <2>14, <2>15, <2>16
         DEF PNodeInv, pos, Noted, Listed, Left
  <1>10. QED
    BY <1>4, <1>5, <1>6, <1>7, <1>8, <1>9 DEF FrameInv

-----------------------------------------------------------------------------
(* The steps that change a shared field keep the shared invariant, and let *)
(* the fields evolve.                                                      *)

\* When no node is linked, places stay.
LEMMA SamePlaces ==
    ASSUME TypeOK, ListInv, Watch, next' = next
    PROVE  /\ place' = place /\ back' = back /\ place' \in [Op -> Nat] /\ ListInv'
           /\ \A n : pos(n)' = pos(n) /\ Listed(n)' = Listed(n)
  <1>1. place' = place
    BY WatchSame
  <1>2. back' = back /\ place' \in [Op -> Nat]
    BY <1>1 DEF back, Placed, ListInv
  <1>3. ListInv'
    BY <1>1 DEF ListInv, back, Placed, pos, Listed, Linked
  <1>4. \A n : pos(n)' = pos(n) /\ Listed(n)' = Listed(n)
    BY <1>1 DEF pos, Listed
  <1>5. QED
    BY <1>1, <1>2, <1>3, <1>4

\* A step that leaves the list, its ends and the descriptors alone.
LEMMA QuietStep ==
    ASSUME TypeOK, TypeOK', SharedInv, Watch, NEW t \in Thread,
           UNCHANGED <<next, head, tail, desc, kind, calls>>,
           \A o \in Op : result'[o] = result[o] \/ (o[1] = t /\ o[2] <= calls[t])
    PROVE  SharedInv' /\ Evolves(t)
  <1>1. /\ place' = place /\ back' = back /\ ListInv' /\ place' \in [Op -> Nat]
        /\ \A n : pos(n)' = pos(n) /\ Listed(n)' = Listed(n)
    BY SamePlaces DEF SharedInv
  <1>2. EndsInv'
    BY <1>1 DEF SharedInv, EndsInv, pos, Listed, back, Placed
  <1>3. DescInv'
    <2>1. \A o \in Op : ~Undone(o)' => o[2] <= calls'[o[1]]
      BY <1>1 DEF SharedInv, DescInv, Undone
    <2>2. \A o \in Op : EnqInv(o)' = EnqInv(o) /\ DeqInv(o)' = DeqInv(o)
      BY <1>1 DEF EnqInv, DeqInv, Noted, Left, pos, Listed
    <2>3. QED
      BY <1>1, <2>1, <2>2 DEF SharedInv, DescInv
  <1>4. Claimed'
    BY DEF SharedInv, Claimed
  <1>5. Evolves(t)
    <2>1. \A o \in Op : o[1] # t /\ Undone(o) => Undone(o)'
      BY <1>1 DEF Undone
    <2>2. \A o \in Op : desc[o] # NoOp => DescMoves(o)
      BY DEF DescMoves
    <2>3. pos(tail) <= pos(tail)'
      <3>1. pos(tail)' = pos(tail) /\ pos(tail) \in Nat
        BY <1>1, Places, SharedTypes DEF SharedInv, pos
      <3>2. QED
        BY <3>1
    <2>4. QED
      BY <1>1, <2>1, <2>2, <2>3 DEF Evolves, HeadMoves
  <1>6. QED
    BY <1>1, <1>2, <1>3, <1>4, <1>5 DEF SharedInv

\* A call begins.
LEMMA BeginShared ==
    ASSUME TypeOK, TypeOK', SharedInv, Watch, NEW t \in Thread, calls[t] \in Nat,
           NEW k \in {"add", "poll"},
           UNCHANGED <<next, head, tail, desc, result>>,
           calls' = [calls EXCEPT ![t] = @ + 1],
           kind' = [kind EXCEPT ![<<t, calls[t] + 1>>] = k]
    PROVE  /\ SharedInv' /\ Evolves(t)
           /\ \A o \in Op : o = <<t, calls[t] + 1>> => Undone(o)'
  <1>1. /\ place' = place /\ back' = back /\ ListInv' /\ place' \in [Op -> Nat]
        /\ \A n : pos(n)' = pos(n) /\ Listed(n)' = Listed(n)
    BY SamePlaces DEF SharedInv
  <1>2. \A u \in Thread : calls'[u] = IF u = t THEN calls[t] + 1 ELSE calls[u]
    BY DEF TypeOK
  <1>3. \A o \in Op : (o = <<t, calls[t] + 1>> => Undone(o))
                      /\ (o # <<t, calls[t] + 1>> => kind'[o] = kind[o])
    <2>1. \A o \in Op : o = <<t, calls[t] + 1>> => o[1] = t /\ ~(o[2] <= calls[o[1]])
      OBVIOUS
    <2>2. QED
      BY <2>1 DEF SharedInv, DescInv, TypeOK
  <1>4. \A o \in Op : ~Undone(o) => kind'[o] = kind[o]
    BY <1>3
  <1>5. \A o \in Op : Undone(o)' = Undone(o)
    BY <1>1 DEF Undone
  <1>6. EndsInv'
    <2>1. head.opDesc # NoOp => head.opDesc \in Op /\ desc[head.opDesc] # NoOp
      BY SharedTypes DEF SharedInv, EndsInv
    <2>2. head.opDesc # NoOp => kind'[head.opDesc] = kind[head.opDesc]
      BY <1>4, <2>1 DEF Undone
    <2>3. QED
      BY <1>1, <2>2 DEF SharedInv, EndsInv, pos, Listed, back, Placed
  <1>7. DescInv'
    <2>1. \A o \in Op : ~Undone(o)' => o[2] <= calls'[o[1]]
      <3> SUFFICES ASSUME NEW o \in Op, ~Undone(o)' PROVE o[2] <= calls'[o[1]]
        OBVIOUS
      <3>1. o[1] \in Thread /\ o[2] \in Nat /\ calls[o[1]] \in Nat
        BY OpFacts DEF TypeOK
      <3>2. o[2] <= calls[o[1]]
        BY <1>5 DEF SharedInv, DescInv
      <3>3. QED
        BY <1>2, <3>1, <3>2
    <2>2. \A o \in Op : EnqInv(o)' = EnqInv(o) /\ DeqInv(o)' = DeqInv(o)
      BY <1>1 DEF EnqInv, DeqInv, Noted, Left, pos, Listed
    <2>3. \A o \in Op : desc[o] # NoOp \/ place[o] # 0 => kind'[o] = kind[o]
      BY <1>4 DEF Undone
    <2>4. QED
      BY <1>1, <2>1, <2>2, <2>3 DEF SharedInv, DescInv
  <1>8. Claimed'
    BY DEF SharedInv, Claimed
  <1>9. Evolves(t)
    <2>1. \A o \in Op : desc[o] # NoOp => DescMoves(o)
      BY DEF DescMoves
    <2>2. pos(tail) <= pos(tail)'
      <3>1. pos(tail)' = pos(tail) /\ pos(tail) \in Nat
        BY <1>1, Places, SharedTypes DEF SharedInv, pos
      <3>2. QED
        BY <3>1
    <2>3. \A o \in Op : desc[o] # NoOp \/ place[o] # 0 \/ o[1] # t => kind'[o] = kind[o]
      BY <1>3 DEF Undone
    <2>4. QED
      BY <1>1, <1>2, <1>5, <2>1, <2>2, <2>3 DEF Evolves, HeadMoves
  <1>10. QED
    BY <1>1, <1>3, <1>5, <1>6, <1>7, <1>8, <1>9 DEF SharedInv

\* A node is linked: it is behind the last node, which is the tail.
LEMMA LinkStep ==
    ASSUME TypeOK, TypeOK', SharedInv, Watch, NEW t \in Thread, NEW l \in Node, NEW o \in Op,
           next[l] = NoNode, Listed(l), pos(l) <= pos(tail), place[o] = 0, kind[o] = "add",
           o[2] <= calls[o[1]], desc[o] # NoOp => desc[o].pending = 1,
           Undone(o) => o[1] = t,
           next' = [next EXCEPT ![l] = o],
           UNCHANGED <<head, tail, desc, kind, calls, result>>
    PROVE  SharedInv' /\ Evolves(t) /\ l = tail /\ place' = [place EXCEPT ![o] = back + 1]
  <1>1. /\ ListInv /\ EndsInv /\ DescInv /\ Claimed
        /\ head.node \in Node /\ tail \in Node /\ Listed(tail) /\ Listed(head.node)
    BY SharedTypes DEF SharedInv, EndsInv
  <1>2. back \in Nat /\ pos(tail) = back /\ l = tail
    <2>1. pos(l) = back
      BY <1>1 DEF ListInv
    <2>2. QED
      BY <1>1, <2>1, Places
  <1>3. /\ place' = [place EXCEPT ![o] = back + 1] /\ back' = back + 1 /\ ListInv'
    BY <1>1, WatchLink
  <1>4. \A q \in Op : place'[q] = IF q = o THEN back + 1 ELSE place[q]
    BY <1>1, <1>3 DEF ListInv
  <1>5. \A n \in Node : Listed(n) => Listed(n)' /\ pos(n)' = pos(n) /\ pos(n) \in Nat
    <2>1. ~Listed(o) /\ back + 1 # 0
      BY <1>2, Nulls DEF Listed
    <2>2. QED
      BY <1>1, <1>4, <2>1, Places DEF Listed, pos, Node
  <1>6. \A n \in Node : next'[n] = IF n = l THEN o ELSE next[n]
    BY DEF TypeOK
  <1>7. /\ Listed(tail)' /\ Listed(head.node)' /\ pos(tail)' = pos(tail)
        /\ pos(head.node)' = pos(head.node) /\ pos(head.node) \in Nat
    BY <1>1, <1>5 DEF Listed, pos
  <1>8. EndsInv'
    BY <1>1, <1>2, <1>3, <1>7 DEF EndsInv
  <1>9. DescInv'
    <2>1. \A q \in Op : ~Undone(q)' => q[2] <= calls'[q[1]]
      <3> SUFFICES ASSUME NEW q \in Op, ~Undone(q)' PROVE q[2] <= calls'[q[1]]
        OBVIOUS
      <3>1. q = o \/ ~Undone(q)
        BY <1>4 DEF Undone
      <3>2. QED
        BY <1>1, <3>1 DEF DescInv
    <2>2. \A q \in Op : place'[q] # 0 => kind'[q] = "add"
      BY <1>1, <1>4 DEF DescInv
    <2>3. ASSUME NEW q \in Op, desc[q] # NoOp, kind[q] = "add"
          PROVE  EnqInv(q)'
      <3>1. EnqInv(q)
        BY <1>1, <2>3 DEF DescInv
      <3>2. CASE q = o
        BY <1>2, <1>6, <2>3, <3>2 DEF EnqInv
      <3>3. CASE q # o
        <4>1. place'[q] = place[q] /\ next[tail] = NoNode
          BY <1>2, <1>4, <3>3
        <4>2. QED
          BY <3>1, <4>1, Nulls DEF EnqInv
      <3>4. QED
        BY <3>2, <3>3
    <2>4. ASSUME NEW q \in Op, desc[q] # NoOp, kind[q] = "poll"
          PROVE  DeqInv(q)'
      <3>1. DeqInv(q) /\ desc[q].node \in Node \cup {NoNode}
        BY <1>1, <2>4, SharedTypes DEF DescInv
      <3>2. \A n \in Node \cup {NoNode} : Noted(n) => Noted(n)'
        BY <1>5, <1>7 DEF Noted
      <3>3. \A n \in Node : Listed(n) /\ Left(n, q) => Left(n, q)'
        BY <1>5, <1>7 DEF Left
      <3>4. Noted(desc[q].node)'
        BY <3>1, <3>2 DEF DeqInv, Noted, Listed, pos
      <3>5. desc[q].pending = 0 /\ desc[q].node # NoNode => Left(desc[q].node, q)'
        BY <3>1, <3>3 DEF DeqInv, Noted, Listed, pos, Left
      <3>6. QED
        BY <3>4, <3>5 DEF DeqInv
    <2>5. QED
      BY <2>1, <2>2, <2>3, <2>4 DEF DescInv
  <1>10. Claimed'
    BY <1>1 DEF Claimed
  <1>11. Evolves(t)
    <2>1. place' \in [Op -> Nat]
      BY <1>3 DEF ListInv
    <2>2. \A n \in Node : next[n] # NoNode => next'[n] = next[n]
      BY <1>6
    <2>3. \A n \in Node : Listed(n) => next'[n] # NoNode
      <3> SUFFICES ASSUME NEW n \in Node, Listed(n) PROVE next'[n] # NoNode
        OBVIOUS
      <3>1. n # l => pos(n) < back
        <4>1. pos(l) = back /\ (pos(n) = pos(l) => n = l) /\ pos(n) \in Nat /\ pos(n) <= back
          BY <1>1, <1>2, Places
        <4>2. QED
          BY <1>2, <4>1
      <3>2. n # l => next[n] # NoNode
        BY <1>1, <3>1, Places
      <3>3. QED
        BY <1>6, <3>2, Nulls
    <2>4. pos(tail) <= pos(tail)'
      BY <1>2, <1>7
    <2>5. \A q \in Op : q[1] # t /\ Undone(q) => Undone(q)'
      BY <1>4 DEF Undone
    <2>6. \A q \in Op : desc[q] # NoOp => DescMoves(q)
      BY DEF DescMoves
    <2>7. QED
      BY <1>5, <2>1, <2>2, <2>3, <2>4, <2>5, <2>6 DEF Evolves, HeadMoves
  <1>12. QED
    BY <1>2, <1>3, <1>8, <1>9, <1>10, <1>11 DEF SharedInv

\* The tail moves on by one node, from an announced one when it is done.
LEMMA TailStep ==
    ASSUME TypeOK, TypeOK', SharedInv, Watch, NEW t \in Thread, NEW l \in Node, NEW m \in Op,
           next[l] = m, desc[m] = NoOp \/ desc[m].pending = 0,
           tail' = IF tail = l THEN m ELSE tail,
           UNCHANGED <<next, head, desc, kind, calls, result>>
    PROVE  SharedInv' /\ Evolves(t)
  <1>1. CASE tail # l
    <2>1. tail' = tail
      BY <1>1
    <2>2. QED
      BY <2>1, QuietStep
  <1>2. CASE tail = l
    <2>1. /\ place' = place /\ back' = back /\ ListInv' /\ place' \in [Op -> Nat]
          /\ \A n : pos(n)' = pos(n) /\ Listed(n)' = Listed(n)
      BY SamePlaces DEF SharedInv
    <2>2. /\ ListInv /\ EndsInv /\ DescInv /\ Claimed /\ tail' = m /\ m # NoNode
          /\ head.node \in Node /\ tail \in Node /\ Listed(tail) /\ Listed(head.node)
      BY <1>2, SharedTypes, Nulls DEF SharedInv, EndsInv
    <2>3. /\ Listed(m) /\ pos(m) = pos(tail) + 1 /\ pos(tail) \in Nat /\ back \in Nat
          /\ pos(head.node) \in Nat /\ m \in Node
      BY <1>2, <2>2, Places, Nulls
    <2>4. pos(tail)' = pos(tail) + 1 /\ Listed(tail)'
      <3>1. pos(m)' = pos(m) /\ Listed(m)' = Listed(m)
        BY <2>1
      <3>2. pos(tail)' = pos(m)' /\ Listed(tail)' = Listed(m)'
        BY <2>2 DEF pos, Listed
      <3>3. QED
        BY <2>3, <3>1, <3>2
    <2>5. pos(head.node)' = pos(head.node) /\ Listed(head.node)'
      BY <2>1, <2>2 DEF pos, Listed
    <2>6. EndsInv'
      BY <2>1, <2>2, <2>3, <2>4, <2>5 DEF EndsInv
    <2>7. DescInv'
      <3>1. \A q \in Op : Undone(q)' = Undone(q)
        BY <2>1 DEF Undone
      <3>2. ASSUME NEW q \in Op, desc[q] # NoOp, kind[q] = "add"
            PROVE  EnqInv(q)'
        <4>1. EnqInv(q)
          BY <2>2, <3>2 DEF DescInv
        <4>2. desc[q].pending = 1 => place[q] = 0
          BY <1>2, <3>2, <4>1 DEF EnqInv
        <4>3. QED
          BY <2>1, <4>1, <4>2 DEF EnqInv
      <3>3. ASSUME NEW q \in Op, desc[q] # NoOp, kind[q] = "poll"
            PROVE  DeqInv(q)'
        <4>1. DeqInv(q) /\ desc[q].node \in Node \cup {NoNode}
          BY <2>2, <3>3, SharedTypes DEF DescInv
        <4>2. \A n \in Node : Listed(n) => pos(n) \in Nat
          BY <2>2, Places
        <4>3. Noted(desc[q].node)'
          <5>1. \A n \in Node \cup {NoNode} : Noted(n) => Noted(n)'
            BY <2>1, <2>3, <2>4, <2>5, <4>2 DEF Noted
          <5>2. QED
            BY <4>1, <5>1 DEF DeqInv, Noted, Listed, pos
        <4>4. desc[q].pending = 0 /\ desc[q].node # NoNode => Left(desc[q].node, q)'
          BY <2>1, <2>5, <4>1 DEF DeqInv, Left, pos
        <4>5. QED
          BY <4>3, <4>4 DEF DeqInv
      <3>4. QED
        BY <2>1, <2>2, <3>1, <3>2, <3>3 DEF DescInv
    <2>8. Claimed'
      BY <2>2 DEF Claimed
    <2>9. Evolves(t)
      <3>1. \A q \in Op : q[1] # t /\ Undone(q) => Undone(q)'
        BY <2>1 DEF Undone
      <3>2. \A q \in Op : desc[q] # NoOp => DescMoves(q)
        BY DEF DescMoves
      <3>3. pos(tail) <= pos(tail)'
        BY <2>3, <2>4
      <3>4. QED
        BY <2>1, <3>1, <3>2, <3>3 DEF Evolves, HeadMoves
    <2>10. QED
      BY <2>1, <2>6, <2>7, <2>8, <2>9 DEF SharedInv
  <1>3. QED
    BY <1>1, <1>2

\* The head moves: it takes in the descriptor o of a poll that notes its node,
\* or moves on to the next node, past a descriptor that is done.
LEMMA HeadStep ==
    ASSUME TypeOK, TypeOK', SharedInv, Watch, NEW t \in Thread,
           UNCHANGED <<next, tail, desc, kind, calls>>,
           pos(head.node) < pos(tail),
           \A o \in Op : result'[o] = result[o] \/ (o[1] = t /\ o[2] <= calls[t]),
           \/ /\ head.opDesc = NoOp /\ head'.node = head.node /\ head'.opDesc \in Op
              /\ desc[head'.opDesc] # NoOp /\ desc[head'.opDesc].node = head.node
              /\ kind[head'.opDesc] = "poll"
           \/ /\ head'.node = next[head.node] /\ head'.opDesc = NoOp
              /\ head.opDesc # NoOp => desc[head.opDesc].pending = 0
    PROVE  SharedInv' /\ Evolves(t)
  <1>1. /\ place' = place /\ back' = back /\ ListInv' /\ place' \in [Op -> Nat]
        /\ \A n : pos(n)' = pos(n) /\ Listed(n)' = Listed(n)
    BY SamePlaces DEF SharedInv
  <1>2. /\ ListInv /\ EndsInv /\ DescInv /\ Claimed
        /\ head.node \in Node /\ tail \in Node /\ Listed(tail) /\ Listed(head.node)
        /\ head = [node |-> head.node, opDesc |-> head.opDesc]
    BY SharedTypes DEF SharedInv, EndsInv
  <1>3. /\ next[head.node] \in Op /\ next[head.node] # NoNode /\ Listed(next[head.node])
        /\ pos(next[head.node]) = pos(head.node) + 1
        /\ pos(head.node) \in Nat /\ pos(tail) \in Nat /\ back \in Nat
    <2>1. pos(head.node) < back /\ pos(head.node) \in Nat /\ pos(tail) \in Nat /\ back \in Nat
      <3>1. pos(head.node) \in Nat /\ pos(tail) \in Nat /\ back \in Nat /\ pos(tail) <= back
        BY <1>2, Places
      <3>2. QED
        BY <3>1
    <2>2. QED
      BY <1>2, <2>1, Places, Nulls
  <1>4. /\ Listed(head.node)'
        /\ pos(head.node)' <= pos(tail) /\ pos(head.node)' \in Nat
        /\ \/ pos(head.node)' = pos(head.node) /\ head'.opDesc # NoOp
           \/ pos(head.node)' = pos(head.node) + 1 /\ head'.opDesc = NoOp
    <2>1. CASE head'.node = head.node /\ head'.opDesc \in Op
      <3>1. pos(head.node)' = pos(head.node) /\ Listed(head.node)'
        BY <1>1, <1>2, <2>1 DEF pos, Listed
      <3>2. QED
        BY <1>3, <2>1, <3>1, Nulls
    <2>2. CASE head'.node = next[head.node] /\ head'.opDesc = NoOp
      <3> PICK m \in Op : m = next[head.node]
        BY <1>3
      <3>1. pos(m)' = pos(m) /\ Listed(m)' /\ head'.node = m /\ pos(m) = pos(head.node) + 1
        BY <1>1, <1>3, <2>2
      <3>2. pos(head.node)' = pos(head.node) + 1 /\ Listed(head.node)'
        BY <3>1 DEF pos, Listed
      <3>3. QED
        BY <1>3, <2>2, <3>2
    <2>3. QED
      BY <2>1, <2>2
  <1>5. pos(tail)' = pos(tail) /\ Listed(tail)'
    BY <1>1, <1>2 DEF pos, Listed
  <1>6. EndsInv'
    <2>1. head'.opDesc # NoOp => pos(head.node)' < pos(tail) /\ kind[head'.opDesc] = "poll"
                                 /\ desc[head'.opDesc] # NoOp
      BY <1>3, <1>4
    <2>2. QED
      BY <1>1, <1>2, <1>4, <1>5, <2>1 DEF EndsInv
  <1>7. DescInv'
    <2>1. \A q \in Op : ~Undone(q)' => q[2] <= calls'[q[1]]
      <3> SUFFICES ASSUME NEW q \in Op, ~Undone(q)' PROVE q[2] <= calls'[q[1]]
        OBVIOUS
      <3>1. ~Undone(q) \/ (q[1] = t /\ q[2] <= calls[t])
        BY <1>1 DEF Undone
      <3>2. QED
        BY <1>2, <3>1 DEF DescInv
    <2>2. \A q \in Op : EnqInv(q)' = EnqInv(q)
      BY <1>1 DEF EnqInv
    <2>3. ASSUME NEW q \in Op, desc[q] # NoOp, kind[q] = "poll"
          PROVE  DeqInv(q)'
      <3>1. DeqInv(q) /\ desc[q].node \in Node \cup {NoNode}
        BY <1>2, <2>3, SharedTypes DEF DescInv
      <3>2. \A n \in Node : Listed(n) => pos(n) \in Nat
        BY <1>2, Places
      <3>3. \A n \in Node \cup {NoNode} : Noted(n) => Noted(n)'
        BY <1>1, <1>3, <1>4, <1>5, <3>2 DEF Noted
      <3>4. Noted(desc[q].node)'
        BY <3>1, <3>3 DEF DeqInv, Noted, Listed, pos
      <3>5. \A n \in Node : Listed(n) /\ desc[q].pending = 0 /\ Left(n, q) => Left(n, q)'
        <4> SUFFICES ASSUME NEW n \in Node, Listed(n), Left(n, q) PROVE Left(n, q)'
          OBVIOUS
        <4>1. pos(n)' = pos(n) /\ pos(n) \in Nat
          BY <1>1, <3>2
        <4>2. CASE pos(n) < pos(head.node)
          <5>1. pos(n)' < pos(head.node)'
            BY <1>3, <1>4, <4>1, <4>2
          <5>2. QED
            BY <5>1 DEF Left
        <4>3. CASE head = [node |-> n, opDesc |-> q]
          <5>1. head.node = n /\ head.opDesc # NoOp
            BY <4>3, Nulls
          <5>2. pos(head.node)' = pos(head.node) + 1
            BY <1>2, <1>4, <5>1, Nulls
          <5>3. pos(n)' < pos(head.node)'
            BY <1>3, <4>1, <5>1, <5>2
          <5>4. QED
            BY <5>3 DEF Left
        <4>4. QED
          BY <4>2, <4>3 DEF Left
      <3>6. desc[q].pending = 0 /\ desc[q].node # NoNode => Left(desc[q].node, q)'
        BY <3>1, <3>5 DEF DeqInv, Noted, Listed, pos, Left
      <3>7. QED
        BY <3>4, <3>6 DEF DeqInv
    <2>4. QED
      BY <1>1, <1>2, <2>1, <2>2, <2>3 DEF DescInv
  <1>8. Claimed'
    BY DEF Claimed
  <1>9. Evolves(t)
    <2>1. \A q \in Op : q[1] # t /\ Undone(q) => Undone(q)'
      BY <1>1 DEF Undone
    <2>2. \A q \in Op : desc[q] # NoOp => DescMoves(q)
      BY DEF DescMoves
    <2>3. pos(tail) <= pos(tail)'
      BY <1>3, <1>5
    <2>4. HeadMoves
      BY <1>3, Nulls DEF HeadMoves
    <2>5. QED
      BY <1>1, <2>1, <2>2, <2>3, <2>4 DEF Evolves
  <1>10. QED
    BY <1>1, <1>6, <1>7, <1>8, <1>9 DEF SharedInv

\* A descriptor is announced, notes another node, or is done.
LEMMA DescStep ==
    ASSUME TypeOK, TypeOK', SharedInv, Watch, NEW t \in Thread, NEW o \in Op, NEW p \in PNode,
           UNCHANGED <<next, head, tail, kind, calls, result>>,
           desc' = [desc EXCEPT ![o] = p],
           o[2] <= calls[o[1]],
           desc[o] = NoOp => o[1] = t /\ place[o] = 0,
           desc[o] # NoOp => DescMoves(o),
           kind[o] = "add" => IF p.pending = 1 THEN place[o] # 0 => next[tail] = o
                                               ELSE place[o] # 0,
           kind[o] = "poll" => /\ Noted(p.node)
                               /\ p.pending = 0 /\ p.node # NoNode => Left(p.node, o),
           head.opDesc = o => p.node = head.node
    PROVE  SharedInv' /\ Evolves(t)
  <1>1. /\ place' = place /\ back' = back /\ ListInv' /\ place' \in [Op -> Nat]
        /\ \A n : pos(n)' = pos(n) /\ Listed(n)' = Listed(n)
    BY SamePlaces DEF SharedInv
  <1>2. ListInv /\ EndsInv /\ DescInv /\ Claimed
    BY DEF SharedInv
  <1>3. (\A q \in Op : desc'[q] = IF q = o THEN p ELSE desc[q]) /\ p # NoOp
    BY Nulls DEF TypeOK
  <1>4. \A q \in Op : desc[q] # NoOp => DescMoves(q)
    BY <1>3 DEF DescMoves
  <1>5. EndsInv'
    <2>1. head.opDesc # NoOp => head.opDesc \in Op /\ desc'[head.opDesc] # NoOp
      BY <1>2, <1>3, SharedTypes DEF EndsInv
    <2>2. QED
      BY <1>1, <1>2, <2>1 DEF EndsInv, pos, Listed, back, Placed
  <1>6. DescInv'
    <2>1. \A q \in Op : ~Undone(q)' => q[2] <= calls'[q[1]]
      <3> SUFFICES ASSUME NEW q \in Op, ~Undone(q)' PROVE q[2] <= calls'[q[1]]
        OBVIOUS
      <3>1. ~Undone(q) \/ q = o
        BY <1>1, <1>3 DEF Undone
      <3>2. QED
        BY <1>2, <3>1 DEF DescInv
    <2>2. ASSUME NEW q \in Op, desc'[q] # NoOp, kind[q] = "add"
          PROVE  EnqInv(q)'
      <3>1. q # o => EnqInv(q)
        BY <1>2, <1>3, <2>2 DEF DescInv
      <3>2. QED
        BY <1>1, <1>3, <2>2, <3>1 DEF EnqInv
    <2>3. ASSUME NEW q \in Op, desc'[q] # NoOp, kind[q] = "poll"
          PROVE  DeqInv(q)'
      <3>1. CASE q # o
        <4>1. DeqInv(q) /\ desc'[q] = desc[q]
          BY <1>2, <1>3, <2>3, <3>1 DEF DescInv
        <4>2. QED
          BY <1>1, <4>1 DEF DeqInv, Noted, Left, pos, Listed
      <3>2. CASE q = o
        <4>1. desc'[q] = p /\ Noted(p.node) /\ (p.pending = 0 /\ p.node # NoNode => Left(p.node, o))
          BY <1>3, <2>3, <3>2
        <4>2. QED
          BY <1>1, <3>2, <4>1 DEF DeqInv, Noted, Left, pos, Listed
      <3>3. QED
        BY <3>1, <3>2
    <2>4. QED
      BY <1>1, <1>2, <2>1, <2>2, <2>3 DEF DescInv
  <1>7. Claimed'
    <2>1. head.opDesc # NoOp => head.opDesc \in Op
      BY SharedTypes
    <2>2. QED
      BY <1>2, <1>3, <2>1 DEF Claimed
  <1>8. Evolves(t)
    <2>1. \A q \in Op : q[1] # t /\ Undone(q) => Undone(q)'
      BY <1>1, <1>3 DEF Undone
    <2>2. pos(tail) <= pos(tail)'
      <3>1. pos(tail)' = pos(tail) /\ pos(tail) \in Nat
        BY <1>1, <1>2, Places, SharedTypes DEF pos
      <3>2. QED
        BY <3>1
    <2>3. \A q \in Op : desc[q] = NoOp /\ place[q] # 0 => desc'[q] = NoOp
      BY <1>3
    <2>4. QED
      BY <1>1, <1>4, <2>1, <2>2, <2>3 DEF Evolves, HeadMoves
  <1>9. QED
    BY <1>1, <1>5, <1>6, <1>7, <1>8 DEF SharedInv

-----------------------------------------------------------------------------
(* Types.                                                                  *)

\* Numbers of a HelpRecord.
LEMMA RecordTypes ==
    ASSUME IInv, NEW t \in Thread
    PROVE  /\ Len(tids) \in Nat
           /\ curTid[t] \in -1 .. Len(tids) - 1
           /\ tids # << >> => Len(tids) # 0
           /\ curTid[t] # -1 => tids[curTid[t] + 1] \in Thread
           /\ nextCheck[t] \in -1 .. HELPINGDELAY
  <1>1. tids \in Seq(Thread) /\ Len(tids) \in Nat /\ curTid[t] \in -1 .. Len(tids) - 1
        /\ nextCheck[t] \in -1 .. HELPINGDELAY
    BY DEF IInv, TypeOK
  <1>2. curTid[t] # -1 => curTid[t] + 1 \in 1 .. Len(tids)
    BY <1>1
  <1>3. curTid[t] # -1 => tids[curTid[t] + 1] \in Thread
    BY <1>1, <1>2
  <1>4. QED
    BY <1>1, <1>3

\* The locals after an update of one of them.
LEMMA FrameUpdates ==
    ASSUME TypeOK, NEW t \in Thread
    PROVE  /\ [frame EXCEPT ![t] = Blank] \in [Thread -> Frame]
           /\ \A n \in Node : [frame EXCEPT ![t].last = n] \in [Thread -> Frame]
           /\ \A n \in Node \cup {NoNode} : [frame EXCEPT ![t].next = n] \in [Thread -> Frame]
           /\ \A h \in NodeHead : [frame EXCEPT ![t].localHead = h] \in [Thread -> Frame]
           /\ \A h \in NodeHead, n \in Node :
                [frame EXCEPT ![t].localHead = h, ![t].first = n] \in [Thread -> Frame]
           /\ \A p \in PNode : [frame EXCEPT ![t].pNode = p] \in [Thread -> Frame]
           /\ \A p \in PNode, n \in Node :
                [frame EXCEPT ![t].pNode = p, ![t].first = n] \in [Thread -> Frame]
           /\ [frame EXCEPT ![t].done = TRUE] \in [Thread -> Frame]
  <1>1. frame \in [Thread -> Frame]
    BY DEF TypeOK
  <1>2. Blank \in Frame
    BY Nulls DEF Blank, Frame, NodeHead, PNode
  <1>3. \A f \in Frame :
          /\ \A n \in Node : [f EXCEPT !.last = n] \in Frame
          /\ \A n \in Node \cup {NoNode} : [f EXCEPT !.next = n] \in Frame
          /\ \A h \in NodeHead : [f EXCEPT !.localHead = h] \in Frame
          /\ \A n \in Node : [f EXCEPT !.first = n] \in Frame
          /\ \A p \in PNode : [f EXCEPT !.pNode = p] \in Frame
          /\ [f EXCEPT !.done = TRUE] \in Frame
    BY DEF Frame
  <1>4. QED
    BY <1>1, <1>2, <1>3

\* The contents of a PNode.
LEMMA PNodes ==
    /\ \A q \in PNode : /\ q = [node |-> q.node, pending |-> q.pending]
                        /\ [q EXCEPT !.pending = 0] = [node |-> q.node, pending |-> 0]
    /\ \A n \in Node \cup {NoNode}, b \in {0, 1} : [node |-> n, pending |-> b] \in PNode
    /\ \A q \in PNode : q.node \in Node \cup {NoNode} /\ q.pending \in {0, 1}
  BY DEF PNode

\* A step that changes the locals of one round.
LEMMA LocalTypes ==
    ASSUME TypeOK,
           UNCHANGED <<next, head, tail, state, desc, tids, curTid, willHelp, nextCheck,
                       kind, calls, role, target>>,
           result' \in [Op -> Op \cup {None, Empty}], pc' \in [Thread -> PcLabels],
           trials' \in [Thread -> 0 .. MAXFAILURES - 1], frame' \in [Thread -> Frame]
    PROVE  TypeOK'
  BY DEF TypeOK

LEMMA GotoTypes ==
    ASSUME TypeOK, NEW t \in Thread, NEW l \in PcLabels, Goto(t, l)
    PROVE  pc' \in [Thread -> PcLabels] /\ pc'[t] = l
  BY DEF TypeOK, Goto

LEMMA AgainTypes ==
    ASSUME TypeOK, NEW t \in Thread, Again(t)
    PROVE  /\ pc' \in [Thread -> PcLabels] /\ frame' \in [Thread -> Frame] /\ frame'[t] = Blank
           /\ trials' \in [Thread -> 0 .. MAXFAILURES - 1]
           /\ pc'[t] = IF role[t] # "fast" THEN HelpLoop(t)
                       ELSE IF trials[t] + 1 < MAXFAILURES THEN FastLoop(t) ELSE "announce"
  <1>1. frame' \in [Thread -> Frame] /\ frame'[t] = Blank
    BY FrameUpdates DEF Again, Forget, TypeOK
  <1>2. HelpLoop(t) \in PcLabels /\ FastLoop(t) \in PcLabels /\ "announce" \in PcLabels
    BY DEF HelpLoop, FastLoop, PcLabels
  <1>3. trials \in [Thread -> 0 .. MAXFAILURES - 1] /\ trials[t] \in 0 .. MAXFAILURES - 1
    BY DEF TypeOK
  <1>4. CASE role[t] # "fast"
    BY <1>1, <1>2, <1>3, <1>4, GotoTypes DEF Again
  <1>5. CASE role[t] = "fast" /\ trials[t] + 1 < MAXFAILURES
    <2>1. trials' = [trials EXCEPT ![t] = trials[t] + 1] /\ trials[t] + 1 \in 0 .. MAXFAILURES - 1
      BY <1>3, <1>5, Bounds DEF Again
    <2>2. trials' \in [Thread -> 0 .. MAXFAILURES - 1]
      BY <1>3, <2>1
    <2>3. QED
      BY <1>1, <1>2, <1>5, <2>2, GotoTypes DEF Again
  <1>6. CASE role[t] = "fast" /\ ~(trials[t] + 1 < MAXFAILURES)
    <2>1. trials' = [trials EXCEPT ![t] = 0] /\ 0 \in 0 .. MAXFAILURES - 1
      BY <1>6, Bounds DEF Again
    <2>2. trials' \in [Thread -> 0 .. MAXFAILURES - 1]
      BY <1>3, <2>1
    <2>3. QED
      BY <1>1, <1>2, <1>6, <2>2, GotoTypes DEF Again
  <1>7. QED
    BY <1>4, <1>5, <1>6

-----------------------------------------------------------------------------
(* A step inside a loop.                                                   *)

WorkPc == EnqPc \cup DeqPc \cup FinPc \cup PollPc \cup {"fixTail", "announce"}
          \cup {"addTail", "addNext", "addCheck", "addCas"}

\* Where a thread may go on: in the code of its role and of the call it serves.
Allowed(t, l) ==
    /\ l \in WorkPc \cup {"return", "addSwing", "resetTid"}
    /\ l \in EnqPc => role[t] # "fast" /\ kind[target[t]] = "add"
    /\ l \in DeqPc => role[t] # "fast" /\ kind[target[t]] = "poll"
    /\ l \in AddPc => role[t] = "fast" /\ Adding(t)
    /\ l \in PollPc => role[t] = "fast" /\ ~Adding(t)
    /\ l \in {"announce", "fixTail"} => role[t] = "fast"
    /\ l = "resetTid" => role[t] = "help"
    /\ l = "return" => role[t] # "help"

\* The invariant after a step of t, from its parts.
LEMMA Combine ==
    ASSUME IInv, NEW t \in Thread, TypeOK', SharedInv', Evolves(t),
           \A u \in Thread \ {t} : Aside(u),
           RoleInv(t)', RecordInv(t)', CallInv(t)', FrameInv(t)'
    PROVE  IInv'
  <1>1. ASSUME NEW u \in Thread
        PROVE  RoleInv(u)' /\ RecordInv(u)' /\ CallInv(u)' /\ FrameInv(u)'
    <2>1. CASE u = t
      BY <2>1
    <2>2. CASE u # t
      BY <2>2, OtherStep
    <2>3. QED
      BY <2>1, <2>2
  <1>2. QED
    BY <1>1 DEF IInv

LEMMA WorkStep ==
    ASSUME IInv, NEW t \in Thread, TypeOK', SharedInv', Evolves(t), pc[t] \in WorkPc,
           UNCHANGED <<state, tids, curTid, willHelp, nextCheck, kind, calls, role, target>>,
           \A u \in Thread \ {t} : pc'[u] = pc[u] /\ frame'[u] = frame[u],
           Allowed(t, pc'[t]), pc'[t] # "addSwing",
           pc'[t] = "return" \/ (Undone(Current(t)) => Undone(Current(t))'),
           FrameInv(t)'
    PROVE  IInv'
  <1>1. TypeOK /\ RoleInv(t) /\ RecordInv(t) /\ CallInv(t)
    BY DEF IInv
  <1>2. \A u \in Thread \ {t} : Aside(u)
    BY DEF Aside
  <1>3. Current(t)' = Current(t) /\ Adding(t)' = Adding(t)
    BY DEF Current, Adding
  <1>4. role[t] \in {"help", "fast", "self"}
    BY <1>1 DEF RoleInv, TypeOK, WorkPc, EnqPc, DeqPc, FinPc, PollPc
  <1>5. pc'[t] \in WorkPc \cup {"return", "resetTid"}
    BY DEF Allowed
  <1>6. RoleInv(t)'
    BY <1>3, <1>4, <1>5 DEF RoleInv, Allowed, WorkPc, EnqPc, DeqPc, FinPc, PollPc, AddPc
  <1>7. RecordInv(t)'
    <2>1. state[t] \in Op \cup {NoOp} /\ willHelp[t] \in Op \cup {NoOp}
      BY <1>1 DEF TypeOK
    <2>2. \A o \in Op : desc[o] # NoOp => desc'[o] # NoOp
      BY DEF Evolves, DescMoves
    <2>3. pc[t] \notin {"idle", "register", "resetTid"} /\ pc'[t] \notin {"register", "help", "idle"}
      BY <1>5 DEF WorkPc, EnqPc, DeqPc, FinPc, PollPc, AddPc
    <2>4. QED
      BY <1>1, <2>1, <2>2, <2>3 DEF RecordInv
  <1>8. CallInv(t)'
    <2>1. pc[t] \notin {"idle", "return", "addSwing"} /\ pc'[t] # "idle"
      BY <1>5 DEF WorkPc, EnqPc, DeqPc, FinPc, PollPc, AddPc
    <2>2. Current(t) \in Op /\ target[t] \in Op \cup {NoOp}
      BY <1>1, <2>1, CurrentOp DEF CallInv, TypeOK
    <2>3. \A o \in Op : desc[o] # NoOp => desc'[o] # NoOp
      BY DEF Evolves, DescMoves
    <2>4. role[t] \in {"help", "self"} => target[t] # NoOp /\ desc[target[t]] # NoOp
      <3>1. role[t] \in {"help", "self"} => pc[t] \in EnqPc \cup DeqPc \cup FinPc
        BY <1>1, <2>1 DEF RoleInv, WorkPc, EnqPc, DeqPc, FinPc, PollPc, AddPc
      <3>2. QED
        BY <1>1, <3>1 DEF CallInv
    <2>5. role[t] # "self" /\ pc'[t] # "return" => Undone(Current(t))'
      BY <1>1, <2>1 DEF CallInv
    <2>6. role[t] = "self" => target[t] = Current(t) /\ desc'[Current(t)] # NoOp
      BY <1>1, <2>2, <2>3 DEF CallInv
    <2>7. /\ calls'[t] \in 0 .. MaxCalls[t] /\ calls'[t] # 0
      BY <1>1, <2>1 DEF CallInv
    <2>8. /\ pc'[t] \in EnqPc => kind'[target'[t]] = "add"
          /\ pc'[t] \in DeqPc => kind'[target'[t]] = "poll"
      BY DEF Allowed
    <2>9. role[t] \in {"help", "self"} => target'[t] # NoOp /\ desc'[target'[t]] # NoOp
      BY <2>2, <2>3, <2>4
    <2>10. QED
      BY <1>3, <2>1, <2>5, <2>6, <2>7, <2>8, <2>9 DEF CallInv
  <1>9. QED
    BY <1>2, <1>6, <1>7, <1>8, Combine

\* A round is over.
LEMMA AgainStep ==
    ASSUME IInv, NEW t \in Thread, TypeOK', SharedInv', Evolves(t), pc[t] \in WorkPc,
           pc[t] # "announce", Again(t),
           UNCHANGED <<state, tids, curTid, willHelp, nextCheck, kind, calls, role, target>>,
           Undone(Current(t)) => Undone(Current(t))'
    PROVE  IInv'
  <1>1. TypeOK /\ RoleInv(t) /\ CallInv(t)
    BY DEF IInv
  <1>2. /\ pc'[t] = IF role[t] # "fast" THEN HelpLoop(t)
                    ELSE IF trials[t] + 1 < MAXFAILURES THEN FastLoop(t) ELSE "announce"
        /\ \A u \in Thread \ {t} : pc'[u] = pc[u] /\ frame'[u] = frame[u]
    BY <1>1, AgainTypes DEF Again, Forget, Goto, TypeOK
  <1>3. role[t] \in {"help", "fast", "self"}
    BY <1>1 DEF RoleInv, TypeOK, WorkPc, EnqPc, DeqPc, FinPc, PollPc
  <1>4. role[t] # "fast" => target[t] \in Op
    <2>1. role[t] # "fast" => pc[t] \in EnqPc \cup DeqPc \cup FinPc
      BY <1>1, <1>3 DEF RoleInv, WorkPc, EnqPc, DeqPc, FinPc, PollPc, AddPc
    <2>2. QED
      BY <1>1, <1>3, <2>1 DEF CallInv, TypeOK
  <1>5. /\ role[t] # "fast" => pc'[t] = IF kind[target[t]] = "add" THEN "enqPending" ELSE "deqPNode"
        /\ role[t] = "fast" => pc'[t] = "announce" \/ pc'[t] = IF Adding(t) THEN "addTail" ELSE "pollHead"
    BY <1>2 DEF HelpLoop, FastLoop
  <1>6. Allowed(t, pc'[t])
    <2>1. role[t] # "fast" => kind[target[t]] \in {"add", "poll"}
      BY <1>1, <1>4 DEF TypeOK
    <2>2. QED
      BY <1>3, <1>5, <2>1 DEF Allowed, WorkPc, EnqPc, DeqPc, FinPc, PollPc, AddPc
  <1>7. pc'[t] \in {"enqPending", "deqPNode", "addTail", "pollHead", "announce"}
    BY <1>3, <1>5
  <1>8. FrameInv(t)'
    BY <1>7 DEF FrameInv, TailInv, HeadInv, PNodeInv, TailRead, HeadRead, PNodeRead, DeqPc
  <1>9. QED
    BY <1>2, <1>6, <1>7, <1>8, WorkStep

\* A step that leaves the shared fields alone.
LEMMA QuietWork ==
    ASSUME IInv, NEW t \in Thread, TypeOK', Watch,
           UNCHANGED <<next, head, tail, desc, kind, calls, result>>
    PROVE  /\ SharedInv' /\ Evolves(t) /\ place' = place
           /\ Undone(Current(t)) => Undone(Current(t))'
  <1>1. SharedInv' /\ Evolves(t) /\ place' = place
    BY QuietStep, SamePlaces DEF IInv, SharedInv
  <1>2. Undone(Current(t)) => Undone(Current(t))'
    BY <1>1 DEF Undone, Current
  <1>3. QED
    BY <1>1, <1>2

\* What is known at a label of the tail's code, and of the head's code.
LEMMA TailFrame ==
    ASSUME NEW t \in Thread, TailInv(t)',
           pc'[t] \in {"addNext", "addCheck", "addCas", "addSwing", "fixTail", "enqNext", "enqCheck",
                       "enqStill", "enqCas", "finNext", "finCheck", "finPending", "finCas"}
    PROVE  FrameInv(t)'
  BY DEF FrameInv, HeadInv, PNodeInv, HeadRead, PNodeRead, DeqPc

LEMMA HeadFrame ==
    ASSUME NEW t \in Thread, HeadInv(t)',
           pc'[t] \in {"pollTail", "pollCas", "finHeadNext", "finRead", "finDone", "finDeq"}
    PROVE  FrameInv(t)'
  BY DEF FrameInv, TailInv, PNodeInv, TailRead, PNodeRead, DeqPc

LEMMA NoFrame ==
    ASSUME NEW t \in Thread,
           pc'[t] \in {"enqPending", "enqTail", "finTail", "pollHead", "deqPNode", "finHead",
                       "addTail", "announce", "return", "resetTid", "idle", "register", "help",
                       "resetPhase"}
    PROVE  FrameInv(t)'
  BY DEF FrameInv, TailInv, HeadInv, PNodeInv, TailRead, HeadRead, PNodeRead, DeqPc

\* The invariant, as a step of one thread uses it.
LEMMA Parts ==
    ASSUME IInv, NEW t \in Thread
    PROVE  /\ TypeOK /\ SharedInv /\ ListInv /\ EndsInv /\ DescInv /\ Claimed
           /\ RoleInv(t) /\ RecordInv(t) /\ CallInv(t) /\ FrameInv(t)
           /\ TailInv(t) /\ HeadInv(t) /\ PNodeInv(t)
           /\ head.node \in Node /\ tail \in Node /\ Listed(head.node) /\ Listed(tail)
  BY SharedTypes DEF IInv, SharedInv, FrameInv, EndsInv

\* A step that only changes the locals of its round.
LEMMA LocalStep ==
    ASSUME IInv, Watch, NEW t \in Thread, NEW l, NEW f \in Frame,
           UNCHANGED <<shared, record, history, control>>,
           Goto(t, l), frame' = [frame EXCEPT ![t] = f],
           pc[t] \in WorkPc, Allowed(t, l), l # "addSwing",
           place' = place /\ pc'[t] = l /\ frame'[t] = f => FrameInv(t)'
    PROVE  IInv'
  <1>1. UNCHANGED <<next, head, tail, state, desc, tids, curTid, willHelp, nextCheck,
                    kind, calls, result, role, target, trials>>
    BY DEF shared, record, history, control
  <1>2. TypeOK /\ l \in PcLabels
    BY Parts DEF Allowed, WorkPc, EnqPc, DeqPc, FinPc, PollPc, PcLabels
  <1>3. pc' \in [Thread -> PcLabels] /\ pc'[t] = l
    BY <1>2, GotoTypes
  <1>4. frame' \in [Thread -> Frame] /\ frame'[t] = f
    BY <1>2 DEF TypeOK
  <1>5. TypeOK'
    BY <1>1, <1>2, <1>3, <1>4, LocalTypes DEF TypeOK
  <1>6. \A u \in Thread \ {t} : pc'[u] = pc[u] /\ frame'[u] = frame[u]
    BY <1>2 DEF Goto, TypeOK
  <1>7. /\ SharedInv' /\ Evolves(t) /\ place' = place
        /\ Undone(Current(t)) => Undone(Current(t))'
    BY <1>1, <1>5, QuietWork
  <1>8. QED
    BY <1>1, <1>3, <1>4, <1>5, <1>6, <1>7, WorkStep

\* A round that changed nothing is over.
LEMMA QuietAgain ==
    ASSUME IInv, Watch, NEW t \in Thread, pc[t] \in WorkPc, pc[t] # "announce", Again(t),
           UNCHANGED <<shared, record, history, role, target>>
    PROVE  IInv'
  <1>1. UNCHANGED <<next, head, tail, state, desc, tids, curTid, willHelp, nextCheck,
                    kind, calls, result, role, target>>
    BY DEF shared, record, history
  <1>2. TypeOK
    BY Parts
  <1>3. TypeOK'
    BY <1>1, <1>2, AgainTypes, LocalTypes DEF TypeOK
  <1>4. /\ SharedInv' /\ Evolves(t)
        /\ Undone(Current(t)) => Undone(Current(t))'
    BY <1>1, <1>3, QuietWork
  <1>5. QED
    BY <1>1, <1>3, <1>4, AgainStep

\* A helper is done with the descriptor.
LEMMA HelpedAllowed ==
    ASSUME IInv, NEW t \in Thread, pc[t] \in EnqPc \cup DeqPc \cup FinPc
    PROVE  Helped(t) \in {"resetTid", "return"} /\ Allowed(t, Helped(t)) /\ pc[t] \in WorkPc
  BY DEF Helped, Allowed, WorkPc, EnqPc, DeqPc, FinPc, PollPc, AddPc

LEMMA QuietHelped ==
    ASSUME IInv, Watch, NEW t \in Thread, pc[t] \in EnqPc \cup DeqPc \cup FinPc,
           Goto(t, Helped(t)), UNCHANGED frame \/ Forget(t),
           UNCHANGED <<shared, record, history, control>>
    PROVE  IInv'
  <1>1. Helped(t) \in {"resetTid", "return"} /\ Allowed(t, Helped(t)) /\ pc[t] \in WorkPc
    BY HelpedAllowed
  <1>2. PICK f \in Frame : frame' = [frame EXCEPT ![t] = f]
    <2>1. TypeOK /\ frame[t] \in Frame /\ Blank \in Frame
      <3>1. TypeOK /\ frame[t] \in Frame
        BY Parts, FrameTypes
      <3>2. Blank \in Frame
        BY Nulls DEF Blank, Frame, NodeHead, PNode
      <3>3. QED
        BY <3>1, <3>2
    <2>2. QED
      BY <2>1 DEF Forget, TypeOK
  <1>3. ASSUME pc'[t] = Helped(t)
        PROVE  FrameInv(t)'
    BY <1>1, <1>3, NoFrame
  <1>4. Helped(t) # "addSwing"
    BY <1>1
  <1>5. QED
    BY <1>1, <1>2, <1>3, <1>4, LocalStep

-----------------------------------------------------------------------------
(* add and helpEnq                                                         *)

\* The tail is read.
LEMMA TailReads ==
    ASSUME IInv, Watch, NEW t \in Thread, AddTail(t) \/ EnqTail(t) \/ FinTail(t)
    PROVE  IInv'
  <1> DEFINE f == [frame[t] EXCEPT !.last = tail]
             l == IF pc[t] = "addTail" THEN "addNext"
                  ELSE IF pc[t] = "enqTail" THEN "enqNext" ELSE "finNext"
  <1>1. /\ TypeOK /\ tail \in Node /\ Listed(tail) /\ RoleInv(t) /\ CallInv(t)
        /\ frame[t] \in Frame /\ pos(tail) \in Nat
    BY Parts, FrameTypes, Places
  <1>2. f \in Frame /\ f.last = tail
    BY <1>1 DEF Frame
  <1>3. /\ pc[t] \in {"addTail", "enqTail", "finTail"} /\ Goto(t, l)
        /\ frame' = [frame EXCEPT ![t] = f] /\ UNCHANGED <<shared, record, history, control>>
    BY DEF AddTail, EnqTail, FinTail
  <1>4. Allowed(t, l) /\ pc[t] \in WorkPc /\ l # "addSwing"
    <2>1. role[t] \in {"help", "fast", "self", "new"}
      BY <1>1 DEF TypeOK
    <2>2. QED
      BY <1>1, <1>3, <2>1 DEF RoleInv, CallInv, Allowed, WorkPc, EnqPc, DeqPc, FinPc, PollPc, AddPc
  <1>5. ASSUME place' = place, pc'[t] = l, frame'[t] = f
        PROVE  FrameInv(t)'
    <2>1. l \in {"addNext", "enqNext", "finNext"} /\ tail' = tail
      BY <1>3 DEF shared
    <2>2. TailInv(t)'
      BY <1>1, <1>2, <1>5, <2>1 DEF TailInv, TailRead, pos, Listed
    <2>3. QED
      BY <1>5, <2>1, <2>2, TailFrame
  <1>6. QED
    BY <1>2, <1>3, <1>4, <1>5, LocalStep

\* The next field of the node read as tail is read.
LEMMA NextReads ==
    ASSUME IInv, Watch, NEW t \in Thread, AddNext(t) \/ EnqNext(t)
    PROVE  IInv'
  <1> DEFINE n == next[frame[t].last]
             f == [frame[t] EXCEPT !.next = n]
             l == IF pc[t] = "addNext" THEN "addCheck" ELSE "enqCheck"
  <1>1. TypeOK /\ RoleInv(t) /\ CallInv(t) /\ TailInv(t) /\ frame[t] \in Frame /\ frame[t].last \in Node
    BY Parts, FrameTypes
  <1>2. n \in Op \cup {NoNode} /\ n \in Node \cup {NoNode}
    BY <1>1, SharedTypes, Nulls
  <1>3. f \in Frame /\ f.last = frame[t].last /\ f.next = n
    BY <1>1, <1>2 DEF Frame
  <1>4. /\ pc[t] \in {"addNext", "enqNext"} /\ Goto(t, l)
        /\ frame' = [frame EXCEPT ![t] = f] /\ UNCHANGED <<shared, record, history, control>>
    BY DEF AddNext, EnqNext
  <1>5. Allowed(t, l) /\ pc[t] \in WorkPc /\ l # "addSwing"
    <2>1. role[t] \in {"help", "fast", "self", "new"}
      BY <1>1 DEF TypeOK
    <2>2. QED
      BY <1>1, <1>4, <2>1 DEF RoleInv, CallInv, Allowed, WorkPc, EnqPc, DeqPc, FinPc, PollPc, AddPc
  <1>6. ASSUME place' = place, pc'[t] = l, frame'[t] = f
        PROVE  FrameInv(t)'
    <2>1. l \in {"addCheck", "enqCheck"} /\ tail' = tail /\ next' = next
      BY <1>4 DEF shared
    <2>2. Listed(frame[t].last) /\ pos(frame[t].last) <= pos(tail)
      BY <1>1, <1>4 DEF TailInv, TailRead
    <2>3. TailInv(t)'
      BY <1>3, <1>6, <2>1, <2>2 DEF TailInv, TailRead, pos, Listed
    <2>4. QED
      BY <1>6, <2>1, <2>3, TailFrame
  <1>7. QED
    BY <1>3, <1>4, <1>5, <1>6, LocalStep

\* "last" is compared with the tail.
LEMMA TailChecks ==
    ASSUME IInv, Watch, NEW t \in Thread, AddCheck(t) \/ EnqCheck(t)
    PROVE  IInv'
  <1>1. /\ TypeOK /\ RoleInv(t) /\ CallInv(t) /\ TailInv(t) /\ frame[t] \in Frame
        /\ frame[t].last \in Node /\ frame[t].next \in Node \cup {NoNode}
    BY Parts, FrameTypes
  <1>2. pc[t] \in {"addCheck", "enqCheck"} /\ pc[t] \in WorkPc /\ pc[t] # "announce"
    BY DEF AddCheck, EnqCheck, WorkPc, EnqPc
  <1>3. CASE frame[t].last # tail
    <2>1. Again(t) /\ UNCHANGED <<shared, record, history, role, target>>
      BY <1>3 DEF AddCheck, EnqCheck
    <2>2. QED
      BY <1>2, <2>1, QuietAgain
  <1>4. CASE frame[t].last = tail
    <2> DEFINE l == IF pc[t] = "addCheck"
                       THEN IF frame[t].next = NoNode THEN "addCas"
                            ELSE IF desc[frame[t].next] = NoOp THEN "fixTail" ELSE "finTail"
                       ELSE IF frame[t].next = NoNode THEN "enqStill" ELSE "finTail"
    <2>1. /\ Goto(t, l) /\ UNCHANGED <<shared, record, history, control>> /\ frame' = frame
      BY <1>4 DEF AddCheck, EnqCheck, FixTail, control
    <2>2. frame' = [frame EXCEPT ![t] = frame[t]]
      BY <1>1, <2>1 DEF TypeOK
    <2>3. l \in {"addCas", "fixTail", "finTail", "enqStill"}
      OBVIOUS
    <2>4. Allowed(t, l) /\ l # "addSwing"
      <3>1. role[t] \in {"help", "fast", "self", "new"}
        BY <1>1 DEF TypeOK
      <3>2. QED
        BY <1>1, <1>2, <3>1 DEF RoleInv, CallInv, Allowed, WorkPc, EnqPc, DeqPc, FinPc, PollPc, AddPc
    <2>5. ASSUME place' = place, pc'[t] = l, frame'[t] = frame[t]
          PROVE  FrameInv(t)'
      <3>1. tail' = tail /\ next' = next /\ desc' = desc
        BY <2>1 DEF shared
      <3>2. /\ Listed(frame[t].last) /\ pos(frame[t].last) <= pos(tail)
            /\ frame[t].next = NoNode \/ next[frame[t].last] = frame[t].next
        BY <1>1, <1>2 DEF TailInv, TailRead
      <3>3. TailInv(t)'
        BY <2>3, <2>5, <3>1, <3>2 DEF TailInv, TailRead, pos, Listed
      <3>4. CASE l = "finTail"
        BY <2>5, <3>4, NoFrame
      <3>5. CASE l # "finTail"
        BY <2>3, <2>5, <3>3, <3>5, TailFrame
      <3>6. QED
        BY <3>4, <3>5
    <2>6. QED
      BY <1>1, <1>2, <2>1, <2>2, <2>4, <2>5, LocalStep
  <1>5. QED
    BY <1>3, <1>4

\* pending is read.
LEMMA PendingReads ==
    ASSUME IInv, Watch, NEW t \in Thread, EnqPending(t) \/ EnqStill(t)
    PROVE  IInv'
  <1>1. /\ TypeOK /\ RoleInv(t) /\ CallInv(t) /\ TailInv(t) /\ frame[t] \in Frame
        /\ ListInv /\ DescInv /\ tail \in Node /\ Listed(tail)
        /\ frame[t].last \in Node /\ frame[t].next \in Node \cup {NoNode}
    BY Parts, FrameTypes
  <1>2. pc[t] \in {"enqPending", "enqStill"} /\ pc[t] \in WorkPc /\ pc[t] \in EnqPc /\ pc[t] # "announce"
    BY DEF EnqPending, EnqStill, WorkPc, EnqPc
  <1>3. /\ role[t] # "fast" /\ target[t] \in Op /\ desc[target[t]] # NoOp /\ kind[target[t]] = "add"
    <2>1. role[t] \in {"help", "self"}
      BY <1>1, <1>2 DEF RoleInv, EnqPc, DeqPc, FinPc, PollPc, AddPc, TypeOK
    <2>2. QED
      BY <1>1, <1>2, <2>1 DEF CallInv, TypeOK
  <1>4. CASE desc[target[t]].pending # 1
    <2>1. CASE pc[t] = "enqStill"
      <3>1. Again(t) /\ UNCHANGED <<shared, record, history, role, target>>
        BY <1>4, <2>1 DEF EnqPending, EnqStill
      <3>2. QED
        BY <1>2, <3>1, QuietAgain
    <2>2. CASE pc[t] = "enqPending"
      <3>1. Goto(t, Helped(t)) /\ UNCHANGED <<shared, record, history, control>> /\ UNCHANGED frame
        BY <1>4, <2>2 DEF EnqPending, EnqStill
      <3>2. QED
        BY <1>2, <3>1, QuietHelped
    <2>3. QED
      BY <1>2, <2>1, <2>2
  <1>5. CASE desc[target[t]].pending = 1
    <2> DEFINE l == IF pc[t] = "enqPending" THEN "enqTail" ELSE "enqCas"
    <2>1. Goto(t, l) /\ UNCHANGED <<shared, record, history, control>> /\ frame' = frame
      BY <1>5 DEF EnqPending, EnqStill, control
    <2>2. frame' = [frame EXCEPT ![t] = frame[t]]
      BY <1>1, <2>1 DEF TypeOK
    <2>3. Allowed(t, l) /\ l # "addSwing" /\ l \in {"enqTail", "enqCas"}
      BY <1>3 DEF Allowed, WorkPc, EnqPc, DeqPc, FinPc, PollPc, AddPc
    <2>4. ASSUME place' = place, pc'[t] = l, frame'[t] = frame[t]
          PROVE  FrameInv(t)'
      <3>1. tail' = tail /\ next' = next /\ desc' = desc /\ target' = target
        BY <2>1 DEF shared, control
      <3>2. CASE l = "enqTail"
        BY <2>4, <3>2, NoFrame
      <3>3. CASE l = "enqCas"
        <4>1. Listed(frame[t].last) /\ pos(frame[t].last) <= pos(tail)
          BY <1>1, <1>2, <3>3 DEF TailInv, TailRead
        <4>2. place[target[t]] = 0 \/ next[frame[t].last] # NoNode
          <5>1. place[target[t]] # 0 => next[tail] = target[t]
            BY <1>1, <1>3, <1>5 DEF DescInv, EnqInv
          <5>2. place[target[t]] # 0 => pos(tail) < back /\ pos(tail) \in Nat /\ back \in Nat
                                        /\ pos(frame[t].last) \in Nat
            BY <1>1, <1>3, <5>1, Places, Nulls
          <5>3. place[target[t]] # 0 => pos(frame[t].last) < back
            BY <4>1, <5>2
          <5>4. QED
            BY <1>1, <4>1, <5>3, Places
        <4>3. TailInv(t)'
          BY <2>4, <3>1, <3>3, <4>1, <4>2 DEF TailInv, TailRead, pos, Listed
        <4>4. QED
          BY <2>4, <3>3, <4>3, TailFrame
      <3>4. QED
        BY <2>3, <3>2, <3>3
    <2>5. QED
      BY <1>1, <1>2, <2>1, <2>2, <2>3, <2>4, LocalStep
  <1>6. QED
    BY <1>4, <1>5

\* A node of the fast path is linked, or the round is lost.
LEMMA AddCasStep ==
    ASSUME IInv, Watch, NEW t \in Thread, AddCas(t)
    PROVE  IInv'
  <1> DEFINE n == frame[t].last
             o == Current(t)
  <1>1. /\ TypeOK /\ SharedInv /\ DescInv /\ RoleInv(t) /\ RecordInv(t) /\ CallInv(t) /\ TailInv(t)
        /\ n \in Node /\ pc[t] = "addCas" /\ pc[t] \in WorkPc /\ pc[t] # "announce"
    BY Parts, FrameTypes DEF AddCas, WorkPc
  <1>2. CASE next[n] # NoNode
    <2>1. Again(t) /\ UNCHANGED <<shared, record, history, role, target>>
      BY <1>2 DEF AddCas, CasNext, shared
    <2>2. QED
      BY <1>1, <2>1, QuietAgain
  <1>3. CASE next[n] = NoNode
    <2>1. /\ next' = [next EXCEPT ![n] = o] /\ Goto(t, "addSwing")
          /\ UNCHANGED <<head, tail, state, desc, tids, curTid, willHelp, nextCheck,
                         kind, calls, result, role, target, trials, frame>>
      BY <1>3 DEF AddCas, CasNext, record, history
    <2>2. o \in Op /\ Undone(o) /\ o[1] = t /\ o[2] = calls[t] /\ calls[t] \in Nat
          /\ Listed(n) /\ pos(n) <= pos(tail)
      <3>1. role[t] = "fast"
        BY <1>1 DEF RoleInv, TypeOK, AddPc, EnqPc, DeqPc, FinPc
      <3>2. QED
        BY <1>1, <3>1, CurrentOp DEF CallInv, TypeOK, TailInv, TailRead, Current
    <2>3. kind[o] = "add"
      BY <1>1 DEF RoleInv, AddPc, Adding
    <2>4. pc' \in [Thread -> PcLabels] /\ pc'[t] = "addSwing"
          /\ \A u \in Thread \ {t} : pc'[u] = pc[u]
      BY <1>1, <2>1 DEF Goto, TypeOK, PcLabels
    <2>5. TypeOK'
      <3>1. next' \in [Node -> Op \cup {NoNode}]
        BY <1>1, <2>1, <2>2 DEF TypeOK
      <3>2. QED
        BY <1>1, <2>1, <2>4, <3>1 DEF TypeOK
    <2>6. SharedInv' /\ Evolves(t)
      <3>1. place[o] = 0 /\ desc[o] = NoOp
        BY <2>2 DEF Undone
      <3>2. o[2] <= calls[o[1]]
        BY <2>2
      <3>3. QED
        BY <1>1, <1>3, <2>1, <2>2, <2>3, <2>5, <3>1, <3>2, LinkStep
    <2>7. \A u \in Thread \ {t} : Aside(u)
      BY <2>1, <2>4 DEF Aside
    <2>8. RoleInv(t)' /\ RecordInv(t)'
      <3>1. RoleInv(t)'
        BY <1>1, <2>1, <2>4 DEF RoleInv, Adding, Current, AddPc, PollPc, EnqPc, DeqPc, FinPc, TypeOK
      <3>2. RecordInv(t)'
        BY <1>1, <2>1, <2>4 DEF RecordInv
      <3>3. QED
        BY <3>1, <3>2
    <2>9. CallInv(t)'
      <3>1. next'[n] = o /\ desc[o] = NoOp
        BY <1>1, <2>1, <2>2 DEF TypeOK, Undone
      <3>2. role[t] = "fast"
        BY <1>1 DEF RoleInv, TypeOK, AddPc, EnqPc, DeqPc, FinPc
      <3>3. QED
        BY <1>1, <2>1, <2>4, <3>1, <3>2 DEF CallInv, Current, EnqPc, DeqPc
    <2>10. FrameInv(t)'
      <3>1. Listed(n)' /\ pos(n)' <= pos(tail)'
        <4>1. Listed(n)' /\ pos(n)' = pos(n)
          BY <1>1, <2>1, <2>2, <2>6 DEF Evolves, Listed, pos
        <4>2. pos(n) \in Nat /\ pos(tail) \in Nat /\ pos(tail)' = pos(tail)
          <5>1. tail \in Node /\ Listed(tail) /\ ListInv
            BY Parts
          <5>2. pos(tail)' = pos(tail)
            BY <2>1, <2>6, <5>1 DEF Evolves, pos
          <5>3. QED
            BY <1>1, <5>1, <5>2, Places
        <4>3. QED
          BY <2>2, <4>1, <4>2
      <3>2. TailInv(t)'
        BY <2>1, <2>4, <3>1 DEF TailInv, Listed, pos
      <3>3. QED
        BY <2>4, <3>2, TailFrame
    <2>11. QED
      BY <2>5, <2>6, <2>7, <2>8, <2>9, <2>10, Combine
  <1>4. QED
    BY <1>2, <1>3

\* The tail is swung to the node that was just linked.
LEMMA AddSwingStep ==
    ASSUME IInv, Watch, NEW t \in Thread, AddSwing(t)
    PROVE  IInv'
  <1> DEFINE n == frame[t].last
             o == Current(t)
  <1>1. /\ TypeOK /\ SharedInv /\ RoleInv(t) /\ RecordInv(t) /\ CallInv(t)
        /\ n \in Node /\ pc[t] = "addSwing" /\ o \in Op /\ role[t] = "fast"
    <2>1. /\ TypeOK /\ SharedInv /\ RoleInv(t) /\ RecordInv(t) /\ CallInv(t)
          /\ n \in Node /\ pc[t] = "addSwing"
      BY Parts, FrameTypes DEF AddSwing
    <2>2. QED
      BY <2>1, CurrentOp DEF RoleInv, CallInv, TypeOK, AddPc, EnqPc, DeqPc, FinPc
  <1>2. /\ tail' = IF tail = n THEN o ELSE tail
        /\ Goto(t, "return")
        /\ UNCHANGED <<next, head, state, desc, tids, curTid, willHelp, nextCheck,
                       kind, calls, result, role, target, trials, frame>>
    BY DEF AddSwing, CasTail, record, history, control
  <1>3. pc' \in [Thread -> PcLabels] /\ pc'[t] = "return"
        /\ \A u \in Thread \ {t} : pc'[u] = pc[u]
    BY <1>1, <1>2 DEF Goto, TypeOK, PcLabels
  <1>4. TypeOK'
    <2>1. tail' \in Node
      BY <1>1, <1>2, Nulls DEF TypeOK
    <2>2. QED
      BY <1>1, <1>2, <1>3, <2>1 DEF TypeOK
  <1>5. SharedInv' /\ Evolves(t)
    <2>1. next[n] = o /\ desc[o] = NoOp
      BY <1>1 DEF CallInv
    <2>2. QED
      BY <1>1, <1>2, <1>4, <2>1, TailStep
  <1>6. \A u \in Thread \ {t} : Aside(u)
    BY <1>2, <1>3 DEF Aside
  <1>7. RoleInv(t)'
    BY <1>1, <1>2, <1>3 DEF RoleInv, AddPc, PollPc
  <1>8. RecordInv(t)'
    BY <1>1, <1>2, <1>3 DEF RecordInv
  <1>9. CallInv(t)'
    BY <1>1, <1>2, <1>3 DEF CallInv, EnqPc, DeqPc
  <1>10. FrameInv(t)'
    BY <1>3, NoFrame
  <1>11. QED
    BY <1>4, <1>5, <1>6, <1>7, <1>8, <1>9, <1>10, Combine

\* A helper links the node of its descriptor, or the round is lost.
LEMMA EnqCasStep ==
    ASSUME IInv, Watch, NEW t \in Thread, EnqCas(t)
    PROVE  IInv'
  <1> DEFINE n == frame[t].last
             o == target[t]
  <1>1. /\ TypeOK /\ SharedInv /\ DescInv /\ RoleInv(t) /\ CallInv(t) /\ TailInv(t)
        /\ n \in Node /\ pc[t] = "enqCas" /\ pc[t] \in WorkPc /\ pc[t] \in EnqPc /\ pc[t] # "announce"
    BY Parts, FrameTypes DEF EnqCas, WorkPc, EnqPc
  <1>2. CASE next[n] # NoNode
    <2>1. Again(t) /\ UNCHANGED <<shared, record, history, role, target>>
      BY <1>2 DEF EnqCas, CasNext, shared
    <2>2. QED
      BY <1>1, <2>1, QuietAgain
  <1>3. CASE next[n] = NoNode
    <2>1. /\ next' = [next EXCEPT ![n] = o] /\ Goto(t, "finTail")
          /\ frame' = [frame EXCEPT ![t].done = TRUE]
          /\ UNCHANGED <<head, tail, state, desc, tids, curTid, willHelp, nextCheck,
                         kind, calls, result, role, target, trials>>
      BY <1>3 DEF EnqCas, CasNext, record, history
    <2>2. o \in Op /\ desc[o] # NoOp /\ kind[o] = "add" /\ role[t] # "fast"
      <3>1. role[t] \in {"help", "self"}
        BY <1>1 DEF RoleInv, EnqPc, DeqPc, FinPc, PollPc, AddPc, TypeOK
      <3>2. QED
        BY <1>1, <3>1 DEF CallInv, TypeOK
    <2>3. place[o] = 0 /\ Listed(n) /\ pos(n) <= pos(tail)
      BY <1>1, <1>3 DEF TailInv, TailRead
    <2>4. desc[o].pending = 1 /\ o[2] <= calls[o[1]]
      BY <1>1, <2>2, <2>3, SharedTypes DEF DescInv, EnqInv, Undone
    <2>5. pc' \in [Thread -> PcLabels] /\ pc'[t] = "finTail"
          /\ \A u \in Thread \ {t} : pc'[u] = pc[u] /\ frame'[u] = frame[u]
      BY <1>1, <2>1 DEF Goto, TypeOK, PcLabels
    <2>6. TypeOK'
      <3>1. next' \in [Node -> Op \cup {NoNode}]
        BY <1>1, <2>1, <2>2 DEF TypeOK
      <3>2. frame' \in [Thread -> Frame]
        BY <1>1, <2>1, FrameUpdates
      <3>3. QED
        BY <1>1, <2>1, <2>5, <3>1, <3>2 DEF TypeOK
    <2>7. SharedInv' /\ Evolves(t) /\ place' = [place EXCEPT ![o] = back + 1]
      <3>1. ~Undone(o)
        BY <2>2 DEF Undone
      <3>2. QED
        BY <1>1, <1>3, <2>1, <2>2, <2>3, <2>4, <2>6, <3>1, LinkStep
    <2>8. Undone(Current(t)) => Undone(Current(t))'
      <3>1. Undone(Current(t)) => Current(t) # o
        BY <2>2 DEF Undone
      <3>2. Current(t) # o => place'[Current(t)] = place[Current(t)]
        <4>1. Current(t) \in Op
          BY <1>1, CurrentOp DEF CallInv
        <4>2. place \in [Op -> Nat]
          BY <1>1 DEF SharedInv, ListInv
        <4>3. QED
          BY <2>7, <4>1, <4>2
      <3>3. QED
        BY <2>1, <3>1, <3>2 DEF Undone, Current
    <2>9. Allowed(t, "finTail")
      BY DEF Allowed, WorkPc, EnqPc, DeqPc, FinPc, PollPc, AddPc
    <2>10. FrameInv(t)'
      BY <2>5, NoFrame
    <2>11. QED
      BY <1>1, <2>1, <2>5, <2>6, <2>7, <2>8, <2>9, <2>10, WorkStep
  <1>4. QED
    BY <1>2, <1>3

-----------------------------------------------------------------------------
(* fixTail and helpFinishEnq                                               *)

\* The end of helpFinishEnq.
LEMMA FinishedTypes ==
    ASSUME TypeOK, NEW t \in Thread, Finished(t)
    PROVE  /\ pc' \in [Thread -> PcLabels] /\ frame' \in [Thread -> Frame]
           /\ trials' \in [Thread -> 0 .. MAXFAILURES - 1]
  <1>1. CASE frame[t].done
    <2>1. Helped(t) \in PcLabels
      BY DEF Helped, PcLabels
    <2>2. Goto(t, Helped(t)) /\ frame' = [frame EXCEPT ![t] = Blank] /\ trials' = trials
      BY <1>1 DEF Finished, Forget
    <2>3. trials \in [Thread -> 0 .. MAXFAILURES - 1]
      BY DEF TypeOK
    <2>4. QED
      BY <2>1, <2>2, <2>3, GotoTypes, FrameUpdates
  <1>2. CASE ~frame[t].done
    BY <1>2, AgainTypes DEF Finished
  <1>3. QED
    BY <1>1, <1>2

LEMMA FinishedStep ==
    ASSUME IInv, NEW t \in Thread, TypeOK', SharedInv', Evolves(t), pc[t] \in FinPc, Finished(t),
           UNCHANGED <<state, tids, curTid, willHelp, nextCheck, kind, calls, role, target>>,
           Undone(Current(t)) => Undone(Current(t))'
    PROVE  IInv'
  <1>1. pc[t] \in WorkPc /\ pc[t] # "announce"
    BY DEF WorkPc, FinPc
  <1>2. CASE frame[t].done
    <2>1. Helped(t) \in {"resetTid", "return"} /\ Allowed(t, Helped(t))
      BY HelpedAllowed
    <2>2. pc'[t] = Helped(t) /\ \A u \in Thread \ {t} : pc'[u] = pc[u] /\ frame'[u] = frame[u]
      <3>1. TypeOK
        BY Parts
      <3>2. QED
        BY <1>2, <3>1 DEF Finished, Goto, Forget, TypeOK
    <2>3. FrameInv(t)'
      BY <2>1, <2>2, NoFrame
    <2>4. QED
      BY <1>1, <2>1, <2>2, <2>3, WorkStep
  <1>3. CASE ~frame[t].done
    BY <1>1, <1>3, AgainStep DEF Finished
  <1>4. QED
    BY <1>2, <1>3

LEMMA QuietFinished ==
    ASSUME IInv, Watch, NEW t \in Thread, pc[t] \in FinPc, Finished(t),
           UNCHANGED <<shared, record, history, role, target>>
    PROVE  IInv'
  <1>1. UNCHANGED <<next, head, tail, state, desc, tids, curTid, willHelp, nextCheck,
                    kind, calls, result, role, target>>
    BY DEF shared, record, history
  <1>2. TypeOK
    BY Parts
  <1>3. TypeOK'
    BY <1>1, <1>2, FinishedTypes, LocalTypes DEF TypeOK
  <1>4. /\ SharedInv' /\ Evolves(t)
        /\ Undone(Current(t)) => Undone(Current(t))'
    BY <1>1, <1>3, QuietWork
  <1>5. QED
    BY <1>1, <1>3, <1>4, FinishedStep

\* The tail is swung to the node that was read behind it.
LEMMA TailCasStep ==
    ASSUME IInv, Watch, NEW t \in Thread, FixTailCas(t) \/ FinCas(t)
    PROVE  IInv'
  <1> DEFINE n == frame[t].last
             m == frame[t].next
  <1>1. /\ TypeOK /\ SharedInv /\ TailInv(t) /\ CallInv(t)
        /\ n \in Node /\ m \in Node \cup {NoNode} /\ pc[t] \in {"fixTail", "finCas"}
    BY Parts, FrameTypes DEF FixTailCas, FinCas
  <1>2. /\ tail' = IF tail = n THEN m ELSE tail
        /\ IF pc[t] = "fixTail" THEN Again(t) ELSE Finished(t)
        /\ UNCHANGED <<next, head, state, desc, tids, curTid, willHelp, nextCheck,
                       kind, calls, result, role, target>>
    BY DEF FixTailCas, FinCas, CasTail, record, history
  <1>3. next[n] = m /\ m \in Op /\ (desc[m] = NoOp \/ desc[m].pending = 0)
    <2>1. next[n] = m /\ m # NoNode /\ (desc[m] = NoOp \/ desc[m].pending = 0)
      BY <1>1 DEF TailInv
    <2>2. QED
      BY <1>1, <2>1, SharedTypes
  <1>4. /\ pc' \in [Thread -> PcLabels] /\ frame' \in [Thread -> Frame]
        /\ trials' \in [Thread -> 0 .. MAXFAILURES - 1]
    BY <1>1, <1>2, AgainTypes, FinishedTypes
  <1>5. TypeOK'
    <2>1. tail' \in Node
      BY <1>1, <1>2, <1>3, Nulls DEF TypeOK
    <2>2. QED
      BY <1>1, <1>2, <1>4, <2>1 DEF TypeOK
  <1>6. SharedInv' /\ Evolves(t)
    BY <1>1, <1>2, <1>3, <1>5, TailStep
  <1>7. Undone(Current(t)) => Undone(Current(t))'
    <2>1. place' = place
      BY <1>1, <1>2, SamePlaces DEF SharedInv
    <2>2. QED
      BY <1>2, <2>1 DEF Undone, Current
  <1>8. CASE pc[t] = "fixTail"
    <2>1. pc[t] \in WorkPc /\ pc[t] # "announce" /\ Again(t)
      BY <1>2, <1>8 DEF WorkPc
    <2>2. QED
      BY <1>2, <1>5, <1>6, <1>7, <2>1, AgainStep
  <1>9. CASE pc[t] = "finCas"
    <2>1. pc[t] \in FinPc /\ Finished(t)
      BY <1>2, <1>9 DEF FinPc
    <2>2. QED
      BY <1>2, <1>5, <1>6, <1>7, <2>1, FinishedStep
  <1>10. QED
    BY <1>1, <1>8, <1>9

\* The node behind the tail is read, and its descriptor looked for.
LEMMA FinNextStep ==
    ASSUME IInv, Watch, NEW t \in Thread, FinNext(t)
    PROVE  IInv'
  <1> DEFINE n == next[frame[t].last]
             f == [frame[t] EXCEPT !.next = n]
             l == IF desc[n] = NoOp THEN "finCas" ELSE "finCheck"
  <1>1. /\ TypeOK /\ RoleInv(t) /\ TailInv(t) /\ frame[t] \in Frame /\ frame[t].last \in Node
        /\ pc[t] = "finNext" /\ pc[t] \in WorkPc /\ pc[t] \in FinPc
    BY Parts, FrameTypes DEF FinNext, WorkPc, FinPc
  <1>2. n \in Op \cup {NoNode} /\ n \in Node \cup {NoNode}
    BY <1>1, SharedTypes, Nulls
  <1>3. CASE n = NoNode
    <2>1. Finished(t) /\ UNCHANGED <<shared, record, history, role, target>>
      BY <1>3 DEF FinNext
    <2>2. QED
      BY <1>1, <2>1, QuietFinished
  <1>4. CASE n # NoNode
    <2>1. f \in Frame /\ f.last = frame[t].last /\ f.next = n
      BY <1>1, <1>2 DEF Frame
    <2>2. /\ Goto(t, l) /\ frame' = [frame EXCEPT ![t] = f]
          /\ UNCHANGED <<shared, record, history, control>>
      BY <1>4 DEF FinNext, control
    <2>3. Allowed(t, l) /\ l # "addSwing" /\ l \in {"finCas", "finCheck"}
      BY DEF Allowed, WorkPc, EnqPc, DeqPc, FinPc, PollPc, AddPc
    <2>4. ASSUME place' = place, pc'[t] = l, frame'[t] = f
          PROVE  FrameInv(t)'
      <3>1. tail' = tail /\ next' = next /\ desc' = desc
        BY <2>2 DEF shared
      <3>2. Listed(frame[t].last) /\ pos(frame[t].last) <= pos(tail)
        BY <1>1 DEF TailInv, TailRead
      <3>3. TailInv(t)'
        BY <1>4, <2>1, <2>3, <2>4, <3>1, <3>2 DEF TailInv, TailRead, pos, Listed
      <3>4. QED
        BY <2>3, <2>4, <3>3, TailFrame
    <2>5. QED
      BY <1>1, <2>1, <2>2, <2>3, <2>4, LocalStep
  <1>5. QED
    BY <1>3, <1>4

LEMMA FinCheckStep ==
    ASSUME IInv, Watch, NEW t \in Thread, FinCheck(t)
    PROVE  IInv'
  <1>1. /\ TypeOK /\ RoleInv(t) /\ TailInv(t) /\ frame[t] \in Frame
        /\ pc[t] = "finCheck" /\ pc[t] \in WorkPc /\ pc[t] \in FinPc
    BY Parts, FrameTypes DEF FinCheck, WorkPc, FinPc
  <1>2. CASE frame[t].last # tail
    <2>1. Finished(t) /\ UNCHANGED <<shared, record, history, role, target>>
      BY <1>2 DEF FinCheck
    <2>2. QED
      BY <1>1, <2>1, QuietFinished
  <1>3. CASE frame[t].last = tail
    <2>1. /\ Goto(t, "finPending") /\ frame' = [frame EXCEPT ![t] = frame[t]]
          /\ UNCHANGED <<shared, record, history, control>>
      BY <1>1, <1>3 DEF FinCheck, control, TypeOK
    <2>2. Allowed(t, "finPending")
      BY DEF Allowed, WorkPc, EnqPc, DeqPc, FinPc, PollPc, AddPc
    <2>3. ASSUME place' = place, pc'[t] = "finPending", frame'[t] = frame[t]
          PROVE  FrameInv(t)'
      <3>1. tail' = tail /\ next' = next /\ desc' = desc
        BY <2>1 DEF shared
      <3>2. TailInv(t)'
        BY <1>1, <2>3, <3>1 DEF TailInv, TailRead, pos, Listed
      <3>3. QED
        BY <2>3, <3>2, TailFrame
    <2>4. QED
      BY <1>1, <2>1, <2>2, <2>3, LocalStep
  <1>4. QED
    BY <1>2, <1>3

\* The descriptor of a node that is linked is done.
LEMMA FinPendingStep ==
    ASSUME IInv, Watch, NEW t \in Thread, FinPending(t)
    PROVE  IInv'
  <1> DEFINE n == frame[t].last
             o == frame[t].next
  <1>1. /\ TypeOK /\ SharedInv /\ DescInv /\ EndsInv /\ ListInv /\ TailInv(t) /\ CallInv(t)
        /\ n \in Node /\ pc[t] = "finPending" /\ pc[t] \in WorkPc /\ frame[t] \in Frame
    BY Parts, FrameTypes DEF FinPending, WorkPc, FinPc
  <1>2. /\ desc' = [desc EXCEPT ![o].pending = 0] /\ Goto(t, "finCas")
        /\ UNCHANGED <<next, head, tail, state, tids, curTid, willHelp, nextCheck,
                       kind, calls, result, role, target, trials, frame>>
    BY DEF FinPending, record, history, control
  <1>3. o \in Op /\ next[n] = o /\ desc[o] # NoOp /\ place[o] # 0
    <2>1. o # NoNode /\ next[n] = o /\ desc[o] # NoOp
      BY <1>1 DEF TailInv
    <2>2. o \in Op
      BY <1>1, <2>1, SharedTypes
    <2>3. QED
      BY <1>1, <2>1, <2>2, Nulls DEF ListInv, Linked
  <1>4. kind[o] = "add" /\ o[2] <= calls[o[1]]
    BY <1>1, <1>3 DEF DescInv, Undone
  <1>5. PICK p \in PNode : /\ p = [desc[o] EXCEPT !.pending = 0] /\ p.pending = 0
                           /\ desc[o].pending = 0 => p = desc[o]
    <2>1. desc[o] \in PNode
      BY <1>1, <1>3, SharedTypes
    <2> DEFINE q == [node |-> desc[o].node, pending |-> 0]
    <2>2. q \in PNode /\ q = [desc[o] EXCEPT !.pending = 0] /\ q.pending = 0
          /\ (desc[o].pending = 0 => q = desc[o])
      BY <2>1, PNodes
    <2>3. QED
      BY <2>2
  <1>6. desc' = [desc EXCEPT ![o] = p] /\ desc'[o] = p /\ p # NoOp
    BY <1>1, <1>2, <1>3, <1>5, Nulls DEF TypeOK
  <1>7. pc' \in [Thread -> PcLabels] /\ pc'[t] = "finCas"
        /\ \A u \in Thread \ {t} : pc'[u] = pc[u] /\ frame'[u] = frame[u]
    BY <1>1, <1>2 DEF Goto, TypeOK, PcLabels
  <1>8. TypeOK'
    <2>1. desc' \in [Op -> PNode \cup {NoOp}]
      BY <1>1, <1>3, <1>5, <1>6 DEF TypeOK
    <2>2. QED
      BY <1>1, <1>2, <1>7, <2>1 DEF TypeOK
  <1>9. SharedInv' /\ Evolves(t)
    <2>1. head.opDesc # o
      BY <1>1, <1>3, <1>4, Nulls DEF EndsInv
    <2>2. DescMoves(o)
      BY <1>4, <1>5, <1>6 DEF DescMoves
    <2>3. /\ desc[o] = NoOp => o[1] = t /\ place[o] = 0
          /\ desc[o] # NoOp => DescMoves(o)
          /\ kind[o] = "add" => IF p.pending = 1 THEN place[o] # 0 => next[tail] = o
                                                 ELSE place[o] # 0
          /\ kind[o] = "poll" => /\ Noted(p.node)
                                 /\ p.pending = 0 /\ p.node # NoNode => Left(p.node, o)
          /\ head.opDesc = o => p.node = head.node
      BY <1>3, <1>4, <1>5, <2>1, <2>2
    <2>4. QED
      BY <1>1, <1>2, <1>3, <1>4, <1>6, <1>8, <2>3, DescStep
  <1>10. Undone(Current(t)) => Undone(Current(t))'
    <2>1. place' = place /\ (Undone(Current(t)) => Current(t) # o) /\ Current(t) \in Op
      BY <1>1, <1>2, <1>3, SamePlaces, CurrentOp DEF CallInv, Undone
    <2>2. Current(t) # o => desc'[Current(t)] = desc[Current(t)]
      BY <1>1, <1>6, <2>1 DEF TypeOK
    <2>3. QED
      BY <1>2, <2>1, <2>2 DEF Undone, Current
  <1>11. Allowed(t, "finCas")
    BY DEF Allowed, WorkPc, EnqPc, DeqPc, FinPc, PollPc, AddPc
  <1>12. FrameInv(t)'
    <2>1. TailInv(t)'
      <3>1. Listed(n) /\ pos(n) <= pos(tail) /\ place' = place
        BY <1>1, <1>2, SamePlaces DEF TailInv, TailRead
      <3>2. QED
        BY <1>2, <1>3, <1>5, <1>6, <1>7, <3>1, Nulls DEF TailInv, pos, Listed
    <2>2. QED
      BY <1>7, <2>1, TailFrame
  <1>13. QED
    BY <1>1, <1>2, <1>7, <1>8, <1>9, <1>10, <1>11, <1>12, WorkStep

-----------------------------------------------------------------------------
(* A call, and helpIfNeeded                                                *)

\* A role of its own in these steps.
LEMMA Roles ==
    ASSUME TypeOK, NEW t \in Thread, RoleInv(t)
    PROVE  /\ role[t] \in {"new", "help", "fast", "self"}
           /\ pc[t] = "idle" => role[t] = "fast"
           /\ pc[t] \in {"register", "help"} => role[t] = "help"
           /\ pc[t] \in {"resetTid", "resetPhase"} => role[t] \in {"new", "help"}
           /\ pc[t] = "announce" => role[t] = "fast"
           /\ pc[t] = "return" => role[t] \in {"fast", "self"}
           /\ pc[t] \in EnqPc \cup DeqPc => role[t] \in {"help", "self"}
           /\ pc[t] \in AddPc \cup PollPc \cup {"fixTail"} => role[t] = "fast"
           /\ pc[t] \in FinPc => role[t] \in {"help", "fast", "self"}
  <1>1. role[t] \in {"new", "help", "fast", "self"}
    BY DEF TypeOK
  <1>2. QED
    BY <1>1 DEF RoleInv, EnqPc, DeqPc, FinPc, PollPc, AddPc

LEMMA BeginStep ==
    ASSUME IInv, Watch, NEW t \in Thread, NEW k \in {"add", "poll"}, Begin(t, k)
    PROVE  IInv'
  <1>1. /\ TypeOK /\ SharedInv /\ RoleInv(t) /\ RecordInv(t) /\ CallInv(t)
        /\ pc[t] = "idle" /\ role[t] = "fast"
    BY Parts, Roles DEF Begin
  <1>2. calls[t] \in Nat /\ calls[t] < MaxCalls[t] /\ MaxCalls[t] \in Nat
    BY <1>1, OpFacts DEF Begin, TypeOK
  <1> PICK o \in Op : o = <<t, calls[t] + 1>>
    <2>1. calls[t] + 1 \in 1 .. MaxCalls[t] /\ calls[t] + 1 \in Nat
      BY <1>2
    <2>2. QED
      BY <2>1, OpFacts
  <1>3. /\ calls' = [calls EXCEPT ![t] = calls[t] + 1] /\ kind' = [kind EXCEPT ![o] = k]
        /\ role' = [role EXCEPT ![t] = "help"]
        /\ Goto(t, IF curTid[t] = -1 THEN "register" ELSE "help")
        /\ UNCHANGED <<next, head, tail, state, desc, tids, curTid, willHelp, nextCheck,
                       result, target, trials, frame>>
        /\ calls'[t] = calls[t] + 1 /\ Current(t)' = o /\ calls'[t] \in 1 .. MaxCalls[t]
    <2>1. /\ calls' = [calls EXCEPT ![t] = calls[t] + 1] /\ kind' = [kind EXCEPT ![o] = k]
          /\ role' = [role EXCEPT ![t] = "help"]
          /\ Goto(t, IF curTid[t] = -1 THEN "register" ELSE "help")
          /\ UNCHANGED <<next, head, tail, state, desc, tids, curTid, willHelp, nextCheck,
                         result, target, trials, frame>>
      BY DEF Begin, shared, record
    <2>2. calls'[t] = calls[t] + 1
      BY <1>1, <2>1 DEF TypeOK
    <2>3. QED
      BY <1>2, <2>1, <2>2 DEF Current
  <1>4. /\ pc' \in [Thread -> PcLabels]
        /\ pc'[t] = IF curTid[t] = -1 THEN "register" ELSE "help"
        /\ role'[t] = "help"
        /\ \A u \in Thread \ {t} : pc'[u] = pc[u] /\ role'[u] = role[u]
    BY <1>1, <1>3 DEF Goto, TypeOK, PcLabels
  <1>5. TypeOK'
    <2>1. calls' \in [Thread -> Nat] /\ kind' \in [Op -> {"add", "poll"}]
      BY <1>1, <1>2, <1>3 DEF TypeOK
    <2>2. role' \in [Thread -> {"new", "help", "fast", "self"}]
      BY <1>1, <1>3 DEF TypeOK
    <2>3. QED
      BY <1>1, <1>3, <1>4, <2>1, <2>2 DEF TypeOK
  <1>6. SharedInv' /\ Evolves(t) /\ Undone(o)'
    BY <1>1, <1>2, <1>3, <1>5, BeginShared
  <1>7. \A u \in Thread \ {t} : Aside(u)
    BY <1>3, <1>4 DEF Aside
  <1>8. RoleInv(t)'
    BY <1>4 DEF RoleInv, AddPc, PollPc
  <1>9. RecordInv(t)'
    <2>1. curTid[t] # -1 => tids # << >>
      BY <1>1, RecordTypes
    <2>2. QED
      BY <1>1, <1>3, <1>4, <2>1 DEF RecordInv
  <1>10. CallInv(t)'
    <2>1. Undone(Current(t))'
      BY <1>3, <1>6 DEF Undone
    <2>2. QED
      BY <1>3, <1>4, <2>1, OpFacts DEF CallInv, EnqPc, DeqPc, FinPc
  <1>11. FrameInv(t)'
    BY <1>4, NoFrame
  <1>12. QED
    BY <1>5, <1>6, <1>7, <1>8, <1>9, <1>10, <1>11, Combine

\* A step of helpIfNeeded: nothing that others share has changed.
LEMMA HelpRecordStep ==
    ASSUME IInv, Watch, NEW t \in Thread, TypeOK',
           UNCHANGED <<next, head, tail, desc, state, kind, calls, result, frame>>,
           tids' = tids \/ tids' = Append(tids, t),
           pc[t] \in {"register", "help", "resetTid", "resetPhase"},
           pc'[t] \in {"resetTid", "resetPhase", "help", "addTail", "pollHead", "enqPending", "deqPNode"},
           \A u \in Thread \ {t} :
             /\ pc'[u] = pc[u] /\ role'[u] = role[u] /\ target'[u] = target[u]
             /\ curTid'[u] = curTid[u] /\ willHelp'[u] = willHelp[u] /\ nextCheck'[u] = nextCheck[u],
           role'[t] = IF pc'[t] \in {"addTail", "pollHead"} THEN "fast"
                      ELSE IF pc[t] = "register" THEN "new"
                      ELSE IF pc[t] = "resetPhase" THEN "help" ELSE role[t],
           pc[t] = "register" => pc'[t] = "resetTid",
           pc[t] = "resetTid" => pc'[t] = "resetPhase",
           pc'[t] \in {"enqPending", "deqPNode", "help"} => role'[t] = "help",
           pc'[t] \in {"addTail", "pollHead"} => pc'[t] = FastLoop(t),
           pc'[t] \in {"enqPending", "deqPNode"} =>
             /\ target'[t] # NoOp /\ desc[target'[t]] # NoOp
             /\ pc'[t] = IF kind[target'[t]] = "add" THEN "enqPending" ELSE "deqPNode",
           RecordInv(t)'
    PROVE  IInv'
  <1>1. /\ TypeOK /\ SharedInv /\ RoleInv(t) /\ CallInv(t)
    BY Parts
  <1>2. SharedInv' /\ Evolves(t) /\ place' = place /\ (Undone(Current(t)) => Undone(Current(t))')
    BY QuietWork
  <1>3. \A u \in Thread \ {t} : Aside(u)
    <2>1. tids # << >> => tids' # << >>
      <3>1. tids \in Seq(Thread)
        BY <1>1 DEF TypeOK
      <3>2. QED
        BY <3>1
    <2>2. QED
      BY <2>1 DEF Aside
  <1>4. Current(t)' = Current(t) /\ (Adding(t)' <=> Adding(t)) /\ Current(t) \in Op
    BY <1>1, CurrentOp DEF Current, Adding, CallInv
  <1>5. role[t] \in {"new", "help"}
    BY <1>1, Roles
  <1>6. role'[t] \in {"new", "help", "fast"} /\ (role'[t] = "new" => pc'[t] \in {"resetTid", "resetPhase"})
    <2>1. pc[t] = "help" => role[t] = "help"
      BY <1>1, Roles
    <2>2. QED
      BY <1>5, <2>1
  <1>7. RoleInv(t)'
    <2>1. pc'[t] \in {"addTail", "pollHead"} => pc'[t] = IF Adding(t) THEN "addTail" ELSE "pollHead"
      BY DEF FastLoop
    <2>2. role'[t] = "fast" <=> pc'[t] \in {"addTail", "pollHead"}
      BY <1>5
    <2>3. QED
      BY <1>4, <1>6, <2>1, <2>2 DEF RoleInv, EnqPc, DeqPc, FinPc, AddPc, PollPc
  <1>8. CallInv(t)'
    <2>1. Undone(Current(t))'
      BY <1>1, <1>2, <1>5 DEF CallInv
    <2>2. target'[t] \in Op \cup {NoOp}
      BY DEF TypeOK
    <2>3. pc'[t] \in {"enqPending", "deqPNode"} =>
            /\ kind[target'[t]] \in {"add", "poll"}
            /\ pc'[t] = IF kind[target'[t]] = "add" THEN "enqPending" ELSE "deqPNode"
      BY <1>1, <2>2, SharedTypes
    <2>4. /\ pc'[t] \in EnqPc => pc'[t] = "enqPending"
          /\ pc'[t] \in DeqPc => pc'[t] = "deqPNode"
          /\ pc'[t] \notin FinPc
      BY DEF EnqPc, DeqPc, FinPc
    <2>5. calls'[t] \in 0 .. MaxCalls[t] /\ calls'[t] # 0
      BY <1>1 DEF CallInv
    <2>6. QED
      BY <1>4, <1>6, <2>1, <2>3, <2>4, <2>5 DEF CallInv
  <1>9. FrameInv(t)'
    BY NoFrame
  <1>10. QED
    BY <1>2, <1>3, <1>7, <1>8, <1>9, Combine

LEMMA RegisterStep ==
    ASSUME IInv, Watch, NEW t \in Thread, Register(t)
    PROVE  IInv'
  <1>1. /\ TypeOK /\ RoleInv(t) /\ RecordInv(t) /\ pc[t] = "register" /\ role[t] = "help"
    BY Parts, Roles DEF Register
  <1>2. /\ tids' = Append(tids, t) /\ role' = [role EXCEPT ![t] = "new"] /\ Goto(t, "resetTid")
        /\ UNCHANGED <<next, head, tail, state, desc, curTid, willHelp, nextCheck,
                       kind, calls, result, target, trials, frame>>
    BY DEF Register, record, history
  <1>3. /\ pc' \in [Thread -> PcLabels] /\ pc'[t] = "resetTid" /\ role'[t] = "new"
        /\ role' \in [Thread -> {"new", "help", "fast", "self"}]
        /\ \A u \in Thread \ {t} : pc'[u] = pc[u] /\ role'[u] = role[u]
    BY <1>1, <1>2 DEF Goto, TypeOK, PcLabels
  <1>4. /\ tids \in Seq(Thread) /\ tids' \in Seq(Thread) /\ tids' # << >>
        /\ Len(tids) \in Nat /\ Len(tids') = Len(tids) + 1
    <2>1. tids \in Seq(Thread)
      BY <1>1 DEF TypeOK
    <2>2. Append(tids, t) \in Seq(Thread) /\ Len(Append(tids, t)) = Len(tids) + 1 /\ Len(tids) \in Nat
      BY <2>1
    <2>3. Append(tids, t) # << >>
      BY <2>1, <2>2
    <2>4. QED
      BY <1>2, <2>1, <2>2, <2>3
  <1>5. TypeOK'
    <2>1. curTid' \in [Thread -> -1 .. Len(tids') - 1]
      <3>1. -1 .. Len(tids) - 1 \subseteq -1 .. Len(tids') - 1
        BY <1>4
      <3>2. curTid \in [Thread -> -1 .. Len(tids) - 1]
        BY <1>1 DEF TypeOK
      <3>3. QED
        BY <1>2, <3>1, <3>2
    <2>2. QED
      BY <1>1, <1>2, <1>3, <1>4, <2>1 DEF TypeOK
  <1>6. RecordInv(t)'
    BY <1>1, <1>2, <1>3, <1>4 DEF RecordInv
  <1>7. QED
    BY <1>1, <1>2, <1>3, <1>5, <1>6, HelpRecordStep

LEMMA HelpStep ==
    ASSUME IInv, Watch, NEW t \in Thread, Help(t)
    PROVE  IInv'
  <1> DEFINE o == state[tids[curTid[t] + 1]]
             due == nextCheck[t] = 0
             take == due /\ o # NoOp /\ o = willHelp[t] /\ desc[o].pending = 1
             l == IF take THEN IF kind[o] = "add" THEN "enqPending" ELSE "deqPNode"
                  ELSE IF due THEN "resetTid" ELSE FastLoop(t)
  <1>1. /\ TypeOK /\ RoleInv(t) /\ RecordInv(t) /\ pc[t] = "help" /\ role[t] = "help"
    BY Parts, Roles DEF Help
  <1>2. /\ nextCheck' = [nextCheck EXCEPT ![t] = nextCheck[t] - 1] /\ Goto(t, l)
        /\ role' = [role EXCEPT ![t] = IF due THEN "help" ELSE "fast"]
        /\ target' = [target EXCEPT ![t] = IF take THEN o ELSE target[t]]
        /\ UNCHANGED <<next, head, tail, state, desc, tids, curTid, willHelp,
                       kind, calls, result, trials, frame>>
    <2>1. CASE take
      BY <1>1, <2>1 DEF Help, shared, history, TypeOK
    <2>2. CASE ~take
      BY <1>1, <2>2 DEF Help, shared, history, TypeOK
    <2>3. QED
      BY <2>1, <2>2
  <1>3. l \in {"enqPending", "deqPNode", "resetTid", "addTail", "pollHead"}
        /\ (l \in {"addTail", "pollHead"} => ~due /\ l = FastLoop(t))
        /\ (l \in {"enqPending", "deqPNode"} => take)
        /\ (due => l \notin {"addTail", "pollHead"})
        /\ (~due => l \in {"addTail", "pollHead"})
    BY DEF FastLoop
  <1>4. /\ pc' \in [Thread -> PcLabels] /\ pc'[t] = l
        /\ role'[t] = (IF due THEN "help" ELSE "fast")
        /\ target'[t] = (IF take THEN o ELSE target[t])
        /\ role' \in [Thread -> {"new", "help", "fast", "self"}]
        /\ \A u \in Thread \ {t} : pc'[u] = pc[u] /\ role'[u] = role[u] /\ target'[u] = target[u]
    <2>1. l \in PcLabels
      BY <1>3 DEF PcLabels
    <2>2. pc' \in [Thread -> PcLabels] /\ pc'[t] = l
      BY <1>1, <1>2, <2>1, GotoTypes
    <2>3. QED
      BY <1>1, <1>2, <2>2 DEF Goto, TypeOK
  <1>5. take => o \in Op /\ desc[o] # NoOp
    BY <1>1 DEF RecordInv, TypeOK
  <1>6. nextCheck[t] \in Int /\ nextCheck[t] >= 0 /\ nextCheck[t] - 1 \in -1 .. HELPINGDELAY
        /\ nextCheck'[t] = nextCheck[t] - 1
        /\ \A u \in Thread \ {t} : nextCheck'[u] = nextCheck[u]
    <2>1. nextCheck[t] \in -1 .. HELPINGDELAY /\ nextCheck[t] # -1
      BY <1>1, RecordTypes DEF RecordInv
    <2>2. nextCheck \in [Thread -> -1 .. HELPINGDELAY]
      BY <1>1 DEF TypeOK
    <2>3. QED
      BY <1>2, <2>1, <2>2, Bounds
  <1>7. TypeOK'
    <2>1. target' \in [Thread -> Op \cup {NoOp}]
      BY <1>1, <1>2, <1>5 DEF TypeOK
    <2>2. nextCheck' \in [Thread -> -1 .. HELPINGDELAY]
      BY <1>1, <1>2, <1>6 DEF TypeOK
    <2>3. QED
      BY <1>1, <1>2, <1>4, <2>1, <2>2 DEF TypeOK
  <1>8. RecordInv(t)'
    <2>1. nextCheck'[t] = -1 => due
      BY <1>6
    <2>2. QED
      BY <1>1, <1>2, <1>3, <1>4, <2>1 DEF RecordInv
  <1>9. /\ pc'[t] \in {"resetTid", "resetPhase", "help", "addTail", "pollHead", "enqPending", "deqPNode"}
        /\ role'[t] = IF pc'[t] \in {"addTail", "pollHead"} THEN "fast" ELSE role[t]
        /\ pc'[t] \in {"enqPending", "deqPNode", "help"} => role'[t] = "help"
        /\ pc'[t] \in {"addTail", "pollHead"} => pc'[t] = FastLoop(t)
    BY <1>1, <1>3, <1>4
  <1>10. pc'[t] \in {"enqPending", "deqPNode"} =>
           /\ target'[t] # NoOp /\ desc[target'[t]] # NoOp
           /\ pc'[t] = IF kind[target'[t]] = "add" THEN "enqPending" ELSE "deqPNode"
    <2>1. pc'[t] \in {"enqPending", "deqPNode"} => take
      BY <1>3, <1>4
    <2>2. take => target'[t] = o /\ l = IF kind[o] = "add" THEN "enqPending" ELSE "deqPNode"
      BY <1>4
    <2>3. QED
      BY <1>4, <1>5, <2>1, <2>2, Nulls
  <1>11. QED
    BY <1>1, <1>2, <1>4, <1>6, <1>7, <1>8, <1>9, <1>10, HelpRecordStep

LEMMA ResetTidStep ==
    ASSUME IInv, Watch, NEW t \in Thread, ResetTid(t)
    PROVE  IInv'
  <1>1. /\ TypeOK /\ RoleInv(t) /\ RecordInv(t) /\ pc[t] = "resetTid"
    BY Parts DEF ResetTid
  <1>2. /\ curTid' = [curTid EXCEPT ![t] = (curTid[t] + 1) % Len(tids)]
        /\ target' = [target EXCEPT ![t] = NoOp] /\ Goto(t, "resetPhase")
        /\ UNCHANGED <<next, head, tail, state, desc, tids, willHelp, nextCheck,
                       kind, calls, result, role, trials, frame>>
    BY DEF ResetTid, shared, history
  <1>3. /\ pc' \in [Thread -> PcLabels] /\ pc'[t] = "resetPhase"
        /\ target' \in [Thread -> Op \cup {NoOp}]
        /\ \A u \in Thread \ {t} : pc'[u] = pc[u] /\ target'[u] = target[u]
    BY <1>1, <1>2 DEF Goto, TypeOK, PcLabels
  <1>4. (curTid[t] + 1) % Len(tids) \in 0 .. Len(tids) - 1 /\ tids # << >>
    <2>1. tids # << >> /\ Len(tids) \in Nat \ {0} /\ curTid[t] \in Int /\ curTid[t] + 1 >= 0
      BY <1>1, RecordTypes DEF RecordInv
    <2>2. QED
      BY <2>1
  <1>5. /\ curTid' \in [Thread -> -1 .. Len(tids) - 1] /\ curTid'[t] # -1
        /\ \A u \in Thread \ {t} : curTid'[u] = curTid[u]
    <2>1. curTid \in [Thread -> -1 .. Len(tids) - 1] /\ Len(tids) \in Nat
      BY <1>1, RecordTypes DEF TypeOK
    <2>2. QED
      BY <1>2, <1>4, <2>1
  <1>6. TypeOK'
    BY <1>1, <1>2, <1>3, <1>5 DEF TypeOK
  <1>7. RecordInv(t)'
    BY <1>1, <1>2, <1>3, <1>4, <1>5 DEF RecordInv
  <1>8. QED
    BY <1>1, <1>2, <1>3, <1>5, <1>6, <1>7, HelpRecordStep

LEMMA ResetPhaseStep ==
    ASSUME IInv, Watch, NEW t \in Thread, ResetPhase(t)
    PROVE  IInv'
  <1> DEFINE l == IF role[t] = "new" THEN "help" ELSE FastLoop(t)
             o == state[tids[curTid[t] + 1]]
  <1>1. /\ TypeOK /\ RoleInv(t) /\ RecordInv(t) /\ pc[t] = "resetPhase" /\ role[t] \in {"new", "help"}
    BY Parts, Roles DEF ResetPhase
  <1>2. /\ willHelp' = [willHelp EXCEPT ![t] = o]
        /\ nextCheck' = [nextCheck EXCEPT ![t] = HELPINGDELAY] /\ Goto(t, l)
        /\ role' = [role EXCEPT ![t] = IF role[t] = "new" THEN "help" ELSE "fast"]
        /\ UNCHANGED <<next, head, tail, state, desc, tids, curTid,
                       kind, calls, result, target, trials, frame>>
    BY DEF ResetPhase, shared, history
  <1>3. l \in {"help", "addTail", "pollHead"} /\ (l = "help" <=> role[t] = "new")
        /\ (l \in {"addTail", "pollHead"} => l = FastLoop(t))
    BY DEF FastLoop
  <1>4. /\ pc' \in [Thread -> PcLabels] /\ pc'[t] = l
        /\ role' \in [Thread -> {"new", "help", "fast", "self"}]
        /\ role'[t] = IF role[t] = "new" THEN "help" ELSE "fast"
        /\ \A u \in Thread \ {t} : pc'[u] = pc[u] /\ role'[u] = role[u]
    <2>1. l \in PcLabels
      BY <1>3 DEF PcLabels
    <2>2. pc' \in [Thread -> PcLabels] /\ pc'[t] = l
      BY <1>1, <1>2, <2>1, GotoTypes
    <2>3. QED
      BY <1>1, <1>2, <2>2 DEF Goto, TypeOK
  <1>5. o \in Op \cup {NoOp} /\ (o # NoOp => desc[o] # NoOp) /\ tids # << >> /\ curTid[t] # -1
    <2>1. curTid[t] # -1 /\ tids # << >>
      BY <1>1 DEF RecordInv
    <2>2. tids[curTid[t] + 1] \in Thread
      BY <2>1, RecordTypes
    <2>3. \A u \in Thread : state[u] \in Op \cup {NoOp} /\ (state[u] # NoOp => desc[state[u]] # NoOp)
      BY DEF IInv, TypeOK, RecordInv
    <2>4. QED
      BY <2>1, <2>2, <2>3
  <1>6. /\ willHelp' \in [Thread -> Op \cup {NoOp}] /\ willHelp'[t] = o
        /\ nextCheck' \in [Thread -> -1 .. HELPINGDELAY] /\ nextCheck'[t] # -1
        /\ \A u \in Thread \ {t} : willHelp'[u] = willHelp[u] /\ nextCheck'[u] = nextCheck[u]
    <2>1. HELPINGDELAY \in -1 .. HELPINGDELAY /\ HELPINGDELAY # -1
      BY Bounds
    <2>2. QED
      BY <1>1, <1>2, <1>5, <2>1 DEF TypeOK
  <1>7. TypeOK'
    BY <1>1, <1>2, <1>4, <1>6 DEF TypeOK
  <1>8. RecordInv(t)'
    BY <1>1, <1>2, <1>3, <1>4, <1>5, <1>6 DEF RecordInv
  <1>9. /\ pc'[t] \in {"help", "addTail", "pollHead"}
        /\ role'[t] = IF pc'[t] \in {"addTail", "pollHead"} THEN "fast" ELSE "help"
        /\ pc'[t] \in {"addTail", "pollHead"} => pc'[t] = FastLoop(t)
    BY <1>1, <1>3, <1>4
  <1>10. QED
    BY <1>1, <1>2, <1>4, <1>6, <1>7, <1>8, <1>9, HelpRecordStep

-----------------------------------------------------------------------------
(* wfEnq, wfDeq and the end of a call                                      *)

\* The descriptor of the call is announced.
LEMMA AnnounceStep ==
    ASSUME IInv, Watch, NEW t \in Thread, Announce(t)
    PROVE  IInv'
  <1> DEFINE l == IF Adding(t) THEN "enqPending" ELSE "deqPNode"
  <1>1. /\ TypeOK /\ SharedInv /\ EndsInv /\ RoleInv(t) /\ RecordInv(t) /\ CallInv(t)
        /\ pc[t] = "announce" /\ role[t] = "fast"
    BY Parts, Roles DEF Announce
  <1> PICK o \in Op : o = Current(t)
    BY <1>1, CurrentOp DEF CallInv
  <1> PICK p \in PNode : /\ p = [node |-> IF Adding(t) THEN o ELSE NoNode, pending |-> 1]
                         /\ p.pending = 1 /\ (~Adding(t) => p.node = NoNode)
    <2> DEFINE q == [node |-> IF Adding(t) THEN o ELSE NoNode, pending |-> 1]
    <2>1. q \in PNode /\ q.pending = 1 /\ (~Adding(t) => q.node = NoNode)
      BY Nulls, PNodes
    <2>2. QED
      BY <2>1
  <1>2. /\ desc' = [desc EXCEPT ![o] = p]
        /\ state' = [state EXCEPT ![t] = o] /\ role' = [role EXCEPT ![t] = "self"]
        /\ target' = [target EXCEPT ![t] = o] /\ Goto(t, l)
        /\ UNCHANGED <<next, head, tail, tids, curTid, willHelp, nextCheck,
                       kind, calls, result, trials, frame>>
    BY DEF Announce, record, history
  <1>3. /\ pc' \in [Thread -> PcLabels] /\ pc'[t] = l /\ l \in {"enqPending", "deqPNode"}
        /\ role'[t] = "self" /\ target'[t] = o /\ state'[t] = o
        /\ \A u \in Thread \ {t} : /\ pc'[u] = pc[u] /\ role'[u] = role[u]
                                   /\ target'[u] = target[u] /\ state'[u] = state[u]
    <2>1. l \in PcLabels
      BY DEF PcLabels
    <2>2. pc' \in [Thread -> PcLabels] /\ pc'[t] = l
      BY <1>1, <1>2, <2>1, GotoTypes
    <2>3. QED
      BY <1>1, <1>2, <2>2 DEF Goto, TypeOK
  <1>4. Undone(o) /\ o[1] = t /\ o[2] = calls[t] /\ calls[t] \in Nat
    BY <1>1 DEF CallInv, Current, TypeOK
  <1>5. desc'[o] = p /\ p # NoOp /\ desc' \in [Op -> PNode \cup {NoOp}]
    BY <1>1, <1>2, Nulls DEF TypeOK
  <1>6. TypeOK'
    <2>1. /\ state' \in [Thread -> Op \cup {NoOp}] /\ target' \in [Thread -> Op \cup {NoOp}]
          /\ role' \in [Thread -> {"new", "help", "fast", "self"}]
      BY <1>1, <1>2 DEF TypeOK
    <2>2. QED
      BY <1>1, <1>2, <1>3, <1>5, <2>1 DEF TypeOK
  <1>7. SharedInv' /\ Evolves(t)
    <2>1. desc[o] = NoOp /\ place[o] = 0
      BY <1>4 DEF Undone
    <2>2. head.opDesc # o
      BY <1>1, <2>1, Nulls DEF EndsInv
    <2>3. kind[o] = "poll" => p.node = NoNode
      BY DEF Adding
    <2>4. kind[o] = "poll" => /\ Noted(p.node)
                              /\ p.pending = 0 /\ p.node # NoNode => Left(p.node, o)
      BY <2>3 DEF Noted
    <2>5. /\ desc[o] = NoOp => o[1] = t /\ place[o] = 0
          /\ desc[o] # NoOp => DescMoves(o)
          /\ kind[o] = "add" => IF p.pending = 1 THEN place[o] # 0 => next[tail] = o
                                                 ELSE place[o] # 0
          /\ head.opDesc = o => p.node = head.node
          /\ o[2] <= calls[o[1]]
      BY <1>4, <2>1, <2>2
    <2>6. QED
      BY <1>1, <1>2, <1>6, <2>4, <2>5, DescStep
  <1>8. \A u \in Thread \ {t} : Aside(u)
    BY <1>2, <1>3 DEF Aside
  <1>9. Current(t)' = o /\ (Adding(t)' <=> Adding(t))
    BY <1>2 DEF Current, Adding
  <1>10. RoleInv(t)'
    BY <1>3 DEF RoleInv, EnqPc, DeqPc, FinPc, AddPc, PollPc
  <1>11. RecordInv(t)'
    <2>1. willHelp[t] \in Op \cup {NoOp} /\ \A q \in Op : desc[q] # NoOp => desc'[q] # NoOp
      BY <1>1, <1>7 DEF TypeOK, Evolves, DescMoves
    <2>2. QED
      BY <1>1, <1>2, <1>3, <1>5, <2>1 DEF RecordInv
  <1>12. CallInv(t)'
    <2>1. kind[o] \in {"add", "poll"} /\ (Adding(t) <=> kind[o] = "add")
      BY <1>1, SharedTypes DEF Adding
    <2>2. /\ pc'[t] \in EnqPc => pc'[t] = "enqPending"
          /\ pc'[t] \in DeqPc => pc'[t] = "deqPNode"
      BY <1>3 DEF EnqPc, DeqPc
    <2>3. QED
      BY <1>1, <1>2, <1>3, <1>5, <1>9, <2>1, <2>2, Nulls DEF CallInv
  <1>13. FrameInv(t)'
    BY <1>3, NoFrame
  <1>14. QED
    BY <1>6, <1>7, <1>8, <1>10, <1>11, <1>12, <1>13, Combine

\* The call returns.
LEMMA ReturnStep ==
    ASSUME IInv, Watch, NEW t \in Thread, Return(t)
    PROVE  IInv'
  <1>1. /\ TypeOK /\ SharedInv /\ DescInv /\ RoleInv(t) /\ RecordInv(t) /\ CallInv(t)
        /\ pc[t] = "return" /\ role[t] \in {"fast", "self"}
    BY Parts, Roles DEF Return
  <1> PICK o \in Op : o = Current(t)
    BY <1>1, CurrentOp DEF CallInv
  <1>2. /\ result' = (IF role[t] = "self" /\ ~Adding(t)
                        THEN [result EXCEPT ![o] = Answer(o)] ELSE result)
        /\ trials' = [trials EXCEPT ![t] = 0] /\ target' = [target EXCEPT ![t] = NoOp]
        /\ role' = [role EXCEPT ![t] = "fast"] /\ frame' = [frame EXCEPT ![t] = Blank]
        /\ Goto(t, "idle")
        /\ UNCHANGED <<next, head, tail, state, desc, tids, curTid, willHelp, nextCheck, kind, calls>>
    BY DEF Return, shared, record, Forget
  <1>3. o[1] = t /\ o[2] = calls[t] /\ calls[t] \in Nat
    BY <1>1 DEF Current, TypeOK
  <1>4. result' \in [Op -> Op \cup {None, Empty}] /\ \A q \in Op \ {o} : result'[q] = result[q]
    <2>1. CASE role[t] = "self" /\ ~Adding(t)
      <3>1. desc[o] # NoOp /\ desc[o].node \in Node \cup {NoNode} /\ kind[o] = "poll"
        BY <1>1, <2>1, SharedTypes DEF CallInv, Adding
      <3>2. desc[o].node # NoNode => next[desc[o].node] \in Op
        <4> SUFFICES ASSUME desc[o].node # NoNode PROVE next[desc[o].node] \in Op
          OBVIOUS
        <4>1. /\ desc[o].node \in Node /\ Listed(desc[o].node)
              /\ pos(desc[o].node) < pos(tail) /\ tail \in Node
          BY <1>1, <3>1, SharedTypes DEF DescInv, DeqInv, Noted
        <4>2. pos(desc[o].node) < back
          <5>1. pos(tail) <= back /\ pos(desc[o].node) \in Nat /\ pos(tail) \in Nat /\ back \in Nat
            BY <1>1, <4>1, Places DEF SharedInv
          <5>2. QED
            BY <4>1, <5>1
        <4>3. QED
          BY <1>1, <4>1, <4>2, Places DEF SharedInv
      <3>3. Answer(o) \in Op \cup {Empty}
        BY <3>2 DEF Answer
      <3>4. QED
        BY <1>1, <1>2, <2>1, <3>3 DEF TypeOK
    <2>2. CASE ~(role[t] = "self" /\ ~Adding(t))
      BY <1>1, <1>2, <2>2 DEF TypeOK
    <2>3. QED
      BY <2>1, <2>2
  <1>5. /\ pc' \in [Thread -> PcLabels] /\ pc'[t] = "idle" /\ role'[t] = "fast" /\ target'[t] = NoOp
        /\ frame' \in [Thread -> Frame]
        /\ \A u \in Thread \ {t} : /\ pc'[u] = pc[u] /\ role'[u] = role[u]
                                   /\ target'[u] = target[u] /\ frame'[u] = frame[u]
    <2>1. frame' \in [Thread -> Frame]
      BY <1>1, <1>2, FrameUpdates
    <2>2. QED
      BY <1>1, <1>2, <2>1 DEF Goto, TypeOK, PcLabels
  <1>6. TypeOK'
    <2>1. trials' \in [Thread -> 0 .. MAXFAILURES - 1]
      <3>1. 0 \in 0 .. MAXFAILURES - 1
        BY Bounds
      <3>2. QED
        BY <1>1, <1>2, <3>1 DEF TypeOK
    <2>2. /\ target' \in [Thread -> Op \cup {NoOp}] /\ role' \in [Thread -> {"new", "help", "fast", "self"}]
      BY <1>1, <1>2 DEF TypeOK
    <2>3. QED
      BY <1>1, <1>2, <1>4, <1>5, <2>1, <2>2 DEF TypeOK
  <1>7. SharedInv' /\ Evolves(t)
    <2>1. \A q \in Op : result'[q] = result[q] \/ (q[1] = t /\ q[2] <= calls[t])
      BY <1>3, <1>4
    <2>2. QED
      BY <1>1, <1>2, <1>6, <2>1, QuietStep
  <1>8. \A u \in Thread \ {t} : Aside(u)
    BY <1>2, <1>5 DEF Aside
  <1>9. RoleInv(t)'
    BY <1>5 DEF RoleInv, AddPc, PollPc
  <1>10. RecordInv(t)'
    BY <1>1, <1>2, <1>5 DEF RecordInv
  <1>11. CallInv(t)'
    BY <1>1, <1>2, <1>5 DEF CallInv, EnqPc, DeqPc, FinPc
  <1>12. FrameInv(t)'
    BY <1>5, NoFrame
  <1>13. QED
    BY <1>6, <1>7, <1>8, <1>9, <1>10, <1>11, <1>12, Combine

-----------------------------------------------------------------------------
(* poll                                                                    *)

\* A head that was read is not beyond the head, and so not beyond the tail.
LEMMA PastTail ==
    ASSUME IInv, NEW h \in NodeHead, HeadPast(h)
    PROVE  /\ h.node \in Node /\ h.opDesc \in Op \cup {NoOp} /\ Listed(h.node)
           /\ pos(h.node) \in Nat /\ pos(head.node) \in Nat /\ pos(tail) \in Nat /\ back \in Nat
           /\ pos(h.node) <= pos(head.node) /\ pos(head.node) <= pos(tail) /\ pos(tail) <= back
  <1>1. /\ TypeOK /\ ListInv /\ EndsInv /\ head.node \in Node /\ tail \in Node
    BY SharedTypes DEF IInv, SharedInv
  <1>2. h.node \in Node /\ h.opDesc \in Op \cup {NoOp} /\ Listed(h.node)
    BY DEF NodeHead, HeadPast
  <1>3. pos(h.node) \in Nat /\ pos(head.node) \in Nat /\ pos(tail) \in Nat /\ back \in Nat
        /\ pos(tail) <= back /\ pos(head.node) <= pos(tail)
    BY <1>1, <1>2, Places DEF EndsInv
  <1>4. pos(h.node) <= pos(head.node)
    BY <1>3 DEF HeadPast
  <1>5. QED
    BY <1>2, <1>3, <1>4

\* The head is the head.
LEMMA HeadIsPast ==
    ASSUME IInv
    PROVE  head \in NodeHead /\ HeadPast(head)
  BY DEF IInv, TypeOK, SharedInv, EndsInv, HeadPast

LEMMA PollHeadStep ==
    ASSUME IInv, Watch, NEW t \in Thread, PollHead(t)
    PROVE  IInv'
  <1> DEFINE f == [frame[t] EXCEPT !.localHead = head]
  <1>1. /\ TypeOK /\ RoleInv(t) /\ frame[t] \in Frame /\ pc[t] = "pollHead" /\ role[t] = "fast"
        /\ head \in NodeHead /\ HeadPast(head)
    BY Parts, FrameTypes, Roles, HeadIsPast DEF PollHead, PollPc
  <1>2. f \in Frame /\ f.localHead = head
    BY <1>1 DEF Frame
  <1>3. /\ Goto(t, "pollTail") /\ frame' = [frame EXCEPT ![t] = f]
        /\ UNCHANGED <<shared, record, history, control>>
    BY DEF PollHead
  <1>4. Allowed(t, "pollTail") /\ pc[t] \in WorkPc
    BY <1>1 DEF RoleInv, Allowed, WorkPc, EnqPc, DeqPc, FinPc, PollPc, AddPc
  <1>5. ASSUME place' = place, pc'[t] = "pollTail", frame'[t] = f
        PROVE  FrameInv(t)'
    <2>1. head' = head /\ frame'[t].localHead = head
      BY <1>2, <1>3, <1>5 DEF shared
    <2>2. HeadInv(t)'
      BY <1>1, <1>5, <2>1 DEF HeadInv, HeadPast, pos, Listed
    <2>3. QED
      BY <1>5, <2>2, HeadFrame
  <1>6. QED
    BY <1>2, <1>3, <1>4, <1>5, LocalStep

LEMMA PollTailStep ==
    ASSUME IInv, Watch, NEW t \in Thread, PollTail(t)
    PROVE  IInv'
  <1> DEFINE f == [frame[t] EXCEPT !.last = tail]
             h == frame[t].localHead
  <1>1. /\ TypeOK /\ RoleInv(t) /\ HeadInv(t) /\ frame[t] \in Frame /\ h \in NodeHead
        /\ pc[t] = "pollTail" /\ role[t] = "fast" /\ tail \in Node /\ Listed(tail)
    BY Parts, FrameTypes, Roles DEF PollTail, PollPc
  <1>2. f \in Frame /\ f.localHead = h /\ f.last = tail
    BY <1>1 DEF Frame
  <1>3. /\ Goto(t, "pollNext") /\ frame' = [frame EXCEPT ![t] = f]
        /\ UNCHANGED <<shared, record, history, control>>
    BY DEF PollTail
  <1>4. Allowed(t, "pollNext") /\ pc[t] \in WorkPc
    BY <1>1 DEF RoleInv, Allowed, WorkPc, EnqPc, DeqPc, FinPc, PollPc, AddPc
  <1>5. HeadPast(h) /\ pos(h.node) <= pos(tail) /\ pos(tail) <= pos(tail)
    <2>1. HeadPast(h)
      BY <1>1 DEF HeadInv, HeadRead
    <2>2. QED
      BY <1>1, <2>1, PastTail
  <1>6. ASSUME place' = place, pc'[t] = "pollNext", frame'[t] = f
        PROVE  FrameInv(t)'
    <2>1. head' = head /\ tail' = tail /\ frame'[t].localHead = h /\ frame'[t].last = tail
      BY <1>2, <1>3, <1>6 DEF shared
    <2>2. HeadInv(t)'
      BY <1>1, <1>5, <1>6, <2>1 DEF HeadInv, HeadPast, pos, Listed
    <2>3. TailInv(t)'
      BY <1>1, <1>5, <1>6, <2>1 DEF TailInv, pos, Listed
    <2>4. PNodeInv(t)'
      BY <1>6 DEF PNodeInv, PNodeRead, DeqPc
    <2>5. QED
      BY <2>2, <2>3, <2>4 DEF FrameInv
  <1>7. QED
    BY <1>2, <1>3, <1>4, <1>6, LocalStep

LEMMA PollNextStep ==
    ASSUME IInv, Watch, NEW t \in Thread, PollNext(t)
    PROVE  IInv'
  <1> DEFINE h == frame[t].localHead
             n == next[h.node]
             f == [frame[t] EXCEPT !.next = n]
  <1>1. /\ TypeOK /\ ListInv /\ RoleInv(t) /\ HeadInv(t) /\ TailInv(t)
        /\ frame[t] \in Frame /\ h \in NodeHead /\ h.node \in Node /\ frame[t].last \in Node
        /\ pc[t] = "pollNext" /\ role[t] = "fast"
    BY Parts, FrameTypes, Roles DEF PollNext, PollPc
  <1>2. n \in Node \cup {NoNode}
    BY <1>1, SharedTypes, Nulls
  <1>3. f \in Frame /\ f.localHead = h /\ f.last = frame[t].last /\ f.next = n
    BY <1>1, <1>2 DEF Frame
  <1>4. /\ Goto(t, "pollCheck") /\ frame' = [frame EXCEPT ![t] = f]
        /\ UNCHANGED <<shared, record, history, control>>
    BY DEF PollNext
  <1>5. Allowed(t, "pollCheck") /\ pc[t] \in WorkPc
    BY <1>1 DEF RoleInv, Allowed, WorkPc, EnqPc, DeqPc, FinPc, PollPc, AddPc
  <1>6. /\ HeadPast(h) /\ pos(h.node) <= pos(frame[t].last)
        /\ Listed(frame[t].last) /\ pos(frame[t].last) <= pos(tail)
    BY <1>1 DEF HeadInv, HeadRead, TailInv, TailRead
  <1>7. n = NoNode => h.node = frame[t].last
    <2> SUFFICES ASSUME n = NoNode PROVE h.node = frame[t].last
      OBVIOUS
    <2>1. pos(h.node) = back /\ Listed(h.node)
      BY <1>1, <1>6, PastTail DEF ListInv
    <2>2. pos(frame[t].last) = back
      <3>1. pos(frame[t].last) \in Nat /\ pos(frame[t].last) <= back /\ back \in Nat
        BY <1>1, Places
      <3>2. QED
        BY <1>6, <2>1, <3>1
    <2>3. QED
      BY <1>1, <1>6, <2>1, <2>2, Places
  <1>8. ASSUME place' = place, pc'[t] = "pollCheck", frame'[t] = f
        PROVE  FrameInv(t)'
    <2>1. /\ head' = head /\ tail' = tail /\ next' = next /\ frame'[t].localHead = h
          /\ frame'[t].last = frame[t].last /\ frame'[t].next = n
      BY <1>3, <1>4, <1>8 DEF shared
    <2>2. HeadInv(t)'
      BY <1>6, <1>7, <1>8, <2>1 DEF HeadInv, HeadPast, pos, Listed
    <2>3. TailInv(t)'
      BY <1>6, <1>8, <2>1 DEF TailInv, pos, Listed
    <2>4. PNodeInv(t)'
      BY <1>8 DEF PNodeInv, PNodeRead, DeqPc
    <2>5. QED
      BY <2>2, <2>3, <2>4 DEF FrameInv
  <1>9. QED
    BY <1>3, <1>4, <1>5, <1>8, LocalStep

LEMMA PollCheckStep ==
    ASSUME IInv, Watch, NEW t \in Thread, PollCheck(t)
    PROVE  IInv'
  <1> DEFINE f == frame[t]
             h == frame[t].localHead
             atEnd == h.node = f.last
  <1>1. /\ TypeOK /\ SharedInv /\ ListInv /\ RoleInv(t) /\ CallInv(t) /\ HeadInv(t) /\ TailInv(t)
        /\ f \in Frame /\ h \in NodeHead /\ h.node \in Node /\ f.last \in Node
        /\ f.next \in Node \cup {NoNode}
        /\ pc[t] = "pollCheck" /\ role[t] = "fast" /\ pc[t] \in WorkPc
    BY Parts, FrameTypes, Roles DEF PollCheck, PollPc, WorkPc
  <1>2. /\ HeadPast(h) /\ pos(h.node) <= pos(f.last)
        /\ Listed(f.last) /\ pos(f.last) <= pos(tail)
        /\ f.next = NoNode \/ next[h.node] = f.next
        /\ f.next = NoNode => atEnd
    BY <1>1 DEF HeadInv, HeadRead, TailInv, TailRead
  <1>3. CASE h # head
    <2>1. Again(t) /\ UNCHANGED <<shared, record, history, role, target>>
      BY <1>3 DEF PollCheck, history
    <2>2. QED
      BY <1>1, <2>1, QuietAgain
  <1>4. CASE h = head /\ atEnd /\ f.next = NoNode
    <2>1. /\ result' = [result EXCEPT ![Current(t)] = Empty] /\ Goto(t, "return")
          /\ UNCHANGED <<next, head, tail, state, desc, tids, curTid, willHelp, nextCheck,
                         kind, calls, role, target, trials, frame>>
      BY <1>4 DEF PollCheck, shared, record
    <2>2. Current(t) \in Op /\ Current(t)[1] = t /\ Current(t)[2] = calls[t] /\ calls[t] \in Nat
      BY <1>1, CurrentOp DEF CallInv, Current, TypeOK
    <2>3. result' \in [Op -> Op \cup {None, Empty}]
      BY <1>1, <2>1, <2>2 DEF TypeOK
    <2>4. pc' \in [Thread -> PcLabels] /\ pc'[t] = "return"
          /\ \A u \in Thread \ {t} : pc'[u] = pc[u] /\ frame'[u] = frame[u]
      BY <1>1, <2>1 DEF Goto, TypeOK, PcLabels
    <2>5. TypeOK'
      BY <1>1, <2>1, <2>3, <2>4 DEF TypeOK
    <2>6. SharedInv' /\ Evolves(t)
      <3>1. \A o \in Op : result'[o] = result[o] \/ (o[1] = t /\ o[2] <= calls[t])
        BY <1>1, <2>1, <2>2 DEF TypeOK
      <3>2. QED
        BY <1>1, <2>1, <2>5, <3>1, QuietStep
    <2>7. Allowed(t, "return")
      BY <1>1 DEF Allowed, WorkPc, EnqPc, DeqPc, FinPc, PollPc, AddPc
    <2>8. FrameInv(t)'
      BY <2>4, NoFrame
    <2>9. QED
      BY <1>1, <2>1, <2>4, <2>5, <2>6, <2>7, <2>8, WorkStep
  <1>5. CASE h = head /\ ~(atEnd /\ f.next = NoNode)
    <2> DEFINE l == IF atEnd THEN IF desc[f.next] = NoOp THEN "fixTail" ELSE "finTail"
                    ELSE IF h.opDesc = NoOp THEN "pollCas" ELSE "finHead"
    <2>1. Goto(t, l) /\ UNCHANGED <<shared, record, history, control>> /\ frame' = frame
      BY <1>5 DEF PollCheck, FixTail, control, history
    <2>2. frame' = [frame EXCEPT ![t] = f] /\ l \in {"fixTail", "finTail", "pollCas", "finHead"}
      BY <1>1, <2>1 DEF TypeOK
    <2>3. Allowed(t, l) /\ l # "addSwing"
      BY <1>1, <2>2 DEF RoleInv, Allowed, WorkPc, EnqPc, DeqPc, FinPc, PollPc, AddPc
    <2>4. ASSUME place' = place, pc'[t] = l, frame'[t] = f
          PROVE  FrameInv(t)'
      <3>1. head' = head /\ tail' = tail /\ next' = next /\ desc' = desc
        BY <2>1 DEF shared
      <3>2. CASE l \in {"finTail", "finHead"}
        BY <2>4, <3>2, NoFrame
      <3>3. CASE l = "fixTail"
        <4>1. atEnd /\ f.next # NoNode /\ next[f.last] = f.next /\ desc[f.next] = NoOp
          BY <1>2, <1>5, <3>3
        <4>2. TailInv(t)'
          BY <1>2, <2>4, <3>1, <3>3, <4>1 DEF TailInv, pos, Listed
        <4>3. QED
          BY <2>4, <3>3, <4>2, TailFrame
      <3>4. CASE l = "pollCas"
        <4>1. ~atEnd /\ f.next # NoNode /\ next[h.node] = f.next
          BY <1>2, <3>4
        <4>2. pos(h.node) < pos(tail)
          <5>1. /\ pos(h.node) \in Nat /\ pos(f.last) \in Nat /\ pos(tail) \in Nat /\ Listed(h.node)
                /\ (pos(h.node) = pos(f.last) => h.node = f.last)
            BY <1>1, <1>2, PastTail, Places
          <5>2. QED
            BY <1>2, <4>1, <5>1
        <4>3. HeadInv(t)'
          BY <1>2, <2>4, <3>1, <3>4, <4>1, <4>2 DEF HeadInv, HeadPast, pos, Listed
        <4>4. QED
          BY <2>4, <3>4, <4>3, HeadFrame
      <3>5. QED
        BY <2>2, <3>2, <3>3, <3>4
    <2>5. QED
      BY <1>1, <2>1, <2>2, <2>3, <2>4, LocalStep
  <1>6. QED
    BY <1>3, <1>4, <1>5

\* The head moves on, or the round is lost.
LEMMA PollCasStep ==
    ASSUME IInv, Watch, NEW t \in Thread, PollCas(t)
    PROVE  IInv'
  <1> DEFINE h == frame[t].localHead
             n == frame[t].next
  <1>1. /\ TypeOK /\ SharedInv /\ RoleInv(t) /\ CallInv(t) /\ HeadInv(t)
        /\ h \in NodeHead /\ h.node \in Node /\ n \in Node \cup {NoNode}
        /\ pc[t] = "pollCas" /\ role[t] = "fast" /\ pc[t] \in WorkPc
    BY Parts, FrameTypes, Roles DEF PollCas, PollPc, WorkPc
  <1>2. CASE head # [node |-> h.node, opDesc |-> NoOp]
    <2>1. Again(t) /\ UNCHANGED <<shared, record, history, role, target>>
      BY <1>2 DEF PollCas, CasHead, shared, history
    <2>2. QED
      BY <1>1, <2>1, QuietAgain
  <1>3. CASE head = [node |-> h.node, opDesc |-> NoOp]
    <2>1. /\ head' = [node |-> n, opDesc |-> NoOp]
          /\ result' = [result EXCEPT ![Current(t)] = n] /\ Goto(t, "return")
          /\ UNCHANGED <<next, tail, state, desc, tids, curTid, willHelp, nextCheck,
                         kind, calls, role, target, trials, frame>>
      BY <1>3 DEF PollCas, CasHead, record
    <2>2. /\ n # NoNode /\ next[h.node] = n /\ pos(h.node) < pos(tail)
          /\ head.node = h.node /\ head.opDesc = NoOp /\ n \in Op
      <3>1. n # NoNode /\ next[h.node] = n /\ pos(h.node) < pos(tail)
        BY <1>1 DEF HeadInv
      <3>2. QED
        BY <1>1, <1>3, <3>1, SharedTypes
    <2>3. Current(t) \in Op /\ Current(t)[1] = t /\ Current(t)[2] = calls[t] /\ calls[t] \in Nat
      BY <1>1, CurrentOp DEF CallInv, Current, TypeOK
    <2>4. /\ result' \in [Op -> Op \cup {None, Empty}]
          /\ \A o \in Op : result'[o] = result[o] \/ (o[1] = t /\ o[2] <= calls[t])
      BY <1>1, <2>1, <2>2, <2>3 DEF TypeOK
    <2>5. pc' \in [Thread -> PcLabels] /\ pc'[t] = "return"
          /\ \A u \in Thread \ {t} : pc'[u] = pc[u] /\ frame'[u] = frame[u]
      BY <1>1, <2>1 DEF Goto, TypeOK, PcLabels
    <2>6. head' \in NodeHead /\ head'.node = next[head.node] /\ head'.opDesc = NoOp
      BY <2>1, <2>2, Nulls DEF NodeHead
    <2>7. TypeOK'
      BY <1>1, <2>1, <2>4, <2>5, <2>6 DEF TypeOK
    <2>8. SharedInv' /\ Evolves(t)
      BY <1>1, <2>1, <2>2, <2>4, <2>6, <2>7, HeadStep
    <2>9. Allowed(t, "return")
      BY <1>1 DEF Allowed, WorkPc, EnqPc, DeqPc, FinPc, PollPc, AddPc
    <2>10. FrameInv(t)'
      BY <2>5, NoFrame
    <2>11. QED
      BY <1>1, <2>1, <2>5, <2>7, <2>8, <2>9, <2>10, WorkStep
  <1>4. QED
    BY <1>2, <1>3

-----------------------------------------------------------------------------
(* helpDeq                                                                 *)

\* The descriptor a thread is working on in helpDeq.
LEMMA DeqFacts ==
    ASSUME IInv, NEW t \in Thread, pc[t] \in DeqPc
    PROVE  LET o == target[t]
           IN  /\ o \in Op /\ desc[o] \in PNode /\ desc[o] # NoOp /\ kind[o] = "poll" /\ DeqInv(o)
               /\ o[2] <= calls[o[1]]
               /\ desc[o].pending \in {0, 1} /\ desc[o].node \in Node \cup {NoNode}
               /\ role[t] \in {"help", "self"} /\ pc[t] \in WorkPc /\ pc[t] # "announce"
               /\ \A l \in DeqPc \cup FinPc : Allowed(t, l) /\ l # "addSwing"
  <1>1. TypeOK /\ DescInv /\ RoleInv(t) /\ CallInv(t)
    BY Parts
  <1>2. role[t] \in {"help", "self"}
    BY <1>1, Roles
  <1>3. target[t] \in Op /\ desc[target[t]] # NoOp /\ kind[target[t]] = "poll"
    BY <1>1, <1>2 DEF CallInv, TypeOK
  <1>4. /\ desc[target[t]] \in PNode /\ desc[target[t]].pending \in {0, 1}
        /\ desc[target[t]].node \in Node \cup {NoNode}
    BY <1>1, <1>3, SharedTypes
  <1>5. DeqInv(target[t]) /\ target[t][2] <= calls[target[t][1]]
    BY <1>1, <1>3 DEF DescInv, Undone
  <1>6. pc[t] \in WorkPc /\ pc[t] # "announce"
    BY DEF WorkPc, DeqPc
  <1>7. \A l \in DeqPc \cup FinPc : Allowed(t, l) /\ l # "addSwing"
    BY <1>2, <1>3 DEF Allowed, WorkPc, EnqPc, DeqPc, FinPc, PollPc, AddPc
  <1>8. QED
    BY <1>2, <1>3, <1>4, <1>5, <1>6, <1>7

LEMMA DeqPNodeStep ==
    ASSUME IInv, Watch, NEW t \in Thread, DeqPNode(t)
    PROVE  IInv'
  <1> DEFINE o == target[t]
             p == desc[o]
             f == [frame[t] EXCEPT !.pNode = p]
  <1>1. /\ TypeOK /\ frame[t] \in Frame /\ pc[t] = "deqPNode" /\ pc[t] \in DeqPc
    BY Parts, FrameTypes DEF DeqPNode, DeqPc
  <1>2. /\ o \in Op /\ p \in PNode /\ DeqInv(o) /\ pc[t] \in WorkPc
        /\ Allowed(t, "deqHead") /\ p.pending \in {0, 1}
    <2>1. "deqHead" \in DeqPc \cup FinPc
      BY DEF DeqPc
    <2>2. QED
      BY <1>1, <2>1, DeqFacts
  <1>3. CASE p.pending # 1
    <2>1. Goto(t, Helped(t)) /\ UNCHANGED frame /\ UNCHANGED <<shared, record, history, control>>
      BY <1>3 DEF DeqPNode
    <2>2. QED
      BY <1>1, <2>1, QuietHelped
  <1>4. CASE p.pending = 1
    <2>1. f \in Frame /\ f.pNode = p
      BY <1>1, <1>2 DEF Frame
    <2>2. /\ Goto(t, "deqHead") /\ frame' = [frame EXCEPT ![t] = f]
          /\ UNCHANGED <<shared, record, history, control>>
      BY <1>4 DEF DeqPNode
    <2>3. ASSUME place' = place, pc'[t] = "deqHead", frame'[t] = f
          PROVE  FrameInv(t)'
      <3>1. head' = head /\ tail' = tail /\ desc' = desc /\ target' = target /\ frame'[t].pNode = p
        BY <2>1, <2>2, <2>3 DEF shared, control
      <3>2. Noted(p.node)
        BY <1>2 DEF DeqInv
      <3>3. PNodeInv(t)'
        BY <1>4, <2>3, <3>1, <3>2 DEF PNodeInv, Noted, pos, Listed
      <3>4. TailInv(t)' /\ HeadInv(t)'
        BY <2>3 DEF TailInv, HeadInv, TailRead, HeadRead
      <3>5. QED
        BY <3>3, <3>4 DEF FrameInv
    <2>4. QED
      BY <1>2, <2>1, <2>2, <2>3, LocalStep
  <1>5. QED
    BY <1>3, <1>4

LEMMA DeqHeadStep ==
    ASSUME IInv, Watch, NEW t \in Thread, DeqHead(t)
    PROVE  IInv'
  <1> DEFINE p == frame[t].pNode
             f == [frame[t] EXCEPT !.localHead = head, !.first = head.node]
  <1>1. /\ TypeOK /\ frame[t] \in Frame /\ pc[t] = "deqHead" /\ pc[t] \in DeqPc
        /\ head \in NodeHead /\ HeadPast(head) /\ head.node \in Node
        /\ PNodeInv(t) /\ pc[t] \in PNodeRead
    BY Parts, FrameTypes, HeadIsPast DEF DeqHead, DeqPc, PNodeRead
  <1>2. pc[t] \in WorkPc /\ Allowed(t, "deqTail")
    <2>1. "deqTail" \in DeqPc \cup FinPc
      BY DEF DeqPc
    <2>2. QED
      BY <1>1, <2>1, DeqFacts
  <1>3. f \in Frame /\ f.pNode = p /\ f.localHead = head /\ f.first = head.node
    BY <1>1 DEF Frame
  <1>4. /\ Goto(t, "deqTail") /\ frame' = [frame EXCEPT ![t] = f]
        /\ UNCHANGED <<shared, record, history, control>>
    BY <1>1 DEF DeqHead, TypeOK
  <1>5. ASSUME place' = place, pc'[t] = "deqTail", frame'[t] = f
        PROVE  FrameInv(t)'
    <2>1. /\ head' = head /\ tail' = tail /\ desc' = desc /\ target' = target
          /\ frame'[t].pNode = p /\ frame'[t].localHead = head /\ frame'[t].first = head.node
      BY <1>3, <1>4, <1>5 DEF shared, control
    <2>2. /\ p.pending = 1 /\ Noted(p.node)
          /\ p.node # NoNode => desc[target[t]] = p \/ Left(p.node, target[t])
          /\ desc[target[t]].pending = 1 /\ desc[target[t]].node = NoNode => desc[target[t]] = p
      BY <1>1 DEF PNodeInv
    <2>3. PNodeInv(t)'
      BY <1>5, <2>1, <2>2 DEF PNodeInv, Noted, Left, pos, Listed
    <2>4. HeadInv(t)'
      BY <1>1, <1>5, <2>1 DEF HeadInv, HeadPast, pos, Listed
    <2>5. TailInv(t)'
      BY <1>5 DEF TailInv, TailRead
    <2>6. QED
      BY <2>3, <2>4, <2>5 DEF FrameInv
  <1>6. QED
    BY <1>2, <1>3, <1>4, <1>5, LocalStep

LEMMA DeqTailStep ==
    ASSUME IInv, Watch, NEW t \in Thread, DeqTail(t)
    PROVE  IInv'
  <1> DEFINE p == frame[t].pNode
             h == frame[t].localHead
             f == [frame[t] EXCEPT !.last = tail]
  <1>1. /\ TypeOK /\ frame[t] \in Frame /\ pc[t] = "deqTail" /\ pc[t] \in DeqPc
        /\ h \in NodeHead /\ tail \in Node /\ Listed(tail)
        /\ PNodeInv(t) /\ HeadInv(t) /\ pc[t] \in PNodeRead
    BY Parts, FrameTypes DEF DeqTail, DeqPc, PNodeRead
  <1>2. pc[t] \in WorkPc /\ Allowed(t, "deqNext")
    <2>1. "deqNext" \in DeqPc \cup FinPc
      BY DEF DeqPc
    <2>2. QED
      BY <1>1, <2>1, DeqFacts
  <1>3. f \in Frame /\ f.pNode = p /\ f.localHead = h /\ f.first = frame[t].first /\ f.last = tail
    BY <1>1 DEF Frame
  <1>4. /\ Goto(t, "deqNext") /\ frame' = [frame EXCEPT ![t] = f]
        /\ UNCHANGED <<shared, record, history, control>>
    BY <1>1 DEF DeqTail, TypeOK
  <1>5. HeadPast(h) /\ pos(h.node) <= pos(tail) /\ pos(tail) <= pos(tail)
    <2>1. HeadPast(h)
      BY <1>1 DEF HeadInv, HeadRead
    <2>2. QED
      BY <1>1, <2>1, PastTail
  <1>6. ASSUME place' = place, pc'[t] = "deqNext", frame'[t] = f
        PROVE  FrameInv(t)'
    <2>1. /\ head' = head /\ tail' = tail /\ desc' = desc /\ target' = target
          /\ frame'[t].pNode = p /\ frame'[t].localHead = h /\ frame'[t].first = frame[t].first
          /\ frame'[t].last = tail
      BY <1>3, <1>4, <1>6 DEF shared, control
    <2>2. /\ p.pending = 1 /\ Noted(p.node)
          /\ p.node # NoNode => desc[target[t]] = p \/ Left(p.node, target[t])
          /\ desc[target[t]].pending = 1 /\ desc[target[t]].node = NoNode => desc[target[t]] = p
          /\ frame[t].first = h.node
          /\ p.node # NoNode => pos(p.node) <= pos(h.node) /\ pos(p.node) < pos(tail)
      BY <1>1 DEF PNodeInv, Noted
    <2>3. PNodeInv(t)'
      BY <1>6, <2>1, <2>2 DEF PNodeInv, Noted, Left, pos, Listed
    <2>4. HeadInv(t)'
      BY <1>5, <1>6, <2>1 DEF HeadInv, HeadPast, pos, Listed
    <2>5. TailInv(t)'
      BY <1>1, <1>5, <1>6, <2>1 DEF TailInv, pos, Listed
    <2>6. QED
      BY <2>3, <2>4, <2>5 DEF FrameInv
  <1>7. QED
    BY <1>2, <1>3, <1>4, <1>6, LocalStep

LEMMA DeqNextStep ==
    ASSUME IInv, Watch, NEW t \in Thread, DeqNext(t)
    PROVE  IInv'
  <1> DEFINE p == frame[t].pNode
             h == frame[t].localHead
             n == next[h.node]
             f == [frame[t] EXCEPT !.next = n]
  <1>1. /\ TypeOK /\ frame[t] \in Frame /\ pc[t] = "deqNext" /\ pc[t] \in DeqPc
        /\ h \in NodeHead /\ h.node \in Node
        /\ PNodeInv(t) /\ HeadInv(t) /\ TailInv(t) /\ pc[t] \in PNodeRead
    BY Parts, FrameTypes DEF DeqNext, DeqPc, PNodeRead
  <1>2. pc[t] \in WorkPc /\ Allowed(t, "deqCheck")
    <2>1. "deqCheck" \in DeqPc \cup FinPc
      BY DEF DeqPc
    <2>2. QED
      BY <1>1, <2>1, DeqFacts
  <1>3. n \in Node \cup {NoNode}
    BY <1>1, SharedTypes, Nulls
  <1>4. /\ f \in Frame /\ f.pNode = p /\ f.localHead = h /\ f.first = frame[t].first
        /\ f.last = frame[t].last /\ f.next = n
    BY <1>1, <1>3 DEF Frame
  <1>5. /\ Goto(t, "deqCheck") /\ frame' = [frame EXCEPT ![t] = f]
        /\ UNCHANGED <<shared, record, history, control>>
    BY <1>1 DEF DeqNext, TypeOK
  <1>6. ASSUME place' = place, pc'[t] = "deqCheck", frame'[t] = f
        PROVE  FrameInv(t)'
    <2>1. /\ head' = head /\ tail' = tail /\ next' = next /\ desc' = desc /\ target' = target
          /\ frame'[t].pNode = p /\ frame'[t].localHead = h /\ frame'[t].first = frame[t].first
          /\ frame'[t].last = frame[t].last /\ frame'[t].next = n
      BY <1>4, <1>5, <1>6 DEF shared, control
    <2>2. /\ p.pending = 1 /\ Noted(p.node)
          /\ p.node # NoNode => desc[target[t]] = p \/ Left(p.node, target[t])
          /\ desc[target[t]].pending = 1 /\ desc[target[t]].node = NoNode => desc[target[t]] = p
          /\ frame[t].first = h.node
          /\ p.node # NoNode => pos(p.node) <= pos(h.node) /\ pos(p.node) < pos(frame[t].last)
      BY <1>1 DEF PNodeInv
    <2>3. /\ HeadPast(h) /\ pos(h.node) <= pos(frame[t].last)
          /\ Listed(frame[t].last) /\ pos(frame[t].last) <= pos(tail)
      BY <1>1 DEF HeadInv, HeadRead, TailInv, TailRead
    <2>4. PNodeInv(t)'
      BY <1>6, <2>1, <2>2 DEF PNodeInv, Noted, Left, pos, Listed
    <2>5. HeadInv(t)'
      BY <1>6, <2>1, <2>3 DEF HeadInv, HeadPast, pos, Listed
    <2>6. TailInv(t)'
      BY <1>6, <2>1, <2>3 DEF TailInv, pos, Listed
    <2>7. QED
      BY <2>4, <2>5, <2>6 DEF FrameInv
  <1>7. QED
    BY <1>2, <1>4, <1>5, <1>6, LocalStep

LEMMA DeqCheckStep ==
    ASSUME IInv, Watch, NEW t \in Thread, DeqCheck(t)
    PROVE  IInv'
  <1> DEFINE f == frame[t]
             p == frame[t].pNode
             h == frame[t].localHead
             l == IF f.first = f.last THEN IF f.next = NoNode THEN "deqEmpty" ELSE "finTail"
                  ELSE IF h.opDesc # NoOp THEN "finHead"
                  ELSE IF f.first # p.node THEN "deqClaim" ELSE "deqStill"
  <1>1. /\ TypeOK /\ ListInv /\ f \in Frame /\ pc[t] = "deqCheck" /\ pc[t] \in DeqPc
        /\ h \in NodeHead /\ h.node \in Node /\ f.last \in Node /\ p.node \in Node \cup {NoNode}
        /\ f.first \in Node
        /\ PNodeInv(t) /\ HeadInv(t) /\ TailInv(t) /\ pc[t] \in PNodeRead
    BY Parts, FrameTypes DEF DeqCheck, DeqCheckIf, DeqPc, PNodeRead
  <1>2. pc[t] \in WorkPc /\ pc[t] # "announce" /\ l \in {"deqEmpty", "finTail", "finHead", "deqClaim", "deqStill"}
        /\ Allowed(t, l) /\ l # "addSwing"
    <2>1. l \in DeqPc \cup FinPc
      BY DEF DeqPc, FinPc
    <2>2. QED
      BY <1>1, <2>1, DeqFacts
  <1>3. CASE h # head
    <2>1. Again(t) /\ UNCHANGED <<shared, record, history, role, target>>
      BY <1>3 DEF DeqCheck, DeqCheckIf
    <2>2. QED
      BY <1>1, <1>2, <2>1, QuietAgain
  <1>4. CASE h = head
    <2>1. Goto(t, l) /\ UNCHANGED <<shared, record, history, control>> /\ frame' = frame
      BY <1>4 DEF DeqCheck, DeqCheckIf, control
    <2>2. frame' = [frame EXCEPT ![t] = f]
      BY <1>1, <2>1 DEF TypeOK
    <2>3. ASSUME place' = place, pc'[t] = l, frame'[t] = f
          PROVE  FrameInv(t)'
      <3>1. head' = head /\ tail' = tail /\ next' = next /\ desc' = desc /\ target' = target
        BY <2>1 DEF shared, control
      <3>2. CASE l \in {"finTail", "finHead"}
        BY <2>3, <3>2, NoFrame
      <3>3. CASE l \in {"deqEmpty", "deqClaim", "deqStill"}
        <4>1. /\ p.pending = 1 /\ Noted(p.node)
              /\ p.node # NoNode => desc[target[t]] = p \/ Left(p.node, target[t])
              /\ desc[target[t]].pending = 1 /\ desc[target[t]].node = NoNode => desc[target[t]] = p
              /\ f.first = h.node
              /\ p.node # NoNode => pos(p.node) <= pos(h.node) /\ pos(p.node) < pos(f.last)
          BY <1>1 DEF PNodeInv
        <4>2. /\ HeadPast(h) /\ pos(h.node) <= pos(f.last) /\ Listed(h.node)
              /\ Listed(f.last) /\ pos(f.last) <= pos(tail)
          BY <1>1 DEF HeadInv, HeadRead, HeadPast, TailInv, TailRead
        <4>3. l = "deqEmpty" /\ p.node # NoNode => pos(p.node) < pos(head.node)
          BY <1>4, <4>1
        <4>4. l = "deqClaim" => h.node # p.node /\ pos(h.node) < pos(tail)
          <5>1. l = "deqClaim" => h.node # p.node /\ h.node # f.last
            BY <4>1
          <5>2. /\ pos(h.node) \in Nat /\ pos(f.last) \in Nat /\ pos(tail) \in Nat
                /\ pos(h.node) = pos(f.last) => h.node = f.last
            BY <1>1, <4>2, Places, PastTail
          <5>3. QED
            BY <4>2, <5>1, <5>2
        <4>5. l = "deqStill" => f.first = p.node /\ p.node # NoNode
          BY <1>1, Nulls
        <4>6. PNodeInv(t)'
          BY <2>3, <3>1, <3>3, <4>1, <4>3, <4>4, <4>5 DEF PNodeInv, Noted, Left, pos, Listed
        <4>7. HeadInv(t)'
          BY <2>3, <3>1, <3>3, <4>2 DEF HeadInv, HeadPast, pos, Listed
        <4>8. TailInv(t)'
          BY <2>3, <3>3 DEF TailInv, TailRead
        <4>9. QED
          BY <4>6, <4>7, <4>8 DEF FrameInv
      <3>4. QED
        BY <1>2, <3>2, <3>3
    <2>4. QED
      BY <1>1, <1>2, <2>1, <2>2, <2>3, LocalStep
  <1>5. QED
    BY <1>3, <1>4

\* The descriptor of a poll notes another node, or is done.
LEMMA PollDescStep ==
    ASSUME IInv, Watch, NEW t \in Thread, NEW o \in Op, NEW p \in PNode, pc[t] \in WorkPc,
           UNCHANGED <<next, head, tail, state, tids, curTid, willHelp, nextCheck,
                       kind, calls, result, role, target>>,
           pc' \in [Thread -> PcLabels], frame' \in [Thread -> Frame],
           trials' \in [Thread -> 0 .. MAXFAILURES - 1],
           desc' = [desc EXCEPT ![o] = p], desc[o] # NoOp, kind[o] = "poll",
           desc[o].pending = 1, Noted(p.node), p.pending = 1 => p.node # NoNode,
           p.pending = 0 /\ p.node # NoNode => Left(p.node, o),
           \A n \in Node : desc[o].node = n => Left(n, o),
           head.opDesc = o => p.node = head.node
    PROVE  /\ TypeOK' /\ SharedInv' /\ Evolves(t) /\ place' = place /\ desc'[o] = p
           /\ Undone(Current(t)) => Undone(Current(t))'
  <1>1. TypeOK /\ SharedInv /\ ListInv /\ DescInv /\ Claimed /\ CallInv(t)
    BY Parts
  <1>2. place' = place /\ desc'[o] = p /\ p # NoOp
    BY <1>1, SamePlaces, Nulls DEF TypeOK
  <1>3. TypeOK'
    <2>1. desc' \in [Op -> PNode \cup {NoOp}]
      BY <1>1 DEF TypeOK
    <2>2. QED
      BY <1>1, <2>1 DEF TypeOK
  <1>4. \A n \in Node : desc[o].node = n => Left(n, o)'
    BY <1>2 DEF Left, pos
  <1>5. DescMoves(o)
    BY <1>1, <1>2, <1>4, Nulls DEF DescMoves, Claimed
  <1>6. /\ desc[o] = NoOp => o[1] = t /\ place[o] = 0
        /\ desc[o] # NoOp => DescMoves(o)
        /\ kind[o] = "add" => IF p.pending = 1 THEN place[o] # 0 => next[tail] = o
                                               ELSE place[o] # 0
        /\ kind[o] = "poll" => /\ Noted(p.node)
                               /\ p.pending = 0 /\ p.node # NoNode => Left(p.node, o)
        /\ head.opDesc = o => p.node = head.node
    BY <1>5
  <1>7. o[2] <= calls[o[1]]
    BY <1>1 DEF DescInv, Undone
  <1>8. SharedInv' /\ Evolves(t)
    BY <1>1, <1>3, <1>6, <1>7, DescStep
  <1>9. Undone(Current(t)) => Undone(Current(t))'
    <2>1. Current(t) # o \/ ~Undone(Current(t))
      BY DEF Undone
    <2>2. Current(t) # o => desc'[Current(t)] = desc[Current(t)]
      BY <1>1 DEF TypeOK
    <2>3. QED
      BY <1>2, <2>1, <2>2 DEF Undone, Current
  <1>10. QED
    BY <1>2, <1>3, <1>8, <1>9

LEMMA DeqEmptyStep ==
    ASSUME IInv, Watch, NEW t \in Thread, DeqEmpty(t)
    PROVE  IInv'
  <1> DEFINE f == frame[t]
             p == frame[t].pNode
  <1>1. /\ TypeOK /\ f \in Frame /\ pc[t] = "deqEmpty" /\ pc[t] \in DeqPc
        /\ PNodeInv(t) /\ pc[t] \in PNodeRead
    BY Parts, FrameTypes DEF DeqEmpty, DeqPc, PNodeRead
  <1>2. pc[t] \in WorkPc /\ pc[t] # "announce" /\ Allowed(t, "deqNull")
    <2>1. "deqNull" \in DeqPc \cup FinPc
      BY DEF DeqPc
    <2>2. QED
      BY <1>1, <2>1, DeqFacts
  <1>3. CASE f.last # tail
    <2>1. Again(t) /\ UNCHANGED <<shared, record, history, role, target>>
      BY <1>3 DEF DeqEmpty
    <2>2. QED
      BY <1>1, <1>2, <2>1, QuietAgain
  <1>4. CASE f.last = tail
    <2>1. /\ Goto(t, "deqNull") /\ UNCHANGED <<shared, record, history, control>>
          /\ frame' = [frame EXCEPT ![t] = f]
      BY <1>1, <1>4 DEF DeqEmpty, control, TypeOK
    <2>2. ASSUME place' = place, pc'[t] = "deqNull", frame'[t] = f
          PROVE  FrameInv(t)'
      <3>1. head' = head /\ tail' = tail /\ desc' = desc /\ target' = target
        BY <2>1 DEF shared, control
      <3>2. PNodeInv(t)'
        BY <1>1, <2>2, <3>1 DEF PNodeInv, PNodeRead, DeqPc, Noted, Left, pos, Listed
      <3>3. TailInv(t)' /\ HeadInv(t)'
        BY <2>2 DEF TailInv, HeadInv, TailRead, HeadRead
      <3>4. QED
        BY <3>2, <3>3 DEF FrameInv
    <2>3. QED
      BY <1>1, <1>2, <2>1, <2>2, LocalStep
  <1>5. QED
    BY <1>3, <1>4

\* The descriptor is done with the answer "empty", unless another helper was
\* there before.
LEMMA DeqNullStep ==
    ASSUME IInv, Watch, NEW t \in Thread, DeqNull(t)
    PROVE  IInv'
  <1> DEFINE o == target[t]
             q == frame[t].pNode
             p == [node |-> NoNode, pending |-> 0]
  <1>1. /\ TypeOK /\ SharedInv /\ ListInv /\ Claimed /\ pc[t] = "deqNull" /\ pc[t] \in DeqPc
        /\ q.node \in Node \cup {NoNode} /\ head.node \in Node
        /\ PNodeInv(t) /\ pc[t] \in PNodeRead
    BY Parts, FrameTypes DEF DeqNull, DeqPc, PNodeRead
  <1>2. /\ o \in Op /\ desc[o] # NoOp /\ kind[o] = "poll"
        /\ pc[t] \in WorkPc /\ pc[t] # "announce"
    BY <1>1, DeqFacts
  <1>3. q.pending = 1 /\ (q.node # NoNode => pos(q.node) < pos(head.node))
    BY <1>1 DEF PNodeInv
  <1>4. CASE desc[o] # q
    <2>1. Again(t) /\ UNCHANGED <<shared, record, history, role, target>>
      BY <1>4 DEF DeqNull, CasPNode, shared
    <2>2. QED
      BY <1>1, <1>2, <2>1, QuietAgain
  <1>5. CASE desc[o] = q
    <2>1. /\ desc' = [desc EXCEPT ![o] = p] /\ Goto(t, Helped(t)) /\ Forget(t)
          /\ UNCHANGED <<next, head, tail, state, tids, curTid, willHelp, nextCheck,
                         kind, calls, result, role, target, trials>>
      BY <1>5 DEF DeqNull, CasPNode, record, history
    <2>2. p \in PNode /\ p.pending = 0 /\ p.node = NoNode
      BY PNodes
    <2>3. Helped(t) \in {"resetTid", "return"} /\ Allowed(t, Helped(t))
      BY <1>1, HelpedAllowed
    <2>4. /\ pc' \in [Thread -> PcLabels] /\ pc'[t] = Helped(t)
          /\ \A u \in Thread \ {t} : pc'[u] = pc[u] /\ frame'[u] = frame[u]
      BY <1>1, <2>1, <2>3 DEF Goto, Forget, TypeOK, PcLabels
    <2>5. frame' \in [Thread -> Frame] /\ trials' \in [Thread -> 0 .. MAXFAILURES - 1]
      BY <1>1, <2>1, FrameUpdates DEF Forget, TypeOK
    <2>6. desc[o].pending = 1 /\ Noted(p.node)
      BY <1>3, <1>5, <2>2 DEF Noted
    <2>7. \A n \in Node : desc[o].node = n => Left(n, o)
      BY <1>3, <1>5, Nulls DEF Left
    <2>8. head.opDesc = o => p.node = head.node
      <3>1. head.opDesc = o => q.node = head.node
        BY <1>1, <1>2, <1>5, Nulls DEF Claimed
      <3>2. head.node # NoNode /\ pos(head.node) \in Nat
        BY <1>1, Places, Nulls
      <3>3. QED
        BY <1>3, <3>1, <3>2
    <2>9. /\ TypeOK' /\ SharedInv' /\ Evolves(t)
          /\ Undone(Current(t)) => Undone(Current(t))'
      <3>1. /\ p.pending = 1 => p.node # NoNode
            /\ p.pending = 0 /\ p.node # NoNode => Left(p.node, o)
        BY <2>2
      <3>2. QED
        BY <1>2, <2>1, <2>2, <2>4, <2>5, <2>6, <2>7, <2>8, <3>1, PollDescStep
    <2>10. FrameInv(t)' /\ pc'[t] # "addSwing"
      BY <2>3, <2>4, NoFrame
    <2>11. QED
      BY <1>2, <2>1, <2>3, <2>4, <2>9, <2>10, WorkStep
  <1>6. QED
    BY <1>4, <1>5

\* The descriptor notes the node of the head that was read, unless another
\* helper was there before.
LEMMA DeqClaimStep ==
    ASSUME IInv, Watch, NEW t \in Thread, DeqClaim(t)
    PROVE  IInv'
  <1> DEFINE o == target[t]
             q == frame[t].pNode
             h == frame[t].localHead
             p == [node |-> h.node, pending |-> 1]
  <1>1. /\ TypeOK /\ SharedInv /\ ListInv /\ Claimed /\ pc[t] = "deqClaim" /\ pc[t] \in DeqPc
        /\ q.node \in Node \cup {NoNode} /\ head.node \in Node /\ h \in NodeHead /\ h.node \in Node
        /\ PNodeInv(t) /\ HeadInv(t) /\ pc[t] \in PNodeRead /\ frame[t] \in Frame
    BY Parts, FrameTypes DEF DeqClaim, DeqPc, PNodeRead
  <1>2. /\ o \in Op /\ desc[o] # NoOp /\ desc[o] \in PNode /\ kind[o] = "poll"
        /\ pc[t] \in WorkPc /\ Allowed(t, "deqReread")
    <2>1. "deqReread" \in DeqPc \cup FinPc
      BY DEF DeqPc
    <2>2. QED
      BY <1>1, <2>1, DeqFacts
  <1>3. /\ q.pending = 1 /\ Noted(q.node)
        /\ desc[o].pending = 1 /\ desc[o].node = NoNode => desc[o] = q
        /\ q.node # NoNode => pos(q.node) <= pos(h.node)
        /\ h.node # q.node /\ pos(h.node) < pos(tail)
    BY <1>1 DEF PNodeInv
  <1>4. Goto(t, "deqReread") /\ frame' = [frame EXCEPT ![t] = frame[t]]
    BY <1>1 DEF DeqClaim, TypeOK
  <1>5. CASE desc[o] # q
    <2>1. UNCHANGED <<shared, record, history, control>>
      BY <1>5 DEF DeqClaim, CasPNode, shared
    <2>2. ASSUME place' = place, pc'[t] = "deqReread", frame'[t] = frame[t]
          PROVE  FrameInv(t)'
      <3>1. desc' = desc /\ target' = target
        BY <2>1 DEF shared, control
      <3>2. desc[o].pending = 1 => desc[o].node # NoNode
        BY <1>3, <1>5
      <3>3. PNodeInv(t)'
        BY <2>2, <3>1, <3>2 DEF PNodeInv, PNodeRead
      <3>4. TailInv(t)' /\ HeadInv(t)'
        BY <2>2 DEF TailInv, HeadInv, TailRead, HeadRead
      <3>5. QED
        BY <3>3, <3>4 DEF FrameInv
    <2>3. QED
      BY <1>1, <1>2, <1>4, <2>1, <2>2, LocalStep
  <1>6. CASE desc[o] = q
    <2>1. /\ desc' = [desc EXCEPT ![o] = p] /\ frame' = frame /\ trials' = trials
          /\ UNCHANGED <<next, head, tail, state, tids, curTid, willHelp, nextCheck,
                         kind, calls, result, role, target>>
      BY <1>6 DEF DeqClaim, CasPNode, record, history, control
    <2>2. p \in PNode /\ p.pending = 1 /\ p.node = h.node /\ h.node # NoNode
      BY <1>1, PNodes, Nulls
    <2>3. /\ pc' \in [Thread -> PcLabels] /\ pc'[t] = "deqReread"
          /\ \A u \in Thread \ {t} : pc'[u] = pc[u] /\ frame'[u] = frame[u]
          /\ frame' \in [Thread -> Frame] /\ trials' \in [Thread -> 0 .. MAXFAILURES - 1]
      BY <1>1, <1>4, <2>1 DEF Goto, TypeOK, PcLabels
    <2>4. HeadPast(h) /\ Listed(h.node) /\ pos(h.node) <= pos(head.node)
          /\ pos(h.node) \in Nat /\ pos(head.node) \in Nat
      <3>1. HeadPast(h)
        BY <1>1 DEF HeadInv, HeadRead
      <3>2. QED
        BY <1>1, <3>1, PastTail
    <2>5. desc[o].pending = 1 /\ Noted(p.node)
      BY <1>3, <1>6, <2>2, <2>4 DEF Noted
    <2>6. q.node # NoNode => pos(q.node) < pos(head.node)
      <3>1. q.node # NoNode => Listed(q.node) /\ q.node \in Node /\ pos(q.node) \in Nat
        BY <1>1, <1>3, Places DEF Noted
      <3>2. q.node # NoNode => pos(q.node) # pos(h.node)
        BY <1>1, <1>3, <2>4, <3>1, Places
      <3>3. QED
        BY <1>3, <2>4, <3>1, <3>2
    <2>7. \A n \in Node : desc[o].node = n => Left(n, o)
      BY <1>6, <2>6, Nulls DEF Left
    <2>8. head.opDesc = o => p.node = head.node
      <3>1. head.opDesc = o => q.node = head.node
        BY <1>1, <1>2, <1>6, Nulls DEF Claimed
      <3>2. head.node # NoNode
        BY <1>1, Nulls
      <3>3. QED
        BY <2>4, <2>6, <3>1, <3>2
    <2>9. /\ TypeOK' /\ SharedInv' /\ Evolves(t) /\ desc'[o] = p
          /\ Undone(Current(t)) => Undone(Current(t))'
      <3>1. /\ p.pending = 1 => p.node # NoNode
            /\ p.pending = 0 /\ p.node # NoNode => Left(p.node, o)
        BY <2>2
      <3>2. QED
        BY <1>2, <2>1, <2>2, <2>3, <2>5, <2>7, <2>8, <3>1, PollDescStep
    <2>10. FrameInv(t)'
      <3>1. PNodeInv(t)'
        BY <2>1, <2>2, <2>3, <2>9 DEF PNodeInv, PNodeRead
      <3>2. TailInv(t)' /\ HeadInv(t)'
        BY <2>3 DEF TailInv, HeadInv, TailRead, HeadRead
      <3>3. QED
        BY <3>1, <3>2 DEF FrameInv
    <2>11. QED
      BY <1>2, <2>1, <2>3, <2>9, <2>10, WorkStep
  <1>7. QED
    BY <1>5, <1>6

LEMMA DeqRereadStep ==
    ASSUME IInv, Watch, NEW t \in Thread, DeqReread(t)
    PROVE  IInv'
  <1> DEFINE o == target[t]
             p == desc[o]
             f == [frame[t] EXCEPT !.pNode = p, !.first = p.node]
  <1>1. /\ TypeOK /\ frame[t] \in Frame /\ PNodeInv(t) /\ pc[t] = "deqReread" /\ pc[t] \in DeqPc
    BY Parts, FrameTypes DEF DeqReread, DeqPc
  <1>2. /\ o \in Op /\ p \in PNode /\ DeqInv(o) /\ p.node \in Node \cup {NoNode}
        /\ pc[t] \in WorkPc /\ Allowed(t, "deqStill")
    <2>1. "deqStill" \in DeqPc \cup FinPc
      BY DEF DeqPc
    <2>2. QED
      BY <1>1, <2>1, DeqFacts
  <1>3. CASE p.pending # 1
    <2>1. Goto(t, Helped(t)) /\ Forget(t) /\ UNCHANGED <<shared, record, history, control>>
      BY <1>3 DEF DeqReread
    <2>2. QED
      BY <1>1, <2>1, QuietHelped
  <1>4. CASE p.pending = 1
    <2>1. p.node # NoNode
      BY <1>1, <1>4 DEF PNodeInv
    <2>2. f \in Frame /\ f.pNode = p /\ f.first = p.node
      BY <1>1, <1>2, <2>1 DEF Frame
    <2>3. /\ Goto(t, "deqStill") /\ frame' = [frame EXCEPT ![t] = f]
          /\ UNCHANGED <<shared, record, history, control>>
      BY <1>1, <1>4 DEF DeqReread, TypeOK
    <2>4. ASSUME place' = place, pc'[t] = "deqStill", frame'[t] = f
          PROVE  FrameInv(t)'
      <3>1. /\ head' = head /\ tail' = tail /\ desc' = desc /\ target' = target
            /\ frame'[t].pNode = p /\ frame'[t].first = p.node
        BY <2>2, <2>3, <2>4 DEF shared, control
      <3>2. Noted(p.node)
        BY <1>2 DEF DeqInv
      <3>3. PNodeInv(t)'
        BY <1>4, <2>1, <2>4, <3>1, <3>2 DEF PNodeInv, Noted, pos, Listed
      <3>4. TailInv(t)' /\ HeadInv(t)'
        BY <2>4 DEF TailInv, HeadInv, TailRead, HeadRead
      <3>5. QED
        BY <3>3, <3>4 DEF FrameInv
    <2>5. QED
      BY <1>2, <2>2, <2>3, <2>4, LocalStep
  <1>5. QED
    BY <1>3, <1>4

LEMMA DeqStillStep ==
    ASSUME IInv, Watch, NEW t \in Thread, DeqStill(t)
    PROVE  IInv'
  <1> DEFINE f == frame[t]
             p == frame[t].pNode
             l == IF frame[t].localHead = head THEN "deqCas" ELSE "finHead"
  <1>1. /\ TypeOK /\ f \in Frame /\ PNodeInv(t) /\ pc[t] = "deqStill" /\ pc[t] \in DeqPc
        /\ pc[t] \in PNodeRead
    BY Parts, FrameTypes DEF DeqStill, DeqPc, PNodeRead
  <1>2. pc[t] \in WorkPc /\ Allowed(t, l) /\ l # "addSwing"
    <2>1. l \in DeqPc \cup FinPc
      BY DEF DeqPc, FinPc
    <2>2. QED
      BY <1>1, <2>1, DeqFacts
  <1>3. /\ Goto(t, l) /\ frame' = [frame EXCEPT ![t] = f]
        /\ UNCHANGED <<shared, record, history, control>>
    BY <1>1 DEF DeqStill, TypeOK
  <1>4. ASSUME place' = place, pc'[t] = l, frame'[t] = f
        PROVE  FrameInv(t)'
    <2>1. CASE l = "finHead"
      BY <1>4, <2>1, NoFrame
    <2>2. CASE l = "deqCas"
      <3>1. head' = head /\ tail' = tail /\ desc' = desc /\ target' = target
        BY <1>3 DEF shared, control
      <3>2. /\ p.pending = 1 /\ Noted(p.node) /\ f.first = p.node /\ p.node # NoNode
            /\ p.node # NoNode => desc[target[t]] = p \/ Left(p.node, target[t])
            /\ desc[target[t]].pending = 1 /\ desc[target[t]].node = NoNode => desc[target[t]] = p
        BY <1>1 DEF PNodeInv
      <3>3. PNodeInv(t)'
        BY <1>4, <2>2, <3>1, <3>2 DEF PNodeInv, Noted, Left, pos, Listed
      <3>4. TailInv(t)' /\ HeadInv(t)'
        BY <1>4, <2>2 DEF TailInv, HeadInv, TailRead, HeadRead
      <3>5. QED
        BY <3>3, <3>4 DEF FrameInv
    <2>3. QED
      BY <2>1, <2>2
  <1>5. QED
    BY <1>1, <1>2, <1>3, <1>4, LocalStep

\* The descriptor goes into the head: it still notes the head's node.
LEMMA DeqCasStep ==
    ASSUME IInv, Watch, NEW t \in Thread, DeqCas(t)
    PROVE  IInv'
  <1> DEFINE o == target[t]
             n == frame[t].first
  <1>1. /\ TypeOK /\ SharedInv /\ ListInv /\ CallInv(t) /\ PNodeInv(t) /\ frame[t] \in Frame
        /\ n \in Node /\ pc[t] = "deqCas" /\ pc[t] \in DeqPc /\ pc[t] \in PNodeRead
    BY Parts, FrameTypes DEF DeqCas, DeqPc, PNodeRead
  <1>2. /\ o \in Op /\ desc[o] # NoOp /\ desc[o] \in PNode /\ kind[o] = "poll"
        /\ pc[t] \in WorkPc /\ Allowed(t, "finHead")
    <2>1. "finHead" \in DeqPc \cup FinPc
      BY DEF FinPc
    <2>2. QED
      BY <1>1, <2>1, DeqFacts
  <1>3. CASE head # [node |-> n, opDesc |-> NoOp]
    <2>1. /\ Goto(t, "finHead") /\ frame' = [frame EXCEPT ![t] = frame[t]]
          /\ UNCHANGED <<shared, record, history, control>>
      BY <1>1, <1>3 DEF DeqCas, CasHead, shared, TypeOK
    <2>2. ASSUME pc'[t] = "finHead"
          PROVE  FrameInv(t)'
      BY <2>2, NoFrame
    <2>3. QED
      BY <1>1, <1>2, <2>1, <2>2, LocalStep
  <1>4. CASE head = [node |-> n, opDesc |-> NoOp]
    <2>1. /\ head' = [node |-> n, opDesc |-> o] /\ Goto(t, "finHead")
          /\ UNCHANGED <<next, tail, state, desc, tids, curTid, willHelp, nextCheck,
                         kind, calls, result, role, target, trials, frame>>
      BY <1>4 DEF DeqCas, CasHead, record, history, control
    <2>2. /\ head.node = n /\ head.opDesc = NoOp /\ head'.node = n /\ head'.opDesc = o
          /\ head' \in NodeHead
      BY <1>1, <1>2, <1>4, <2>1 DEF NodeHead
    <2>3. desc[o].node = n /\ pos(n) < pos(tail)
      <3> DEFINE p == frame[t].pNode
      <3>1. /\ Noted(p.node) /\ n = p.node /\ p.node # NoNode
            /\ desc[o] = p \/ Left(p.node, o)
        BY <1>1 DEF PNodeInv
      <3>2. ~Left(n, o)
        <4>1. pos(n) \in Nat
          BY <1>1, Places
        <4>2. QED
          BY <1>2, <2>2, <4>1, Nulls DEF Left
      <3>3. QED
        BY <3>1, <3>2 DEF Noted
    <2>4. pc' \in [Thread -> PcLabels] /\ pc'[t] = "finHead"
          /\ \A u \in Thread \ {t} : pc'[u] = pc[u] /\ frame'[u] = frame[u]
      BY <1>1, <2>1 DEF Goto, TypeOK, PcLabels
    <2>5. TypeOK'
      BY <1>1, <2>1, <2>2, <2>4 DEF TypeOK
    <2>6. SharedInv' /\ Evolves(t)
      <3>1. /\ head.opDesc = NoOp /\ head'.node = head.node /\ head'.opDesc \in Op
            /\ desc[head'.opDesc] # NoOp /\ desc[head'.opDesc].node = head.node
            /\ kind[head'.opDesc] = "poll"
        BY <1>2, <2>2, <2>3
      <3>2. \A q \in Op : result'[q] = result[q] \/ (q[1] = t /\ q[2] <= calls[t])
        BY <2>1
      <3>3. QED
        BY <1>1, <2>1, <2>2, <2>3, <2>5, <3>1, <3>2, HeadStep
    <2>7. Undone(Current(t)) => Undone(Current(t))'
      <3>1. place' = place
        BY <1>1, <2>1, SamePlaces
      <3>2. QED
        BY <2>1, <3>1 DEF Undone, Current
    <2>8. FrameInv(t)'
      BY <2>4, NoFrame
    <2>9. QED
      BY <1>2, <2>1, <2>4, <2>5, <2>6, <2>7, <2>8, WorkStep
  <1>5. QED
    BY <1>3, <1>4

-----------------------------------------------------------------------------
(* helpFinishDeq                                                           *)

\* A thread may be in helpFinishDeq in every role.
LEMMA FinAllowed ==
    ASSUME IInv, NEW t \in Thread, pc[t] \in FinPc
    PROVE  /\ pc[t] \in WorkPc /\ pc[t] # "announce"
           /\ \A l \in FinPc : Allowed(t, l) /\ l # "addSwing"
  BY DEF Allowed, WorkPc, EnqPc, DeqPc, FinPc, PollPc, AddPc

LEMMA FinHeadStep ==
    ASSUME IInv, Watch, NEW t \in Thread, FinHead(t)
    PROVE  IInv'
  <1> DEFINE f == [frame[t] EXCEPT !.localHead = head]
  <1>1. /\ TypeOK /\ EndsInv /\ Claimed /\ frame[t] \in Frame /\ pc[t] = "finHead" /\ pc[t] \in FinPc
        /\ head \in NodeHead /\ HeadPast(head) /\ head.opDesc \in Op \cup {NoOp}
    BY Parts, FrameTypes, HeadIsPast, SharedTypes DEF FinHead, FinPc
  <1>2. pc[t] \in WorkPc /\ pc[t] # "announce" /\ Allowed(t, "finHeadNext")
    <2>1. "finHeadNext" \in FinPc
      BY DEF FinPc
    <2>2. QED
      BY <1>1, <2>1, FinAllowed
  <1>3. CASE head.opDesc = NoOp
    <2>1. Again(t) /\ UNCHANGED <<shared, record, history, role, target>>
      BY <1>3 DEF FinHead
    <2>2. QED
      BY <1>1, <1>2, <2>1, QuietAgain
  <1>4. CASE head.opDesc # NoOp
    <2>1. f \in Frame /\ f.localHead = head
      BY <1>1 DEF Frame
    <2>2. /\ Goto(t, "finHeadNext") /\ frame' = [frame EXCEPT ![t] = f]
          /\ UNCHANGED <<shared, record, history, control>>
      BY <1>1, <1>4 DEF FinHead, control, TypeOK
    <2>3. Taken(head)
      BY <1>1, <1>4 DEF Taken, EndsInv, Claimed
    <2>4. ASSUME place' = place, pc'[t] = "finHeadNext", frame'[t] = f
          PROVE  FrameInv(t)'
      <3>1. /\ head' = head /\ tail' = tail /\ desc' = desc /\ kind' = kind
            /\ frame'[t].localHead = head
        BY <2>1, <2>2, <2>4 DEF shared, history
      <3>2. HeadInv(t)'
        BY <1>1, <2>3, <2>4, <3>1 DEF HeadInv, HeadPast, Taken, pos, Listed
      <3>3. QED
        BY <2>4, <3>2, HeadFrame
    <2>5. QED
      BY <1>2, <2>1, <2>2, <2>4, LocalStep
  <1>5. QED
    BY <1>3, <1>4

LEMMA FinHeadNextStep ==
    ASSUME IInv, Watch, NEW t \in Thread, FinHeadNext(t)
    PROVE  IInv'
  <1> DEFINE h == frame[t].localHead
             n == next[h.node]
             f == [frame[t] EXCEPT !.next = n]
  <1>1. /\ TypeOK /\ HeadInv(t) /\ frame[t] \in Frame /\ pc[t] = "finHeadNext" /\ pc[t] \in FinPc
        /\ h \in NodeHead /\ h.node \in Node
    BY Parts, FrameTypes DEF FinHeadNext, FinPc
  <1>2. pc[t] \in WorkPc /\ Allowed(t, "finRead")
    <2>1. "finRead" \in FinPc
      BY DEF FinPc
    <2>2. QED
      BY <1>1, <2>1, FinAllowed
  <1>3. n \in Node \cup {NoNode}
    BY <1>1, SharedTypes, Nulls
  <1>4. f \in Frame /\ f.localHead = h /\ f.next = n
    BY <1>1, <1>3 DEF Frame
  <1>5. /\ Goto(t, "finRead") /\ frame' = [frame EXCEPT ![t] = f]
        /\ UNCHANGED <<shared, record, history, control>>
    BY <1>1 DEF FinHeadNext, TypeOK
  <1>6. HeadPast(h) /\ Taken(h)
    BY <1>1 DEF HeadInv, HeadRead
  <1>7. ASSUME place' = place, pc'[t] = "finRead", frame'[t] = f
        PROVE  FrameInv(t)'
    <2>1. /\ head' = head /\ next' = next /\ desc' = desc /\ kind' = kind
          /\ frame'[t].localHead = h /\ frame'[t].next = n
      BY <1>4, <1>5, <1>7 DEF shared, history
    <2>2. HeadInv(t)'
      BY <1>6, <1>7, <2>1 DEF HeadInv, HeadPast, Taken, pos, Listed
    <2>3. QED
      BY <1>7, <2>2, HeadFrame
  <1>8. QED
    BY <1>2, <1>4, <1>5, <1>7, LocalStep

LEMMA FinReadStep ==
    ASSUME IInv, Watch, NEW t \in Thread, FinRead(t)
    PROVE  IInv'
  <1> DEFINE h == frame[t].localHead
             p == desc[h.opDesc]
             f == [frame[t] EXCEPT !.pNode = p]
             l == IF p.pending = 1 THEN "finDone" ELSE "finDeq"
  <1>1. /\ TypeOK /\ HeadInv(t) /\ frame[t] \in Frame /\ pc[t] = "finRead" /\ pc[t] \in FinPc
        /\ h \in NodeHead /\ h.node \in Node /\ h.opDesc \in Op \cup {NoOp}
    BY Parts, FrameTypes DEF FinRead, FinPc
  <1>2. pc[t] \in WorkPc /\ Allowed(t, l) /\ l # "addSwing"
    <2>1. l \in FinPc
      BY DEF FinPc
    <2>2. QED
      BY <1>1, <2>1, FinAllowed
  <1>3. HeadPast(h) /\ Taken(h) /\ (frame[t].next = NoNode \/ next[h.node] = frame[t].next)
    BY <1>1 DEF HeadInv, HeadRead
  <1>4. /\ p \in PNode /\ p.pending \in {0, 1} /\ p.node = h.node
        /\ p = [node |-> p.node, pending |-> p.pending]
    <2>1. h.opDesc \in Op /\ p # NoOp /\ p.node = h.node
      BY <1>1, <1>3 DEF Taken
    <2>2. p \in PNode /\ p.pending \in {0, 1}
      BY <1>1, <2>1, SharedTypes
    <2>3. QED
      BY <2>1, <2>2, PNodes
  <1>5. f \in Frame /\ f.localHead = h /\ f.pNode = p /\ f.next = frame[t].next
    BY <1>1, <1>4 DEF Frame
  <1>6. /\ Goto(t, l) /\ frame' = [frame EXCEPT ![t] = f]
        /\ UNCHANGED <<shared, record, history, control>>
    BY <1>1 DEF FinRead, TypeOK
  <1>7. ASSUME place' = place, pc'[t] = l, frame'[t] = f
        PROVE  FrameInv(t)'
    <2>1. /\ head' = head /\ next' = next /\ desc' = desc /\ kind' = kind
          /\ frame'[t].localHead = h /\ frame'[t].pNode = p /\ frame'[t].next = frame[t].next
      BY <1>5, <1>6, <1>7 DEF shared, history
    <2>2. l = "finDone" => p = [node |-> h.node, pending |-> 1]
      BY <1>4
    <2>3. l = "finDeq" => p.pending = 0
      BY <1>4
    <2>4. HeadInv(t)'
      BY <1>3, <1>7, <2>1, <2>2, <2>3 DEF HeadInv, HeadPast, Taken, pos, Listed
    <2>5. QED
      BY <1>7, <2>4, HeadFrame
  <1>8. QED
    BY <1>2, <1>5, <1>6, <1>7, LocalStep

\* The poll whose descriptor is in the head is done.
LEMMA FinDoneStep ==
    ASSUME IInv, Watch, NEW t \in Thread, FinDone(t)
    PROVE  IInv'
  <1> DEFINE h == frame[t].localHead
             o == h.opDesc
             q == frame[t].pNode
             p == [node |-> h.node, pending |-> 0]
  <1>1. /\ TypeOK /\ SharedInv /\ ListInv /\ DescInv /\ HeadInv(t) /\ frame[t] \in Frame
        /\ pc[t] = "finDone" /\ pc[t] \in FinPc
        /\ h \in NodeHead /\ h.node \in Node /\ h.opDesc \in Op \cup {NoOp}
    BY Parts, FrameTypes DEF FinDone, FinPc
  <1>2. pc[t] \in WorkPc /\ Allowed(t, "finDeq")
    <2>1. "finDeq" \in FinPc
      BY DEF FinPc
    <2>2. QED
      BY <1>1, <2>1, FinAllowed
  <1>3. /\ HeadPast(h) /\ Taken(h) /\ (frame[t].next = NoNode \/ next[h.node] = frame[t].next)
        /\ q = [node |-> h.node, pending |-> 1]
    BY <1>1 DEF HeadInv, HeadRead
  <1>4. /\ o \in Op /\ desc[o] # NoOp /\ kind[o] = "poll" /\ desc[o].node = h.node
        /\ desc[o] \in PNode /\ DeqInv(o) /\ desc[o].pending \in {0, 1}
        /\ h # head => desc[o].pending = 0
        /\ desc[o] = [node |-> desc[o].node, pending |-> desc[o].pending]
    <2>1. /\ o \in Op /\ desc[o] # NoOp /\ kind[o] = "poll" /\ desc[o].node = h.node
          /\ h # head => desc[o].pending = 0
      BY <1>1, <1>3 DEF Taken
    <2>2. desc[o] \in PNode /\ DeqInv(o) /\ desc[o].pending \in {0, 1}
      BY <1>1, <2>1, SharedTypes DEF DescInv
    <2>3. QED
      BY <2>1, <2>2, PNodes
  <1>5. CASE desc[o] # q
    <2>1. /\ Goto(t, "finDeq") /\ frame' = [frame EXCEPT ![t] = frame[t]]
          /\ UNCHANGED <<shared, record, history, control>>
      BY <1>1, <1>5 DEF FinDone, CasPNode, shared, TypeOK
    <2>2. desc[o].pending = 0
      BY <1>3, <1>4, <1>5
    <2>3. ASSUME place' = place, pc'[t] = "finDeq", frame'[t] = frame[t]
          PROVE  FrameInv(t)'
      <3>1. head' = head /\ next' = next /\ desc' = desc /\ kind' = kind
        BY <2>1 DEF shared, history
      <3>2. HeadInv(t)'
        BY <1>3, <2>2, <2>3, <3>1 DEF HeadInv, HeadPast, Taken, pos, Listed
      <3>3. QED
        BY <2>3, <3>2, HeadFrame
    <2>4. QED
      BY <1>1, <1>2, <2>1, <2>3, LocalStep
  <1>6. CASE desc[o] = q
    <2>1. /\ desc' = [desc EXCEPT ![o] = p] /\ Goto(t, "finDeq")
          /\ UNCHANGED <<next, head, tail, state, tids, curTid, willHelp, nextCheck,
                         kind, calls, result, role, target, trials, frame>>
      BY <1>3, <1>6 DEF FinDone, CasPNode, record, history, control
    <2>2. p \in PNode /\ p.pending = 0 /\ p.node = h.node
      BY <1>1, PNodes
    <2>3. desc[o].pending = 1 /\ h = head /\ Noted(p.node)
      BY <1>3, <1>4, <1>6, <2>2 DEF DeqInv
    <2>4. h = [node |-> h.node, opDesc |-> o]
      BY <1>1 DEF NodeHead
    <2>5. /\ pc' \in [Thread -> PcLabels] /\ pc'[t] = "finDeq"
          /\ \A u \in Thread \ {t} : pc'[u] = pc[u] /\ frame'[u] = frame[u]
          /\ frame' \in [Thread -> Frame] /\ trials' \in [Thread -> 0 .. MAXFAILURES - 1]
      BY <1>1, <2>1 DEF Goto, TypeOK, PcLabels
    <2>6. /\ \A n \in Node : desc[o].node = n => Left(n, o)
          /\ p.pending = 1 => p.node # NoNode
          /\ p.pending = 0 /\ p.node # NoNode => Left(p.node, o)
          /\ head.opDesc = o => p.node = head.node
      BY <1>4, <2>2, <2>3, <2>4 DEF Left
    <2>7. /\ TypeOK' /\ SharedInv' /\ Evolves(t) /\ place' = place /\ desc'[o] = p
          /\ Undone(Current(t)) => Undone(Current(t))'
      BY <1>2, <1>4, <2>1, <2>2, <2>3, <2>5, <2>6, PollDescStep
    <2>8. FrameInv(t)'
      <3>1. desc'[o] # NoOp
        BY <2>2, <2>7, Nulls
      <3>2. HeadInv(t)'
        BY <1>3, <1>4, <2>1, <2>2, <2>3, <2>5, <2>7, <3>1 DEF HeadInv, HeadPast, Taken, pos, Listed
      <3>3. QED
        BY <2>5, <3>2, HeadFrame
    <2>9. QED
      BY <1>2, <2>1, <2>5, <2>7, <2>8, WorkStep
  <1>7. QED
    BY <1>5, <1>6

\* The head moves on from a descriptor that is done.
LEMMA FinDeqStep ==
    ASSUME IInv, Watch, NEW t \in Thread, FinDeq(t)
    PROVE  IInv'
  <1> DEFINE h == frame[t].localHead
             n == frame[t].next
  <1>1. /\ TypeOK /\ SharedInv /\ ListInv /\ EndsInv /\ CallInv(t) /\ HeadInv(t)
        /\ pc[t] = "finDeq" /\ pc[t] \in FinPc
        /\ h \in NodeHead /\ h.node \in Node /\ h.opDesc \in Op \cup {NoOp} /\ n \in Node \cup {NoNode}
    BY Parts, FrameTypes DEF FinDeq, FinPc
  <1>2. pc[t] \in WorkPc /\ pc[t] # "announce"
    BY <1>1, FinAllowed
  <1>3. Taken(h) /\ (n = NoNode \/ next[h.node] = n) /\ desc[h.opDesc].pending = 0
    BY <1>1 DEF HeadInv
  <1>4. Again(t) /\ UNCHANGED <<next, tail, state, desc, tids, record, history, role, target>>
    BY DEF FinDeq
  <1>5. h = [node |-> h.node, opDesc |-> h.opDesc]
    BY <1>1 DEF NodeHead
  <1>6. CASE n = NoNode \/ head # h
    <2>1. head' = head
      BY <1>5, <1>6 DEF FinDeq, CasHead
    <2>2. UNCHANGED <<shared, record, history, role, target>>
      BY <1>4, <2>1 DEF shared
    <2>3. QED
      BY <1>2, <1>4, <2>2, QuietAgain
  <1>7. CASE n # NoNode /\ head = h
    <2>1. /\ head' = [node |-> n, opDesc |-> NoOp]
          /\ UNCHANGED <<next, tail, state, desc, tids, curTid, willHelp, nextCheck,
                         kind, calls, result, role, target>>
      BY <1>4, <1>5, <1>7 DEF FinDeq, CasHead, record, history
    <2>2. /\ head' \in NodeHead /\ head'.node = next[head.node] /\ head'.opDesc = NoOp
          /\ head.opDesc # NoOp => desc[head.opDesc].pending = 0
      BY <1>1, <1>3, <1>7, <2>1 DEF NodeHead
    <2>3. pos(head.node) < pos(tail)
      BY <1>1, <1>3, <1>7 DEF EndsInv, Taken
    <2>4. TypeOK'
      <3>1. /\ pc' \in [Thread -> PcLabels] /\ frame' \in [Thread -> Frame]
            /\ trials' \in [Thread -> 0 .. MAXFAILURES - 1]
        BY <1>1, <1>4, AgainTypes
      <3>2. QED
        BY <1>1, <2>1, <2>2, <3>1 DEF TypeOK
    <2>5. SharedInv' /\ Evolves(t)
      <3>1. \A q \in Op : result'[q] = result[q] \/ (q[1] = t /\ q[2] <= calls[t])
        BY <2>1
      <3>2. QED
        BY <1>1, <2>1, <2>2, <2>3, <2>4, <3>1, HeadStep
    <2>6. Undone(Current(t)) => Undone(Current(t))'
      <3>1. place' = place
        BY <1>1, <2>1, SamePlaces
      <3>2. QED
        BY <2>1, <3>1 DEF Undone, Current
    <2>7. QED
      BY <1>2, <1>4, <2>1, <2>4, <2>5, <2>6, AgainStep
  <1>8. QED
    BY <1>6, <1>7

-----------------------------------------------------------------------------
(* The theorems.                                                           *)

LEMMA InitInv == HInit => IInv
  <1> SUFFICES ASSUME HInit PROVE IInv
    OBVIOUS
  <1>1. /\ \A n \in Node : next[n] = NoNode
        /\ \A o \in Op : desc[o] = NoOp /\ kind[o] = "add" /\ result[o] = None /\ place[o] = 0
        /\ head.node = Dummy /\ head.opDesc = NoOp /\ tail = Dummy /\ tids = << >>
        /\ place \in [Op -> Nat]
    BY DEF HInit, Init
  <1>2. \A t \in Thread : /\ state[t] = NoOp /\ curTid[t] = -1 /\ willHelp[t] = NoOp
                          /\ nextCheck[t] = 0 /\ calls[t] = 0 /\ pc[t] = "idle"
                          /\ role[t] = "fast" /\ target[t] = NoOp /\ trials[t] = 0
    BY DEF HInit, Init
  <1>3. TypeOK
    <2>1. /\ next \in [Node -> Op \cup {NoNode}] /\ head \in NodeHead /\ tail \in Node
          /\ state \in [Thread -> Op \cup {NoOp}] /\ desc \in [Op -> PNode \cup {NoOp}]
          /\ willHelp \in [Thread -> Op \cup {NoOp}] /\ kind \in [Op -> {"add", "poll"}]
          /\ result \in [Op -> Op \cup {None, Empty}]
          /\ role \in [Thread -> {"new", "help", "fast", "self"}]
          /\ target \in [Thread -> Op \cup {NoOp}]
      BY Nulls DEF HInit, Init, NodeHead
    <2>2. tids \in Seq(Thread) /\ Len(tids) = 0
      BY <1>1
    <2>3. /\ curTid \in [Thread -> -1 .. Len(tids) - 1]
          /\ nextCheck \in [Thread -> -1 .. HELPINGDELAY]
          /\ calls \in [Thread -> Nat] /\ trials \in [Thread -> 0 .. MAXFAILURES - 1]
      BY <2>2, Bounds DEF HInit, Init
    <2>4. pc \in [Thread -> PcLabels]
      BY DEF HInit, Init, PcLabels
    <2>5. frame \in [Thread -> Frame]
      <3>1. Blank \in Frame
        BY Nulls DEF Blank, Frame, NodeHead, PNode
      <3>2. QED
        BY <3>1 DEF HInit, Init
    <2>6. QED
      BY <2>1, <2>2, <2>3, <2>4, <2>5 DEF TypeOK
  <1>4. Placed = {} /\ back = 0 /\ IsFiniteSet(Placed)
    <2>1. Placed = {}
      BY <1>1 DEF Placed
    <2>2. QED
      BY <2>1, FS_EmptySet DEF back
  <1>5. \A n \in Node : pos(n) = 0 /\ (Listed(n) <=> n = Dummy)
    BY <1>1 DEF pos, Listed, Node
  <1>6. ListInv
    BY <1>1, <1>4, <1>5, Nulls DEF ListInv, Linked
  <1>7. EndsInv /\ DescInv /\ Claimed
    BY <1>1, <1>4, <1>5, Nulls DEF EndsInv, DescInv, Claimed, Undone
  <1>8. ASSUME NEW t \in Thread
        PROVE  RoleInv(t) /\ RecordInv(t) /\ CallInv(t) /\ FrameInv(t)
    <2>1. RoleInv(t)
      BY <1>2 DEF RoleInv, AddPc, PollPc
    <2>2. RecordInv(t)
      BY <1>2 DEF RecordInv
    <2>3. CallInv(t)
      <3>1. MaxCalls[t] \in Nat
        BY OpFacts
      <3>2. QED
        BY <1>2, <3>1 DEF CallInv, EnqPc, DeqPc, FinPc
    <2>4. FrameInv(t)
      BY <1>2 DEF FrameInv, TailInv, HeadInv, PNodeInv, TailRead, HeadRead, PNodeRead, DeqPc
    <2>5. QED
      BY <2>1, <2>2, <2>3, <2>4
  <1>9. QED
    BY <1>3, <1>6, <1>7, <1>8 DEF IInv, SharedInv

\* Every step of every thread keeps the invariant.
LEMMA Inductive == IInv /\ [HNext]_historyVars => IInv'
  <1> SUFFICES ASSUME IInv, [HNext]_historyVars PROVE IInv'
    OBVIOUS
  <1>1. ASSUME NEW t \in Thread, NEW k \in {"add", "poll"}, Begin(t, k), Watch
        PROVE  IInv'
    BY <1>1, BeginStep
  <1>2. ASSUME NEW t \in Thread, Step(t), Watch
        PROVE  IInv'
    <2>1. CASE Register(t) \/ Help(t) \/ ResetTid(t) \/ ResetPhase(t)
      BY <1>2, <2>1, RegisterStep, HelpStep, ResetTidStep, ResetPhaseStep
    <2>2. CASE Announce(t) \/ Return(t)
      BY <1>2, <2>2, AnnounceStep, ReturnStep
    <2>3. CASE AddTail(t) \/ EnqTail(t) \/ FinTail(t)
      BY <1>2, <2>3, TailReads
    <2>4. CASE AddNext(t) \/ EnqNext(t)
      BY <1>2, <2>4, NextReads
    <2>5. CASE AddCheck(t) \/ EnqCheck(t)
      BY <1>2, <2>5, TailChecks
    <2>6. CASE EnqPending(t) \/ EnqStill(t)
      BY <1>2, <2>6, PendingReads
    <2>7. CASE AddCas(t) \/ AddSwing(t) \/ EnqCas(t)
      BY <1>2, <2>7, AddCasStep, AddSwingStep, EnqCasStep
    <2>8. CASE FixTailCas(t) \/ FinCas(t)
      BY <1>2, <2>8, TailCasStep
    <2>9. CASE FinNext(t) \/ FinCheck(t) \/ FinPending(t)
      BY <1>2, <2>9, FinNextStep, FinCheckStep, FinPendingStep
    <2>10. CASE PollHead(t) \/ PollTail(t) \/ PollNext(t) \/ PollCheck(t) \/ PollCas(t)
      BY <1>2, <2>10, PollHeadStep, PollTailStep, PollNextStep, PollCheckStep, PollCasStep
    <2>11. CASE DeqPNode(t) \/ DeqHead(t) \/ DeqTail(t) \/ DeqNext(t) \/ DeqCheck(t)
      BY <1>2, <2>11, DeqPNodeStep, DeqHeadStep, DeqTailStep, DeqNextStep, DeqCheckStep
    <2>12. CASE DeqEmpty(t) \/ DeqNull(t) \/ DeqClaim(t) \/ DeqReread(t) \/ DeqStill(t) \/ DeqCas(t)
      BY <1>2, <2>12, DeqEmptyStep, DeqNullStep, DeqClaimStep, DeqRereadStep, DeqStillStep,
         DeqCasStep
    <2>13. CASE FinHead(t) \/ FinHeadNext(t) \/ FinRead(t) \/ FinDone(t) \/ FinDeq(t)
      BY <1>2, <2>13, FinHeadStep, FinHeadNextStep, FinReadStep, FinDoneStep, FinDeqStep
    <2>14. QED
      BY <1>2, <2>1, <2>2, <2>3, <2>4, <2>5, <2>6, <2>7, <2>8, <2>9, <2>10, <2>11, <2>12, <2>13
         DEF Step
  <1>3. CASE UNCHANGED historyVars
    <2>1. /\ UNCHANGED <<next, head, tail, state, desc, tids, curTid, willHelp, nextCheck,
                         kind, calls, result, pc, role, target, trials, frame, place>>
      BY <1>3 DEF historyVars, vars
    <2>2. TypeOK' /\ ListInv' /\ EndsInv' /\ DescInv' /\ Claimed'
      <3>1. TypeOK'
        BY <2>1 DEF IInv, TypeOK
      <3>2. ListInv'
        BY <2>1 DEF IInv, SharedInv, ListInv, Placed, Linked, back, Listed, pos
      <3>3. EndsInv'
        BY <2>1 DEF IInv, SharedInv, EndsInv, Placed, back, Listed, pos
      <3>4. DescInv'
        BY <2>1 DEF IInv, SharedInv, DescInv, Undone, EnqInv, DeqInv, Noted, Left, Listed, pos
      <3>5. Claimed'
        BY <2>1 DEF IInv, SharedInv, Claimed
      <3>6. QED
        BY <3>1, <3>2, <3>3, <3>4, <3>5
    <2>3. ASSUME NEW t \in Thread
          PROVE  RoleInv(t)' /\ RecordInv(t)' /\ CallInv(t)' /\ FrameInv(t)'
      <3>1. RoleInv(t) /\ RecordInv(t) /\ CallInv(t) /\ TailInv(t) /\ HeadInv(t) /\ PNodeInv(t)
        BY Parts
      <3>2. RoleInv(t)' /\ RecordInv(t)' /\ CallInv(t)'
        BY <2>1, <3>1 DEF RoleInv, RecordInv, CallInv, Undone, Adding, Current
      <3>3. TailInv(t)'
        BY <2>1, <3>1 DEF TailInv, Listed, pos
      <3>4. HeadInv(t)'
        BY <2>1, <3>1 DEF HeadInv, HeadPast, Taken, Listed, pos
      <3>5. PNodeInv(t)'
        BY <2>1, <3>1 DEF PNodeInv, Noted, Left, Listed, pos
      <3>6. QED
        BY <3>2, <3>3, <3>4, <3>5 DEF FrameInv
    <2>4. QED
      BY <2>2, <2>3 DEF IInv, SharedInv
  <1>4. QED
    BY <1>1, <1>2, <1>3 DEF HNext, Next

\* The invariant holds in every state of every behaviour.
LEMMA Invariance == HSpec => []IInv
  <1>1. QED
    BY InitInv, Inductive, PTL DEF HSpec

\* Every variable of WaitFreeQueueFastPath keeps its type.
THEOREM TypeCorrect == HSpec => []TypeOK
  <1>1. IInv => TypeOK
    BY DEF IInv
  <1>2. QED
    BY <1>1, Invariance, PTL

\* The owner of a descriptor and its helpers never link its node twice: a
\* helper that has read pending after tail finds a next field it cannot set, or
\* a node that is not in the list yet.
THEOREM NodesLinkedOnce == HSpec => []LinkedOnce
  <1>1. IInv => LinkedOnce
    BY ChainLinkedOnce DEF IInv, SharedInv
  <1>2. QED
    BY <1>1, Invariance, PTL

\* A descriptor that was put into the head stays tied to the node of that head,
\* however late its other helpers are with their claims and their "empty".
THEOREM DescriptorsTied == HSpec => []Claimed
  <1>1. IInv => Claimed
    BY DEF IInv, SharedInv
  <1>2. QED
    BY <1>1, Invariance, PTL

\* Only the three CASes on head change it, and each of them moves it forward:
\* that no head comes back is what lets the code compare heads by their fields.
THEOREM HeadsForward == HSpec => HeadForward
  <1> DEFINE Forward ==
        head' # head => \/ head.opDesc = NoOp /\ head'.node = head.node /\ next[head.node] # NoNode
                        \/ head'.opDesc = NoOp /\ head'.node = next[head.node]
  <1>1. ASSUME IInv, [HNext]_historyVars
        PROVE  [Forward]_vars
    <2>1. ASSUME NEW t \in Thread, PollCas(t)
          PROVE  Forward
      <3>1. HeadInv(t) /\ pc[t] = "pollCas"
        BY <1>1, <2>1, Parts DEF PollCas
      <3>2. next[frame[t].localHead.node] = frame[t].next
        BY <3>1 DEF HeadInv
      <3>3. QED
        BY <2>1, <3>2 DEF PollCas, CasHead
    <2>2. ASSUME NEW t \in Thread, DeqCas(t)
          PROVE  Forward
      <3> SUFFICES ASSUME head' # head PROVE Forward
        OBVIOUS
      <3>1. /\ head = [node |-> frame[t].first, opDesc |-> NoOp]
            /\ head' = [node |-> frame[t].first, opDesc |-> target[t]]
        BY <2>2 DEF DeqCas, CasHead
      <3>2. /\ TypeOK /\ ListInv /\ PNodeInv(t) /\ pc[t] = "deqCas" /\ pc[t] \in PNodeRead
            /\ Listed(head.node) /\ head.node \in Node /\ tail \in Node
        BY <1>1, <2>2, Parts DEF DeqCas, PNodeRead, DeqPc
      <3>3. pos(head.node) < pos(tail)
        BY <3>1, <3>2 DEF PNodeInv, Noted
      <3>4. next[head.node] # NoNode
        <4>1. pos(tail) <= back /\ pos(head.node) \in Nat /\ pos(tail) \in Nat /\ back \in Nat
          BY <3>2, Places
        <4>2. QED
          BY <3>2, <3>3, <4>1, Places
      <3>5. QED
        BY <3>1, <3>4
    <2>3. ASSUME NEW t \in Thread, FinDeq(t)
          PROVE  Forward
      <3>1. HeadInv(t) /\ pc[t] = "finDeq"
        BY <1>1, <2>3, Parts DEF FinDeq
      <3>2. frame[t].next = NoNode \/ next[frame[t].localHead.node] = frame[t].next
        BY <3>1 DEF HeadInv
      <3>3. QED
        BY <2>3, <3>2 DEF FinDeq, CasHead
    <2>4. ASSUME NEW t \in Thread, \E k \in {"add", "poll"} : Begin(t, k)
          PROVE  head' = head
      BY <2>4 DEF Begin, shared
    <2>5. ASSUME NEW t \in Thread, Step(t), ~PollCas(t), ~DeqCas(t), ~FinDeq(t)
          PROVE  head' = head
      BY <2>5 DEF Step, Register, Help, ResetTid, ResetPhase, Announce, Return, AddTail, AddNext,
           AddCheck, AddCas, AddSwing, FixTailCas, EnqPending, EnqTail, EnqNext, EnqCheck, EnqStill,
           EnqCas, FinTail, FinNext, FinCheck, FinPending, FinCas, PollHead, PollTail, PollNext,
           PollCheck, DeqPNode, DeqHead, DeqTail, DeqNext, DeqCheck, DeqCheckIf, DeqEmpty, DeqNull,
           DeqClaim, DeqReread, DeqStill, FinHead, FinHeadNext, FinRead, FinDone, shared
    <2>6. CASE UNCHANGED historyVars
      BY <2>6 DEF historyVars
    <2>7. QED
      BY <1>1, <2>1, <2>2, <2>3, <2>4, <2>5, <2>6 DEF HNext, Next
  <1>2. QED
    BY <1>1, Invariance, PTL DEF HSpec, HeadForward

-----------------------------------------------------------------------------
(* What the mapping relies on.                                             *)

\* A descriptor is pending only while its owner waits for it.
PendingInv ==
    \A o \in Op : desc[o] # NoOp /\ desc[o].pending = 1 =>
        role[o[1]] = "self" /\ Current(o[1]) = o

\* sawEmpty says what it is meant to say.
SawInv ==
    /\ sawEmpty \in [Thread -> BOOLEAN]
    /\ \A t \in Thread : sawEmpty[t] => pc[t] # "idle"
    /\ \A t \in Thread : pc[t] # "idle" /\ front = back => sawEmpty[t]

\* A call that returns has taken effect; the poll of a descriptor gets its
\* answer only then.
ReturnInv(t) ==
    /\ role[t] = "self" => result[Current(t)] = None
    /\ pc[t] = "return" =>
         IF role[t] = "self" THEN desc[Current(t)].pending = 0
         ELSE IF Adding(t) THEN place[Current(t)] # 0
         ELSE result[Current(t)] # None

TailPc == {"finTail", "finNext", "finCheck", "finPending", "finCas"}

\* A helper that linked the node itself leaves helpFinishEnq when its
\* descriptor is done.
DoneInv(t) ==
    frame[t].done =>
        /\ role[t] # "fast" /\ pc[t] \in TailPc
        /\ kind[target[t]] = "add" /\ place[target[t]] # 0
        /\ pc[t] # "finTail" /\ desc[target[t]].pending = 1 => next[frame[t].last] = target[t]

\* A poll found no next node behind its head: the queue was empty then.
EmptyInv(t) ==
    /\ pc[t] = "pollCheck" /\ frame[t].next = NoNode => sawEmpty[t]
    /\ /\ (pc[t] = "deqCheck" /\ frame[t].next = NoNode) \/ pc[t] \in {"deqEmpty", "deqNull"}
       /\ desc[target[t]].pending = 1
       => sawEmpty[target[t][1]]

KInv == \A t \in Thread : ReturnInv(t) /\ DoneInv(t) /\ EmptyInv(t)

RInv == IInv /\ PendingInv /\ SawInv /\ KInv

-----------------------------------------------------------------------------
(* What a step of t leaves to the others, and does to descriptors.         *)

Locals(t) ==
    \A u \in Thread \ {t} : /\ pc'[u] = pc[u] /\ role'[u] = role[u] /\ target'[u] = target[u]
                            /\ frame'[u] = frame[u] /\ calls'[u] = calls[u]

Keeps(t) ==
    /\ Locals(t)
    /\ \A o \in Op : o[1] # t => result'[o] = result[o]
    /\ \A o \in Op : o[1] # t \/ desc[o] # NoOp => kind'[o] = kind[o]
    /\ \A n \in Node : next[n] # NoNode => next'[n] = next[n]
    /\ \A o \in Op : desc[o] # NoOp =>
         desc'[o] # NoOp /\ (desc'[o].pending = 1 => desc[o].pending = 1)
    /\ \A o \in Op : desc[o] = NoOp /\ desc'[o] # NoOp =>
         role'[t] = "self" /\ calls'[t] = calls[t] /\ o = Current(t)
    /\ role[t] = "self" => (role'[t] = "self" /\ calls'[t] = calls[t]) \/ pc[t] = "return"

\* A step that leaves what the abstract queue can see alone.
Quiet == UNCHANGED <<next, head, desc, kind, calls, result>>

\* Every step but those named changes only locals, tail, and what threads keep
\* for helping.
LEMMA QuietSteps ==
    ASSUME TypeOK, NEW t \in Thread,
           \/ Register(t) \/ Help(t) \/ ResetTid(t) \/ ResetPhase(t)
           \/ AddTail(t) \/ AddNext(t) \/ AddCheck(t) \/ AddSwing(t) \/ FixTailCas(t)
           \/ EnqPending(t) \/ EnqTail(t) \/ EnqNext(t) \/ EnqCheck(t) \/ EnqStill(t)
           \/ FinTail(t) \/ FinNext(t) \/ FinCheck(t) \/ FinCas(t)
           \/ PollHead(t) \/ PollTail(t) \/ PollNext(t)
           \/ DeqPNode(t) \/ DeqHead(t) \/ DeqTail(t) \/ DeqNext(t) \/ DeqCheck(t)
           \/ DeqEmpty(t) \/ DeqReread(t) \/ DeqStill(t)
           \/ FinHead(t) \/ FinHeadNext(t) \/ FinRead(t)
    PROVE  Quiet /\ pc[t] # "idle"
  <1> USE DEF Quiet, shared, history, record
  <1>1. CASE \/ Register(t) \/ Help(t) \/ ResetTid(t) \/ ResetPhase(t)
             \/ AddTail(t) \/ AddNext(t) \/ AddCheck(t) \/ AddSwing(t) \/ FixTailCas(t)
    BY <1>1 DEF Register, Help, ResetTid, ResetPhase, AddTail, AddNext, AddCheck, AddSwing, FixTailCas
  <1>2. CASE \/ EnqPending(t) \/ EnqTail(t) \/ EnqNext(t) \/ EnqCheck(t) \/ EnqStill(t)
             \/ FinTail(t) \/ FinNext(t) \/ FinCheck(t) \/ FinCas(t)
    BY <1>2 DEF EnqPending, EnqTail, EnqNext, EnqCheck, EnqStill, FinTail, FinNext, FinCheck, FinCas
  <1>3. CASE \/ PollHead(t) \/ PollTail(t) \/ PollNext(t)
             \/ DeqPNode(t) \/ DeqHead(t) \/ DeqTail(t) \/ DeqNext(t) \/ DeqCheck(t)
    BY <1>3 DEF PollHead, PollTail, PollNext, DeqPNode, DeqHead, DeqTail, DeqNext, DeqCheck, DeqCheckIf
  <1>4. CASE \/ DeqEmpty(t) \/ DeqReread(t) \/ DeqStill(t)
             \/ FinHead(t) \/ FinHeadNext(t) \/ FinRead(t)
    BY <1>4 DEF DeqEmpty, DeqReread, DeqStill, FinHead, FinHeadNext, FinRead
  <1>5. QED
    BY <1>1, <1>2, <1>3, <1>4

\* Other threads keep their locals.
LEMMA LocalSteps ==
    ASSUME TypeOK, NEW t \in Thread, Step(t)
    PROVE  Locals(t) /\ calls' = calls /\ kind' = kind
  <1> USE DEF Locals, Goto, Again, Forget, Finished, FixTail, TypeOK, shared, history, control, record
  <1>1. CASE Register(t) \/ Help(t) \/ ResetTid(t) \/ ResetPhase(t) \/ Announce(t) \/ Return(t)
    <2>1. CASE Register(t) \/ Help(t)
      BY <2>1 DEF Register, Help
    <2>2. CASE ResetTid(t) \/ ResetPhase(t)
      BY <2>2 DEF ResetTid, ResetPhase
    <2>3. CASE Announce(t) \/ Return(t)
      BY <2>3 DEF Announce, Return
    <2>4. QED
      BY <1>1, <2>1, <2>2, <2>3
  <1>2. CASE AddTail(t) \/ AddNext(t) \/ AddCheck(t) \/ AddCas(t) \/ AddSwing(t) \/ FixTailCas(t)
    <2>1. CASE AddTail(t) \/ AddNext(t)
      BY <2>1 DEF AddTail, AddNext
    <2>2. CASE AddCheck(t)
      BY <2>2 DEF AddCheck
    <2>3. CASE AddCas(t) \/ AddSwing(t)
      BY <2>3 DEF AddCas, AddSwing
    <2>4. CASE FixTailCas(t)
      BY <2>4 DEF FixTailCas
    <2>5. QED
      BY <1>2, <2>1, <2>2, <2>3, <2>4
  <1>3. CASE \/ EnqPending(t) \/ EnqTail(t) \/ EnqNext(t) \/ EnqCheck(t) \/ EnqStill(t) \/ EnqCas(t)
    BY <1>3 DEF EnqPending, EnqTail, EnqNext, EnqCheck, EnqStill, EnqCas
  <1>4. CASE FinTail(t) \/ FinNext(t) \/ FinCheck(t) \/ FinPending(t) \/ FinCas(t)
    BY <1>4 DEF FinTail, FinNext, FinCheck, FinPending, FinCas
  <1>5. CASE PollHead(t) \/ PollTail(t) \/ PollNext(t) \/ PollCheck(t) \/ PollCas(t)
    BY <1>5 DEF PollHead, PollTail, PollNext, PollCheck, PollCas
  <1>6. CASE DeqPNode(t) \/ DeqHead(t) \/ DeqTail(t) \/ DeqNext(t) \/ DeqCheck(t)
    BY <1>6 DEF DeqPNode, DeqHead, DeqTail, DeqNext, DeqCheck, DeqCheckIf
  <1>7. CASE DeqEmpty(t) \/ DeqNull(t) \/ DeqClaim(t) \/ DeqReread(t) \/ DeqStill(t) \/ DeqCas(t)
    BY <1>7 DEF DeqEmpty, DeqNull, DeqClaim, DeqReread, DeqStill, DeqCas
  <1>8. CASE FinHead(t) \/ FinHeadNext(t) \/ FinRead(t) \/ FinDone(t) \/ FinDeq(t)
    BY <1>8 DEF FinHead, FinHeadNext, FinRead, FinDone, FinDeq
  <1>9. QED
    BY <1>1, <1>2, <1>3, <1>4, <1>5, <1>6, <1>7, <1>8 DEF Step

\* An owner stays one until it returns.
LEMMA RoleSteps ==
    ASSUME TypeOK, NEW t \in Thread, RoleInv(t), Step(t), role[t] = "self", pc[t] # "return"
    PROVE  role'[t] = "self"
  <1>1. pc[t] \notin {"register", "help", "resetTid", "resetPhase", "announce"}
    BY Roles
  <1>2. role' = role
    BY <1>1 DEF Step, control, Register, Help, ResetTid, ResetPhase, Announce, Return, AddTail,
       AddNext, AddCheck, AddCas, AddSwing, FixTailCas, EnqPending, EnqTail, EnqNext, EnqCheck,
       EnqStill, EnqCas, FinTail, FinNext, FinCheck, FinPending, FinCas, PollHead, PollTail,
       PollNext, PollCheck, PollCas, DeqPNode, DeqHead, DeqTail, DeqNext, DeqCheck, DeqCheckIf,
       DeqEmpty, DeqNull, DeqClaim, DeqReread, DeqStill, DeqCas, FinHead, FinHeadNext, FinRead,
       FinDone, FinDeq
  <1>3. QED
    BY <1>2

\* What a step does to descriptors: announce the call of t, or change one that
\* is pending, or was done by setting pending to 0.
LEMMA DescSteps ==
    ASSUME IInv, NEW t \in Thread,
           AddCas(t) \/ EnqCas(t) \/ FinPending(t) \/ Announce(t) \/ Return(t) \/ PollCheck(t)
           \/ PollCas(t) \/ DeqNull(t) \/ DeqClaim(t) \/ DeqCas(t) \/ FinDone(t) \/ FinDeq(t)
    PROVE  /\ \A o \in Op : desc[o] # NoOp =>
                desc'[o] # NoOp /\ (desc'[o].pending = 1 => desc[o].pending = 1)
           /\ \A o \in Op : desc[o] = NoOp /\ desc'[o] # NoOp => Announce(t) /\ o = Current(t)
  <1>1. TypeOK /\ CallInv(t) /\ HeadInv(t) /\ PNodeInv(t) /\ TailInv(t)
    BY Parts
  <1>2. CASE AddCas(t) \/ EnqCas(t) \/ Return(t) \/ PollCheck(t) \/ PollCas(t) \/ DeqCas(t) \/ FinDeq(t)
    <2>1. desc' = desc
      BY <1>2 DEF AddCas, EnqCas, Return, PollCheck, PollCas, DeqCas, FinDeq, shared
    <2>2. QED
      BY <2>1
  <1>3. ASSUME NEW o \in Op, NEW p \in PNode, desc' = [desc EXCEPT ![o] = p],
               p.pending = 1 => desc[o].pending = 1, desc[o] # NoOp \/ (Announce(t) /\ o = Current(t))
        PROVE  /\ \A q \in Op : desc[q] # NoOp =>
                    desc'[q] # NoOp /\ (desc'[q].pending = 1 => desc[q].pending = 1)
               /\ \A q \in Op : desc[q] = NoOp /\ desc'[q] # NoOp => Announce(t) /\ q = Current(t)
    <2>1. \A q \in Op : desc'[q] = IF q = o THEN p ELSE desc[q]
      BY <1>1, <1>3 DEF TypeOK
    <2>2. p # NoOp
      BY Nulls
    <2>3. QED
      BY <1>3, <2>1, <2>2
  <1>4. CASE Announce(t)
    <2>1. Undone(Current(t)) /\ Current(t) \in Op
      <3>1. pc[t] = "announce" /\ role[t] = "fast"
        BY <1>4, Parts, Roles DEF Announce
      <3>2. QED
        BY <1>1, <3>1, CurrentOp DEF CallInv
    <2>2. \A q \in Op : q # Current(t) => desc'[q] = desc[q]
      BY <1>1, <1>4 DEF Announce, TypeOK
    <2>3. QED
      BY <1>4, <2>1, <2>2 DEF Undone
  <1>5. CASE FinPending(t)
    <2> DEFINE o == frame[t].next
    <2>1. pc[t] = "finPending" /\ desc' = [desc EXCEPT ![o].pending = 0]
      BY <1>5 DEF FinPending
    <2>2. o # NoNode /\ o \in Op /\ desc[o] # NoOp /\ desc[o] \in PNode
      <3>1. o # NoNode /\ next[frame[t].last] = o /\ desc[o] # NoOp /\ frame[t].last \in Node
        BY <1>1, <2>1, FrameTypes DEF TailInv
      <3>2. QED
        BY <1>1, <3>1, SharedTypes
    <2>3. PICK p \in PNode : p = [desc[o] EXCEPT !.pending = 0] /\ p.pending = 0
      BY <2>2, PNodes
    <2>4. desc' = [desc EXCEPT ![o] = p] /\ (p.pending = 1 => desc[o].pending = 1)
      BY <1>1, <2>1, <2>2, <2>3 DEF TypeOK
    <2>5. QED
      BY <1>3, <2>2, <2>4
  <1>6. CASE DeqNull(t) \/ DeqClaim(t)
    <2> DEFINE o == target[t]
    <2>1. pc[t] \in DeqPc /\ pc[t] \in PNodeRead
      BY <1>6 DEF DeqNull, DeqClaim, DeqPc, PNodeRead
    <2>2. /\ frame[t].pNode.pending = 1 /\ o \in Op /\ desc[o] # NoOp
          /\ frame[t].localHead.node \in Node
      BY <1>1, <2>1, DeqFacts, FrameTypes DEF PNodeInv
    <2>3. PICK p \in PNode : desc' = IF desc[o] = frame[t].pNode THEN [desc EXCEPT ![o] = p] ELSE desc
      BY <1>6, <2>2, PNodes DEF DeqNull, DeqClaim, CasPNode
    <2>4. QED
      BY <1>3, <2>2, <2>3
  <1>7. CASE FinDone(t)
    <2> DEFINE o == frame[t].localHead.opDesc
    <2>1. pc[t] = "finDone"
      BY <1>7 DEF FinDone
    <2>2. o \in Op /\ desc[o] # NoOp
      BY <1>1, <2>1, FrameTypes DEF HeadInv, Taken
    <2>3. PICK p \in PNode : /\ p.pending = 0
                             /\ desc' = IF desc[o] = frame[t].pNode THEN [desc EXCEPT ![o] = p] ELSE desc
      <3>1. frame[t].pNode.node \in Node \cup {NoNode}
        BY <1>1, FrameTypes
      <3> DEFINE p == [node |-> frame[t].pNode.node, pending |-> 0]
      <3>2. p \in PNode /\ p.pending = 0
        BY <3>1, PNodes
      <3>3. desc' = IF desc[o] = frame[t].pNode THEN [desc EXCEPT ![o] = p] ELSE desc
        BY <1>7 DEF FinDone, CasPNode
      <3>4. QED
        BY <3>2, <3>3
    <2>4. QED
      BY <1>3, <2>2, <2>3
  <1>8. QED
    BY <1>2, <1>4, <1>5, <1>6, <1>7

LEMMA KeepsStep ==
    ASSUME IInv, NEW t \in Thread, Step(t)
    PROVE  Keeps(t)
  <1>1. TypeOK /\ RoleInv(t) /\ CallInv(t)
    BY Parts
  <1>2. Locals(t) /\ calls' = calls /\ kind' = kind
    BY <1>1, LocalSteps
  <1>3. role[t] = "self" => role'[t] = "self" \/ pc[t] = "return"
    BY <1>1, RoleSteps
  <1>4. CASE AddCas(t) \/ EnqCas(t) \/ FinPending(t) \/ Announce(t) \/ Return(t) \/ PollCheck(t)
             \/ PollCas(t) \/ DeqNull(t) \/ DeqClaim(t) \/ DeqCas(t) \/ FinDone(t) \/ FinDeq(t)
    <2>1. \A o \in Op : o[1] # t => result'[o] = result[o]
      BY <1>1, <1>4 DEF AddCas, EnqCas, FinPending, Announce, Return, PollCheck, PollCas, DeqNull,
         DeqClaim, DeqCas, FinDone, FinDeq, history, Current, TypeOK
    <2>2. \A n \in Node : next[n] # NoNode => next'[n] = next[n]
      <3>1. next' = next \/ \E m \in Node : \E o : CasNext(m, o)
        BY <1>1, <1>4, FrameTypes DEF AddCas, EnqCas, FinPending, Announce, Return, PollCheck,
           PollCas, DeqNull, DeqClaim, DeqCas, FinDone, FinDeq, shared
      <3>2. QED
        BY <1>1, <3>1 DEF CasNext, TypeOK
    <2>3. Announce(t) => role'[t] = "self"
      BY <1>1 DEF Announce, TypeOK
    <2>4. /\ \A o \in Op : desc[o] # NoOp =>
               desc'[o] # NoOp /\ (desc'[o].pending = 1 => desc[o].pending = 1)
          /\ \A o \in Op : desc[o] = NoOp /\ desc'[o] # NoOp =>
               role'[t] = "self" /\ calls'[t] = calls[t] /\ o = Current(t)
      BY <1>2, <1>4, <2>3, DescSteps
    <2>5. QED
      BY <1>2, <1>3, <2>1, <2>2, <2>4 DEF Keeps
  <1>5. CASE ~(AddCas(t) \/ EnqCas(t) \/ FinPending(t) \/ Announce(t) \/ Return(t) \/ PollCheck(t)
               \/ PollCas(t) \/ DeqNull(t) \/ DeqClaim(t) \/ DeqCas(t) \/ FinDone(t) \/ FinDeq(t))
    <2>1. Quiet
      BY <1>1, <1>5, QuietSteps DEF Step
    <2>2. QED
      BY <1>2, <1>3, <2>1 DEF Keeps, Quiet
  <1>6. QED
    BY <1>4, <1>5

LEMMA KeepsBegin ==
    ASSUME IInv, NEW t \in Thread, NEW k \in {"add", "poll"}, Begin(t, k)
    PROVE  Keeps(t)
  <1>1. TypeOK /\ DescInv /\ RoleInv(t) /\ role[t] = "fast" /\ calls[t] \in Nat
    BY Parts, Roles DEF Begin, TypeOK
  <1>2. UNCHANGED <<next, desc, result, target, frame>>
    BY DEF Begin, shared
  <1>3. Locals(t)
    BY <1>1 DEF Begin, Locals, Goto, TypeOK
  <1>4. \A o \in Op : o[1] # t \/ desc[o] # NoOp => kind'[o] = kind[o]
    <2>1. \A o \in Op : o # <<t, calls[t] + 1>> => kind'[o] = kind[o]
      BY <1>1 DEF Begin, TypeOK
    <2>2. ASSUME NEW o \in Op, o = <<t, calls[t] + 1>>
          PROVE  o[1] = t /\ desc[o] = NoOp
      <3>1. o[1] = t /\ o[2] = calls[t] + 1
        BY <2>2
      <3>2. ~(o[2] <= calls[o[1]])
        BY <1>1, <3>1
      <3>3. QED
        BY <1>1, <3>1, <3>2 DEF DescInv, Undone
    <2>3. QED
      BY <2>1, <2>2
  <1>5. QED
    BY <1>1, <1>2, <1>3, <1>4 DEF Keeps

-----------------------------------------------------------------------------
(* The parts of the invariant that are about all threads.                  *)

LEMMA SawStep ==
    ASSUME Watch
    PROVE  SawInv'
  BY DEF Watch, SawInv, inCall

\* While a thread is in its call, sawEmpty stays.
LEMMA SawStays ==
    ASSUME RInv, Watch, NEW u \in Thread, sawEmpty[u], pc'[u] # "idle"
    PROVE  sawEmpty'[u]
  BY DEF RInv, Watch, SawInv, inCall

\* Places stay.
LEMMA PlacesStay ==
    ASSUME IInv, Watch
    PROVE  \A o \in Op : place[o] # 0 => place'[o] = place[o]
  BY DEF Watch

LEMMA PendingStep ==
    ASSUME RInv, NEW t \in Thread, Keeps(t)
    PROVE  PendingInv'
  <1> SUFFICES ASSUME NEW o \in Op, desc'[o] # NoOp, desc'[o].pending = 1
               PROVE  role'[o[1]] = "self" /\ Current(o[1])' = o
    BY DEF PendingInv
  <1>1. o[1] \in Thread /\ o = <<o[1], o[2]>> /\ t = Current(t)[1]
    BY OpFacts DEF Current
  <1>2. CASE desc[o] = NoOp
    <2>1. role'[t] = "self" /\ calls'[t] = calls[t] /\ o = Current(t)
      BY <1>2 DEF Keeps
    <2>2. QED
      BY <1>1, <2>1 DEF Current
  <1>3. CASE desc[o] # NoOp
    <2>1. role[o[1]] = "self" /\ Current(o[1]) = o /\ desc[o].pending = 1
      BY <1>3 DEF Keeps, RInv, PendingInv
    <2>2. CASE o[1] # t
      <3>1. role'[o[1]] = role[o[1]] /\ calls'[o[1]] = calls[o[1]]
        BY <1>1, <2>2 DEF Keeps, Locals
      <3>2. QED
        BY <2>1, <3>1 DEF Current
    <2>3. CASE o[1] = t
      <3>1. pc[t] # "return"
        BY <2>1, <2>3 DEF RInv, KInv, ReturnInv
      <3>2. QED
        BY <2>1, <2>3, <3>1 DEF Keeps, Current
    <2>4. QED
      BY <2>2, <2>3
  <1>4. QED
    BY <1>2, <1>3

\* What is known of u is kept by a step of t.
LEMMA OthersKeep ==
    ASSUME RInv, TypeOK', Watch, PendingInv', NEW t \in Thread, NEW u \in Thread, u # t,
           Keeps(t), RoleInv(u)', \A v \in Thread : role'[v] = "self" => pc'[v] # "idle"
    PROVE  ReturnInv(u)' /\ DoneInv(u)' /\ EmptyInv(u)'
  <1>1. IInv /\ TypeOK /\ RoleInv(u) /\ CallInv(u) /\ ReturnInv(u) /\ DoneInv(u) /\ EmptyInv(u)
    BY Parts DEF RInv, KInv
  <1>2. /\ pc'[u] = pc[u] /\ role'[u] = role[u] /\ target'[u] = target[u] /\ frame'[u] = frame[u]
        /\ calls'[u] = calls[u] /\ Current(u)' = Current(u) /\ Current(u)[1] = u
    BY DEF Keeps, Locals, Current
  <1>3. \A o \in Op : desc'[o] # NoOp => desc'[o].pending \in {0, 1}
    BY DEF TypeOK, PNode
  <1>4. pc[u] # "idle" => /\ Current(u) \in Op /\ kind'[Current(u)] = kind[Current(u)]
                          /\ result'[Current(u)] = result[Current(u)]
    <2>1. pc[u] # "idle" => Current(u) \in Op
      BY <1>1, CurrentOp DEF CallInv
    <2>2. QED
      BY <1>2, <2>1 DEF Keeps
  <1>5. role[u] = "self" => /\ pc[u] # "idle" /\ Current(u) = target[u] /\ desc[Current(u)] # NoOp
    BY <1>1 DEF RoleInv, CallInv, EnqPc, DeqPc, FinPc
  <1>6. ReturnInv(u)'
    <2>1. role[u] = "self" => result'[Current(u)] = None
      BY <1>1, <1>4, <1>5 DEF ReturnInv
    <2>2. ASSUME pc[u] = "return"
          PROVE  IF role[u] = "self" THEN desc'[Current(u)].pending = 0
                 ELSE IF kind'[Current(u)] = "add" THEN place'[Current(u)] # 0
                 ELSE result'[Current(u)] # None
      <3>1. CASE role[u] = "self"
        <4>1. desc[Current(u)] # NoOp /\ desc[Current(u)].pending = 0
          BY <1>1, <1>5, <2>2, <3>1 DEF ReturnInv
        <4>2. desc'[Current(u)] # NoOp /\ desc'[Current(u)].pending # 1
          BY <1>4, <2>2, <4>1 DEF Keeps
        <4>3. QED
          BY <1>3, <1>4, <2>2, <3>1, <4>2
      <3>2. CASE role[u] # "self"
        BY <1>1, <1>4, <2>2, <3>2, PlacesStay DEF ReturnInv, Adding
      <3>3. QED
        BY <3>1, <3>2
    <2>3. QED
      BY <1>2, <2>1, <2>2 DEF ReturnInv, Adding
  <1>7. role[u] # "fast" /\ pc[u] \in TailPc \cup DeqPc => target[u] \in Op /\ desc[target[u]] # NoOp
    <2>1. role[u] # "fast" /\ pc[u] \in TailPc \cup DeqPc =>
            role[u] \in {"help", "self"} /\ pc[u] \in EnqPc \cup DeqPc \cup FinPc
      BY <1>1 DEF RoleInv, TypeOK, TailPc, DeqPc, FinPc
    <2>2. QED
      BY <1>1, <2>1 DEF CallInv, TypeOK
  <1>8. DoneInv(u)'
    <2> SUFFICES ASSUME frame'[u].done
                 PROVE  /\ role'[u] # "fast" /\ pc'[u] \in TailPc
                        /\ kind'[target'[u]] = "add" /\ place'[target'[u]] # 0
                        /\ pc'[u] # "finTail" /\ desc'[target'[u]].pending = 1 =>
                             next'[frame'[u].last] = target'[u]
      BY DEF DoneInv
    <2>1. /\ role[u] # "fast" /\ pc[u] \in TailPc
          /\ kind[target[u]] = "add" /\ place[target[u]] # 0
          /\ pc[u] # "finTail" /\ desc[target[u]].pending = 1 => next[frame[u].last] = target[u]
      BY <1>1, <1>2 DEF DoneInv
    <2>2. target[u] \in Op /\ desc[target[u]] # NoOp /\ frame[u].last \in Node /\ target[u] # NoNode
      BY <1>1, <1>7, <2>1, FrameTypes, Nulls
    <2>3. kind'[target[u]] = "add" /\ place'[target[u]] # 0
      BY <1>1, <2>1, <2>2, PlacesStay DEF Keeps
    <2>4. pc[u] # "finTail" /\ desc'[target[u]].pending = 1 => next'[frame[u].last] = target[u]
      BY <2>1, <2>2 DEF Keeps
    <2>5. QED
      BY <1>2, <2>1, <2>3, <2>4
  <1>9. EmptyInv(u)'
    <2>1. pc[u] = "pollCheck" /\ frame[u].next = NoNode => sawEmpty'[u]
      BY <1>1, <1>2, SawStays DEF EmptyInv
    <2>2. ASSUME (pc[u] = "deqCheck" /\ frame[u].next = NoNode) \/ pc[u] \in {"deqEmpty", "deqNull"},
                 desc'[target[u]].pending = 1
          PROVE  sawEmpty'[target[u][1]]
      <3>1. pc[u] \in DeqPc /\ role[u] # "fast"
        BY <1>1, <2>2, Roles DEF DeqPc
      <3>2. target[u] \in Op /\ desc[target[u]] # NoOp /\ target[u][1] \in Thread
        BY <1>7, <3>1, OpFacts
      <3>3. desc'[target[u]] # NoOp /\ desc[target[u]].pending = 1
        BY <2>2, <3>2 DEF Keeps
      <3>4. sawEmpty[target[u][1]] /\ role'[target[u][1]] = "self"
        BY <1>1, <2>2, <3>2, <3>3 DEF EmptyInv, PendingInv
      <3>5. QED
        BY <3>2, <3>4, SawStays
    <2>3. QED
      BY <1>2, <2>1, <2>2 DEF EmptyInv
  <1>10. QED
    BY <1>6, <1>8, <1>9

-----------------------------------------------------------------------------
(* What a thread knows after a step of its own.                            *)

\* A thread becomes an owner with a call nobody has answered.
LEMMA SelfStep ==
    ASSUME RInv, NEW t \in Thread, Step(t), role'[t] = "self"
    PROVE  result'[Current(t)] = None /\ Current(t)' = Current(t)
  <1>1. TypeOK /\ RoleInv(t) /\ CallInv(t) /\ ReturnInv(t) /\ calls' = calls
    BY Parts, LocalSteps DEF RInv, KInv
  <1>2. Current(t)' = Current(t)
    BY <1>1 DEF Current
  <1>3. CASE Announce(t)
    <2>1. pc[t] = "announce" /\ role[t] = "fast" /\ result' = result
      BY <1>1, <1>3, Roles DEF Announce, history
    <2>2. QED
      BY <1>1, <1>2, <2>1 DEF CallInv, Undone
  <1>4. CASE Register(t) \/ Help(t) \/ ResetTid(t) \/ ResetPhase(t) \/ Return(t)
    <2>1. role[t] # "self" \/ Return(t)
      BY <1>1, <1>4, Roles DEF Register, Help, ResetTid, ResetPhase
    <2>2. role'[t] # "self"
      BY <1>1, <1>4, <2>1 DEF Register, Help, ResetTid, ResetPhase, Return, TypeOK
    <2>3. QED
      BY <2>2
  <1>5. CASE PollCheck(t) \/ PollCas(t)
    <2>1. role[t] = "fast" /\ role' = role
      BY <1>1, <1>5, Roles DEF PollCheck, PollCas, PollPc
    <2>2. QED
      BY <2>1
  <1>6. CASE ~(Announce(t) \/ Register(t) \/ Help(t) \/ ResetTid(t) \/ ResetPhase(t) \/ Return(t)
               \/ PollCheck(t) \/ PollCas(t))
    <2>1. role' = role /\ result' = result
      BY <1>6 DEF Step, control, history, AddTail,
         AddNext, AddCheck, AddCas, AddSwing, FixTailCas, EnqPending, EnqTail, EnqNext, EnqCheck,
         EnqStill, EnqCas, FinTail, FinNext, FinCheck, FinPending, FinCas, PollHead, PollTail,
         PollNext, DeqPNode, DeqHead, DeqTail, DeqNext, DeqCheck, DeqCheckIf, DeqEmpty, DeqNull,
         DeqClaim, DeqReread, DeqStill, DeqCas, FinHead, FinHeadNext, FinRead, FinDone, FinDeq
    <2>2. QED
      BY <1>1, <1>2, <2>1 DEF ReturnInv
  <1>7. QED
    BY <1>3, <1>4, <1>5, <1>6

LEMMA NotDone ==
    ASSUME RInv, NEW t \in Thread, pc[t] \notin TailPc
    PROVE  frame[t].done = FALSE
  BY Parts, FrameTypes DEF RInv, KInv, DoneInv

\* A step to a label at which nothing more is known.
PlainPc == PcLabels \ {"return", "pollCheck", "deqCheck", "deqEmpty", "deqNull"}

LEMMA Plain ==
    ASSUME NEW t \in Thread, pc'[t] \in PlainPc, ~frame'[t].done,
           role'[t] = "self" => result'[Current(t)] = None /\ Current(t)' = Current(t)
    PROVE  ReturnInv(t)' /\ DoneInv(t)' /\ EmptyInv(t)'
  <1>1. ReturnInv(t)'
    BY DEF ReturnInv, PlainPc
  <1>2. DoneInv(t)'
    BY DEF DoneInv
  <1>3. EmptyInv(t)'
    BY DEF EmptyInv, PlainPc
  <1>4. QED
    BY <1>1, <1>2, <1>3

LEMMA PlainAgain ==
    ASSUME RInv, NEW t \in Thread, Step(t), Again(t), pc[t] \in WorkPc
    PROVE  ReturnInv(t)' /\ DoneInv(t)' /\ EmptyInv(t)'
  <1>1. frame'[t] = Blank /\ pc'[t] \in {"enqPending", "deqPNode", "addTail", "pollHead", "announce"}
    BY Parts, AgainTypes DEF RInv, HelpLoop, FastLoop
  <1>2. ~frame'[t].done
    BY <1>1 DEF Blank
  <1>3. pc'[t] \in PlainPc
    BY <1>1 DEF PlainPc, PcLabels
  <1>4. QED
    BY <1>2, <1>3, Plain, SelfStep

\* A helper leaves a descriptor that is done.
LEMMA HelpedOwn ==
    ASSUME RInv, NEW t \in Thread, Step(t), pc[t] \in EnqPc \cup DeqPc \cup FinPc, ~frame'[t].done,
           pc'[t] = Helped(t), role' = role, role[t] # "fast", desc'[target[t]].pending = 0
    PROVE  ReturnInv(t)' /\ DoneInv(t)' /\ EmptyInv(t)'
  <1>1. IInv /\ CallInv(t) /\ Helped(t) \in {"resetTid", "return"} /\ (Helped(t) = "return" => role[t] # "help")
    BY Parts, HelpedAllowed DEF RInv, Helped
  <1>2. role[t] \in {"help", "self"}
    BY <1>1, Parts, Roles
  <1>3. DoneInv(t)' /\ EmptyInv(t)'
    BY <1>1 DEF DoneInv, EmptyInv
  <1>4. role[t] = "self" => ReturnInv(t)'
    <2>1. role[t] = "self" => target[t] = Current(t)
      BY <1>1 DEF CallInv
    <2>2. QED
      BY <2>1, SelfStep DEF ReturnInv
  <1>5. role[t] = "help" => ReturnInv(t)'
    BY <1>1 DEF ReturnInv, Helped
  <1>6. QED
    BY <1>2, <1>3, <1>4, <1>5

\* Steps at which nothing is decided.
LEMMA PlainSteps ==
    ASSUME RInv, NEW t \in Thread,
           \/ Register(t) \/ Help(t) \/ ResetTid(t) \/ ResetPhase(t) \/ Announce(t) \/ Return(t)
           \/ AddTail(t) \/ AddNext(t) \/ EnqTail(t) \/ EnqNext(t) \/ PollHead(t) \/ PollTail(t)
           \/ DeqHead(t) \/ DeqTail(t) \/ DeqClaim(t) \/ DeqStill(t) \/ DeqCas(t)
           \/ FinHeadNext(t) \/ FinRead(t) \/ FinDone(t)
    PROVE  ReturnInv(t)' /\ DoneInv(t)' /\ EmptyInv(t)'
  <1>1. TypeOK /\ pc \in [Thread -> PcLabels] /\ frame \in [Thread -> Frame] /\ frame[t] \in Frame
    BY Parts DEF RInv, TypeOK
  <1>2. pc[t] \notin TailPc
    BY DEF TailPc, Register, Help, ResetTid, ResetPhase, Announce, Return, AddTail, AddNext, EnqTail,
       EnqNext, PollHead, PollTail, DeqHead, DeqTail, DeqClaim, DeqStill, DeqCas, FinHeadNext,
       FinRead, FinDone
  <1>3. ~frame[t].done
    BY <1>2, NotDone
  <1>4. ~frame'[t].done
    <2>1. CASE Register(t) \/ Help(t) \/ ResetTid(t) \/ ResetPhase(t) \/ Announce(t)
               \/ DeqClaim(t) \/ DeqStill(t) \/ DeqCas(t) \/ FinDone(t)
      BY <1>3, <2>1 DEF Register, Help, ResetTid, ResetPhase, Announce, DeqClaim, DeqStill, DeqCas,
         FinDone
    <2>2. CASE Return(t)
      BY <1>1, <2>2 DEF Return, Forget, Blank
    <2>3. CASE AddTail(t) \/ AddNext(t) \/ EnqTail(t) \/ EnqNext(t) \/ PollHead(t) \/ PollTail(t)
               \/ DeqHead(t) \/ DeqTail(t) \/ FinHeadNext(t) \/ FinRead(t)
      BY <1>1, <1>3, <2>3 DEF AddTail, AddNext, EnqTail, EnqNext, PollHead, PollTail, DeqHead,
         DeqTail, FinHeadNext, FinRead, Frame
    <2>4. QED
      BY <2>1, <2>2, <2>3
  <1>5. pc'[t] \in PlainPc
    BY <1>1 DEF Goto, FastLoop, PlainPc, PcLabels, Register, Help, ResetTid, ResetPhase, Announce,
       Return, AddTail, AddNext, EnqTail, EnqNext, PollHead, PollTail, DeqHead, DeqTail, DeqClaim,
       DeqStill, DeqCas, FinHeadNext, FinRead, FinDone
  <1>6. Step(t)
    BY DEF Step
  <1>7. QED
    BY <1>4, <1>5, <1>6, Plain, SelfStep

\* Steps that end a round, or go on with nothing decided.
LEMMA RoundSteps ==
    ASSUME RInv, NEW t \in Thread,
           AddCheck(t) \/ AddCas(t) \/ FixTailCas(t) \/ EnqCheck(t) \/ EnqStill(t)
           \/ FinHead(t) \/ FinDeq(t)
    PROVE  ReturnInv(t)' /\ DoneInv(t)' /\ EmptyInv(t)'
  <1>1. TypeOK /\ pc \in [Thread -> PcLabels] /\ frame \in [Thread -> Frame] /\ frame[t] \in Frame
    BY Parts DEF RInv, TypeOK
  <1>2. pc[t] \notin TailPc /\ pc[t] \in WorkPc /\ Step(t)
    BY DEF Step, TailPc, WorkPc, EnqPc, DeqPc, FinPc, AddPc, PollPc, AddCheck, AddCas, FixTailCas,
       EnqCheck, EnqStill, FinHead, FinDeq
  <1>3. CASE Again(t)
    BY <1>2, <1>3, PlainAgain
  <1>4. CASE ~Again(t)
    <2>1. ~frame'[t].done
      BY <1>1, <1>2, <1>4, NotDone DEF AddCheck, AddCas, FixTailCas, EnqCheck, EnqStill, FinHead,
         FinDeq, Frame
    <2>2. pc'[t] \in PlainPc
      BY <1>1, <1>4 DEF Goto, FixTail, PlainPc, PcLabels, AddCheck, AddCas, FixTailCas, EnqCheck,
         EnqStill, FinHead, FinDeq
    <2>3. QED
      BY <1>2, <2>1, <2>2, Plain, SelfStep
  <1>5. QED
    BY <1>3, <1>4

\* The node of an add of the fast path is in the list when the add returns.
LEMMA AddSwingOwn ==
    ASSUME RInv, Watch, NEW t \in Thread, AddSwing(t)
    PROVE  ReturnInv(t)' /\ DoneInv(t)' /\ EmptyInv(t)'
  <1>1. /\ IInv /\ TypeOK /\ ListInv /\ RoleInv(t) /\ CallInv(t) /\ pc[t] = "addSwing"
        /\ role[t] = "fast" /\ Adding(t) /\ frame[t].last \in Node
    BY Parts, Roles, FrameTypes DEF RInv, AddSwing, RoleInv, AddPc
  <1>2. /\ pc'[t] = "return" /\ ~frame'[t].done /\ role' = role /\ kind' = kind /\ calls' = calls
    BY <1>1, NotDone DEF AddSwing, Goto, TypeOK, TailPc, control, history
  <1>3. place[Current(t)] # 0 /\ Current(t) \in Op
    <2>1. next[frame[t].last] = Current(t) /\ Current(t) \in Op
      BY <1>1, CurrentOp DEF CallInv
    <2>2. QED
      BY <1>1, <2>1 DEF ListInv, Linked
  <1>4. place'[Current(t)] # 0
    BY <1>1, <1>3, PlacesStay
  <1>5. QED
    BY <1>1, <1>2, <1>4 DEF ReturnInv, DoneInv, EmptyInv, Adding, Current

\* A helper that finds its descriptor done leaves it.
LEMMA PendingOwn ==
    ASSUME RInv, NEW t \in Thread, EnqPending(t) \/ DeqPNode(t) \/ DeqReread(t)
    PROVE  ReturnInv(t)' /\ DoneInv(t)' /\ EmptyInv(t)'
  <1>1. /\ IInv /\ TypeOK /\ CallInv(t) /\ frame[t] \in Frame /\ pc[t] \in EnqPc \cup DeqPc
        /\ pc[t] \notin TailPc
    BY Parts, FrameTypes DEF RInv, EnqPending, DeqPNode, DeqReread, EnqPc, DeqPc, TailPc
  <1>2. role[t] \in {"help", "self"} /\ Step(t) /\ role' = role /\ desc' = desc /\ target' = target
    BY <1>1, Parts, Roles DEF Step, EnqPending, DeqPNode, DeqReread, control, shared
  <1>3. desc[target[t]].pending \in {0, 1}
    <2>1. target[t] \in Op /\ desc[target[t]] # NoOp
      BY <1>1, <1>2 DEF CallInv, TypeOK
    <2>2. QED
      BY <1>1, <2>1, SharedTypes
  <1>4. ~frame'[t].done
    <2>1. ~frame[t].done
      BY <1>1, NotDone
    <2>2. frame \in [Thread -> Frame]
      BY <1>1 DEF TypeOK
    <2>3. \/ frame' = frame \/ frame' = [frame EXCEPT ![t] = Blank]
          \/ \E p : frame' = [frame EXCEPT ![t].pNode = p]
          \/ \E p, n : frame' = [frame EXCEPT ![t].pNode = p, ![t].first = n]
      BY DEF EnqPending, DeqPNode, DeqReread, Forget
    <2>4. ASSUME NEW p, frame' = [frame EXCEPT ![t].pNode = p]
          PROVE  frame'[t].done = frame[t].done
      BY <1>1, <2>2, <2>4 DEF Frame
    <2>5. ASSUME NEW p, NEW n, frame' = [frame EXCEPT ![t].pNode = p, ![t].first = n]
          PROVE  frame'[t].done = frame[t].done
      BY <1>1, <2>2, <2>5 DEF Frame
    <2>6. frame' = [frame EXCEPT ![t] = Blank] => ~frame'[t].done
      BY <2>2 DEF Blank
    <2>7. QED
      BY <2>1, <2>3, <2>4, <2>5, <2>6
  <1>5. pc'[t] \in {"enqTail", "deqHead", "deqStill"}
        \/ (pc'[t] = Helped(t) /\ desc[target[t]].pending = 0)
    BY <1>1, <1>3 DEF EnqPending, DeqPNode, DeqReread, Goto, TypeOK
  <1>6. CASE pc'[t] \in {"enqTail", "deqHead", "deqStill"}
    <2>1. pc'[t] \in PlainPc
      BY <1>6 DEF PlainPc, PcLabels
    <2>2. QED
      BY <1>2, <1>4, <2>1, Plain, SelfStep
  <1>7. CASE pc'[t] = Helped(t) /\ desc[target[t]].pending = 0
    BY <1>1, <1>2, <1>4, <1>7, HelpedOwn
  <1>8. QED
    BY <1>5, <1>6, <1>7

\* The helper that links the node goes on to helpFinishEnq, and will be done.
LEMMA EnqCasOwn ==
    ASSUME RInv, IInv', NEW t \in Thread, EnqCas(t)
    PROVE  ReturnInv(t)' /\ DoneInv(t)' /\ EmptyInv(t)'
  <1>1. /\ TypeOK /\ CallInv(t) /\ frame[t].last \in Node /\ pc[t] = "enqCas" /\ pc[t] \in EnqPc
        /\ pc[t] \in WorkPc /\ Step(t) /\ role[t] \in {"help", "self"}
    BY Parts, FrameTypes, Roles DEF RInv, EnqCas, EnqPc, WorkPc, Step
  <1>2. target[t] \in Op /\ kind[target[t]] = "add"
    BY <1>1 DEF CallInv, TypeOK
  <1>3. CASE next[frame[t].last] # NoNode
    <2>1. Again(t)
      BY <1>3 DEF EnqCas
    <2>2. QED
      BY <1>1, <2>1, PlainAgain
  <1>4. CASE next[frame[t].last] = NoNode
    <2>1. /\ pc'[t] = "finTail" /\ role' = role /\ kind' = kind /\ target' = target
          /\ next'[frame[t].last] = target[t]
      BY <1>1, <1>4 DEF EnqCas, CasNext, Goto, TypeOK, history
    <2>2. place'[target[t]] # 0
      <3>1. \E n \in Node : next'[n] = target[t]
        BY <1>1, <2>1
      <3>2. \A o \in Op : (\E n \in Node : next'[n] = o) => place'[o] # 0
        BY DEF IInv, SharedInv, ListInv, Linked
      <3>3. QED
        BY <1>2, <3>1, <3>2
    <2>3. DoneInv(t)'
      BY <1>1, <1>2, <2>1, <2>2 DEF DoneInv, TailPc
    <2>4. ReturnInv(t)' /\ EmptyInv(t)'
      BY <1>1, <2>1, SelfStep DEF ReturnInv, EmptyInv
    <2>5. QED
      BY <2>3, <2>4
  <1>5. QED
    BY <1>3, <1>4

\* What a thread with "done" set knows of its descriptor.
LEMMA DoneFacts ==
    ASSUME RInv, NEW t \in Thread, frame[t].done
    PROVE  LET o == target[t]
           IN  /\ role[t] \in {"help", "self"} /\ pc[t] \in TailPc /\ pc[t] \in FinPc
               /\ o \in Op /\ o # NoNode /\ desc[o] # NoOp /\ desc[o].pending \in {0, 1}
               /\ kind[o] = "add" /\ place[o] # 0
               /\ desc[o].pending = 1 => next[tail] = o
               /\ desc[o].pending = 1 /\ pc[t] # "finTail" => next[frame[t].last] = o
  <1>1. TypeOK /\ DescInv /\ RoleInv(t) /\ CallInv(t) /\ DoneInv(t)
    BY Parts DEF RInv, KInv
  <1>2. /\ role[t] # "fast" /\ pc[t] \in TailPc /\ kind[target[t]] = "add" /\ place[target[t]] # 0
        /\ pc[t] # "finTail" /\ desc[target[t]].pending = 1 => next[frame[t].last] = target[t]
    BY <1>1 DEF DoneInv
  <1>3. pc[t] \in FinPc /\ role[t] \in {"help", "self"}
    BY <1>1, <1>2, Roles DEF TailPc, FinPc
  <1>4. target[t] \in Op /\ target[t] # NoNode /\ desc[target[t]] # NoOp
    BY <1>1, <1>3, Nulls DEF CallInv, TypeOK
  <1>5. desc[target[t]].pending \in {0, 1}
    BY <1>1, <1>4, SharedTypes
  <1>6. desc[target[t]].pending = 1 => next[tail] = target[t]
    BY <1>1, <1>2, <1>4 DEF DescInv, EnqInv
  <1>7. QED
    BY <1>2, <1>3, <1>4, <1>5, <1>6

\* helpFinishEnq ends: with "done" set, only when the descriptor is done.
LEMMA FinishedOwn ==
    ASSUME RInv, NEW t \in Thread, Step(t), pc[t] \in TailPc, Finished(t), role' = role, desc' = desc,
           frame[t].done => desc[target[t]].pending = 0
    PROVE  ReturnInv(t)' /\ DoneInv(t)' /\ EmptyInv(t)'
  <1>1. pc[t] \in FinPc /\ pc[t] \in WorkPc
    BY DEF TailPc, FinPc, WorkPc
  <1>2. CASE ~frame[t].done
    <2>1. Again(t)
      BY <1>2 DEF Finished
    <2>2. QED
      BY <1>1, <2>1, PlainAgain
  <1>3. CASE frame[t].done
    <2>1. Goto(t, Helped(t)) /\ Forget(t)
      BY <1>3 DEF Finished
    <2>2. pc'[t] = Helped(t) /\ ~frame'[t].done
      BY <2>1, Parts DEF RInv, TypeOK, Goto, Forget, Blank
    <2>3. role[t] # "fast"
      BY <1>3, DoneFacts
    <2>4. QED
      BY <1>1, <1>3, <2>2, <2>3, HelpedOwn
  <1>4. QED
    BY <1>2, <1>3

\* helpFinishEnq goes on to the CAS on tail.
LEMMA FinGoesOn ==
    ASSUME RInv, Watch, NEW t \in Thread, Step(t), Keeps(t), pc[t] \in TailPc,
           role' = role, target' = target, kind' = kind, next' = next,
           pc'[t] \in TailPc \ {"finTail"}, frame'[t].done = frame[t].done,
           \/ pc[t] = "finTail" /\ frame'[t].last = tail
           \/ pc[t] # "finTail" /\ frame'[t].last = frame[t].last
    PROVE  ReturnInv(t)' /\ DoneInv(t)' /\ EmptyInv(t)'
  <1>1. ReturnInv(t)' /\ EmptyInv(t)'
    BY SelfStep DEF ReturnInv, EmptyInv, TailPc
  <1>2. CASE ~frame[t].done
    BY <1>1, <1>2 DEF DoneInv
  <1>3. CASE frame[t].done
    <2> DEFINE o == target[t]
    <2>1. /\ role[t] # "fast" /\ o \in Op /\ desc[o] # NoOp /\ kind[o] = "add" /\ place[o] # 0
          /\ desc[o].pending = 1 => next[tail] = o
          /\ desc[o].pending = 1 /\ pc[t] # "finTail" => next[frame[t].last] = o
      BY <1>3, DoneFacts
    <2>2. desc'[o].pending = 1 => next'[frame'[t].last] = o
      BY <2>1 DEF Keeps
    <2>3. place'[o] # 0
      <3>1. IInv
        BY DEF RInv
      <3>2. QED
        BY <2>1, <3>1, PlacesStay
    <2>4. DoneInv(t)'
      BY <2>1, <2>2, <2>3 DEF DoneInv
    <2>5. QED
      BY <1>1, <2>4
  <1>4. QED
    BY <1>2, <1>3

LEMMA FinTailOwn ==
    ASSUME RInv, Watch, NEW t \in Thread, FinTail(t) \/ FinPending(t)
    PROVE  ReturnInv(t)' /\ DoneInv(t)' /\ EmptyInv(t)'
  <1>1. /\ IInv /\ TypeOK /\ Step(t) /\ pc[t] \in TailPc /\ Keeps(t) /\ frame[t] \in Frame
    BY Parts, FrameTypes, KeepsStep DEF RInv, Step, TailPc, FinTail, FinPending
  <1>2. role' = role /\ target' = target /\ kind' = kind /\ next' = next
    BY DEF FinTail, FinPending, control, history, shared
  <1>3. pc'[t] \in TailPc \ {"finTail"}
    BY <1>1 DEF FinTail, FinPending, Goto, TypeOK, TailPc
  <1>4. /\ frame'[t].done = frame[t].done
        /\ \/ pc[t] = "finTail" /\ frame'[t].last = tail
           \/ pc[t] # "finTail" /\ frame'[t].last = frame[t].last
    BY <1>1 DEF FinTail, FinPending, Frame, TypeOK
  <1>5. QED
    BY <1>1, <1>2, <1>3, <1>4, FinGoesOn

\* No next node behind the tail that was read, or another tail: the node that
\* was linked has been passed.
LEMMA FinNextOwn ==
    ASSUME RInv, Watch, NEW t \in Thread, FinNext(t) \/ FinCheck(t)
    PROVE  ReturnInv(t)' /\ DoneInv(t)' /\ EmptyInv(t)'
  <1> DEFINE o == target[t]
  <1>1. /\ IInv /\ TypeOK /\ ListInv /\ Step(t) /\ pc[t] \in TailPc /\ pc[t] # "finTail" /\ Keeps(t)
        /\ frame[t] \in Frame /\ frame[t].last \in Node /\ tail \in Node
    BY Parts, FrameTypes, KeepsStep DEF RInv, Step, TailPc, FinNext, FinCheck
  <1>2. role' = role /\ target' = target /\ kind' = kind /\ next' = next /\ desc' = desc
    BY DEF FinNext, FinCheck, history, shared
  <1>3. CASE Finished(t) /\ (next[frame[t].last] = NoNode \/ frame[t].last # tail)
    <2>1. ASSUME frame[t].done PROVE desc[o].pending = 0
      <3>1. /\ o # NoNode /\ desc[o].pending \in {0, 1}
            /\ desc[o].pending = 1 => next[tail] = o /\ next[frame[t].last] = o
        BY <1>1, <2>1, DoneFacts
      <3>2. desc[o].pending = 1 => frame[t].last = tail
        BY <1>1, <3>1, ChainLinkedOnce DEF LinkedOnce
      <3>3. QED
        BY <1>3, <3>1, <3>2
    <2>2. QED
      BY <1>1, <1>2, <1>3, <2>1, FinishedOwn
  <1>4. CASE ~(Finished(t) /\ (next[frame[t].last] = NoNode \/ frame[t].last # tail))
    <2>1. pc'[t] \in TailPc \ {"finTail"}
      BY <1>1, <1>4 DEF FinNext, FinCheck, Goto, TypeOK, TailPc
    <2>2. frame'[t].done = frame[t].done /\ frame'[t].last = frame[t].last
      BY <1>1, <1>4 DEF FinNext, FinCheck, Frame, TypeOK
    <2>3. QED
      BY <1>1, <1>2, <2>1, <2>2, FinGoesOn
  <1>5. QED
    BY <1>3, <1>4

\* Behind the CAS on tail the node that was linked has been passed.
LEMMA FinCasOwn ==
    ASSUME RInv, NEW t \in Thread, FinCas(t)
    PROVE  ReturnInv(t)' /\ DoneInv(t)' /\ EmptyInv(t)'
  <1> DEFINE o == target[t]
  <1>1. /\ TailInv(t) /\ Step(t) /\ pc[t] = "finCas" /\ pc[t] \in TailPc /\ Finished(t)
        /\ role' = role /\ desc' = desc
    BY Parts DEF RInv, Step, TailPc, FinCas
  <1>2. ASSUME frame[t].done PROVE desc[o].pending = 0
    <2>1. /\ desc[o] # NoOp /\ desc[o].pending \in {0, 1}
          /\ desc[o].pending = 1 => next[frame[t].last] = o
      BY <1>1, <1>2, DoneFacts
    <2>2. /\ next[frame[t].last] = frame[t].next
          /\ desc[frame[t].next] = NoOp \/ desc[frame[t].next].pending = 0
      BY <1>1 DEF TailInv
    <2>3. QED
      BY <2>1, <2>2
  <1>3. QED
    BY <1>1, <1>2, FinishedOwn

\* Nothing behind a node that was the head's: the queue is empty.
LEMMA EmptyAt ==
    ASSUME IInv, NEW h \in NodeHead, HeadPast(h), next[h.node] = NoNode
    PROVE  front = back
  <1>1. TypeOK /\ ListInv /\ EndsInv
    BY DEF IInv, SharedInv
  <1>2. /\ h.node \in Node /\ Listed(h.node) /\ pos(h.node) \in Nat /\ pos(head.node) \in Nat
        /\ pos(tail) \in Nat /\ back \in Nat
        /\ pos(h.node) <= pos(head.node) /\ pos(head.node) <= pos(tail) /\ pos(tail) <= back
    BY PastTail
  <1>3. pos(h.node) = back
    BY <1>1, <1>2 DEF ListInv
  <1>4. pos(head.node) = back /\ ~(pos(head.node) < pos(tail))
    BY <1>2, <1>3
  <1>5. head.opDesc = NoOp
    BY <1>1, <1>4 DEF EndsInv
  <1>6. QED
    BY <1>2, <1>4, <1>5 DEF front, pos

\* A thread that is in its call sees that.
LEMMA SeesEmpty ==
    ASSUME IInv, Watch, Quiet, front = back, NEW u \in Thread, pc'[u] # "idle"
    PROVE  sawEmpty'[u]
  <1>1. place' = place /\ back' = back
    BY SamePlaces DEF IInv, SharedInv, Quiet
  <1>2. front' = front
    BY <1>1 DEF front, Quiet
  <1>3. QED
    BY <1>1, <1>2 DEF Watch, inCall

LEMMA PollNextOwn ==
    ASSUME RInv, Watch, NEW t \in Thread, PollNext(t)
    PROVE  ReturnInv(t)' /\ DoneInv(t)' /\ EmptyInv(t)'
  <1> DEFINE h == frame[t].localHead
  <1>1. /\ IInv /\ TypeOK /\ HeadInv(t) /\ frame[t] \in Frame /\ h \in NodeHead
        /\ pc[t] = "pollNext" /\ Quiet /\ Step(t)
    BY Parts, FrameTypes, QuietSteps DEF RInv, PollNext, Step
  <1>2. pc'[t] = "pollCheck" /\ ~frame'[t].done /\ frame'[t].next = next[h.node]
    <2>1. ~frame[t].done
      BY <1>1, NotDone DEF TailPc
    <2>2. QED
      BY <1>1, <2>1 DEF PollNext, Goto, Frame, TypeOK
  <1>3. next[h.node] = NoNode => sawEmpty'[t]
    <2>1. HeadPast(h)
      BY <1>1 DEF HeadInv, HeadRead
    <2>2. QED
      BY <1>1, <1>2, <2>1, EmptyAt, SeesEmpty
  <1>4. QED
    BY <1>1, <1>2, <1>3, SelfStep DEF ReturnInv, DoneInv, EmptyInv

\* A poll of the fast path that returns has its answer.
LEMMA PollOwn ==
    ASSUME RInv, NEW t \in Thread, PollCheck(t) \/ PollCas(t)
    PROVE  ReturnInv(t)' /\ DoneInv(t)' /\ EmptyInv(t)'
  <1> DEFINE n == frame[t].next
  <1>1. /\ TypeOK /\ RoleInv(t) /\ CallInv(t) /\ HeadInv(t) /\ pc[t] \in PollPc /\ pc[t] \in WorkPc
        /\ pc[t] # "idle" /\ Step(t) /\ n \in Node \cup {NoNode}
        /\ pc[t] \notin TailPc
    BY Parts, FrameTypes DEF RInv, PollCheck, PollCas, PollPc, WorkPc, Step, TailPc
  <1>2. role[t] = "fast" /\ ~Adding(t) /\ Current(t) \in Op
    BY <1>1, Roles, CurrentOp DEF RoleInv, CallInv
  <1>3. /\ role' = role /\ kind' = kind /\ calls' = calls /\ Current(t)' = Current(t)
    BY DEF PollCheck, PollCas, Current
  <1>4. CASE Again(t)
    BY <1>1, <1>4, PlainAgain
  <1>5. CASE /\ frame' = frame /\ pc'[t] = "return"
             /\ \E a \in Op \cup {Empty} : result' = [result EXCEPT ![Current(t)] = a]
    <2>1. result'[Current(t)] # None
      BY <1>1, <1>2, <1>5, Nulls DEF TypeOK
    <2>2. ReturnInv(t)'
      BY <1>2, <1>3, <2>1 DEF ReturnInv, Adding
    <2>3. QED
      BY <1>1, <1>5, <2>2, NotDone DEF DoneInv, EmptyInv
  <1>6. CASE frame' = frame /\ pc'[t] \in {"fixTail", "finTail", "pollCas", "finHead"}
    <2>1. pc'[t] \in PlainPc
      BY <1>6 DEF PlainPc, PcLabels
    <2>2. QED
      BY <1>1, <1>6, <2>1, Plain, SelfStep, NotDone
  <1>7. PollCheck(t) => Again(t) \/ (frame' = frame /\ pc'[t] \in {"fixTail", "finTail", "pollCas", "finHead"})
                        \/ /\ frame' = frame /\ pc'[t] = "return"
                           /\ result' = [result EXCEPT ![Current(t)] = Empty]
    BY <1>1 DEF PollCheck, FixTail, Goto, TypeOK
  <1>8. PollCas(t) => Again(t) \/ /\ frame' = frame /\ pc'[t] = "return" /\ n \in Op
                                  /\ result' = [result EXCEPT ![Current(t)] = n]
    <2>1. PollCas(t) => n \in Op
      <3>1. PollCas(t) => n # NoNode /\ next[frame[t].localHead.node] = n
        BY <1>1 DEF PollCas, HeadInv
      <3>2. QED
        BY <1>1, <3>1, FrameTypes, SharedTypes
    <2>2. QED
      BY <1>1, <2>1 DEF PollCas, Goto, TypeOK
  <1>9. QED
    BY <1>4, <1>5, <1>6, <1>7, <1>8

\* The owner of a descriptor that is still pending sees the empty queue too.
LEMMA DeqNextOwn ==
    ASSUME RInv, IInv', PendingInv', Watch, NEW t \in Thread, DeqNext(t)
    PROVE  ReturnInv(t)' /\ DoneInv(t)' /\ EmptyInv(t)'
  <1> DEFINE h == frame[t].localHead
             o == target[t]
  <1>1. /\ IInv /\ TypeOK /\ HeadInv(t) /\ frame[t] \in Frame /\ h \in NodeHead
        /\ pc[t] = "deqNext" /\ pc[t] \in DeqPc /\ Quiet /\ Step(t) /\ target' = target
    BY Parts, FrameTypes, QuietSteps DEF RInv, DeqNext, Step, DeqPc, control
  <1>2. pc'[t] = "deqCheck" /\ ~frame'[t].done /\ frame'[t].next = next[h.node]
    <2>1. ~frame[t].done
      BY <1>1, NotDone DEF TailPc
    <2>2. QED
      BY <1>1, <2>1 DEF DeqNext, Goto, Frame, TypeOK
  <1>3. ASSUME next[h.node] = NoNode, desc'[o].pending = 1
        PROVE  sawEmpty'[o[1]]
    <2>1. HeadPast(h)
      BY <1>1 DEF HeadInv, HeadRead
    <2>2. o \in Op /\ desc[o] # NoOp /\ o[1] \in Thread
      BY <1>1, DeqFacts, OpFacts
    <2>3. role'[o[1]] = "self"
      BY <1>1, <1>3, <2>2 DEF PendingInv, Quiet
    <2>4. pc'[o[1]] # "idle"
      BY <2>2, <2>3 DEF IInv, RoleInv, EnqPc, DeqPc, FinPc
    <2>5. QED
      BY <1>1, <1>3, <2>1, <2>2, <2>4, EmptyAt, SeesEmpty
  <1>4. QED
    BY <1>1, <1>2, <1>3, SelfStep DEF ReturnInv, DoneInv, EmptyInv

LEMMA DeqCheckOwn ==
    ASSUME RInv, IInv', PendingInv', Watch, NEW t \in Thread, DeqCheck(t) \/ DeqEmpty(t)
    PROVE  ReturnInv(t)' /\ DoneInv(t)' /\ EmptyInv(t)'
  <1> DEFINE o == target[t]
  <1>1. /\ IInv /\ TypeOK /\ EmptyInv(t) /\ pc[t] \in DeqPc /\ pc[t] \in WorkPc /\ pc[t] \notin TailPc
        /\ Quiet /\ Step(t) /\ target' = target
    BY Parts, QuietSteps DEF RInv, KInv, DeqCheck, DeqCheckIf, DeqEmpty, Step, DeqPc, WorkPc, TailPc
  <1>2. CASE Again(t)
    BY <1>1, <1>2, PlainAgain
  <1>3. CASE frame' = frame /\ pc'[t] \in {"finTail", "finHead", "deqClaim", "deqStill"}
    <2>1. pc'[t] \in PlainPc
      BY <1>3 DEF PlainPc, PcLabels
    <2>2. QED
      BY <1>1, <1>3, <2>1, Plain, SelfStep, NotDone
  <1>4. CASE /\ frame' = frame /\ pc'[t] \in {"deqEmpty", "deqNull"}
             /\ (pc[t] = "deqCheck" /\ frame[t].next = NoNode) \/ pc[t] = "deqEmpty"
    <2>1. ASSUME desc'[o].pending = 1
          PROVE  sawEmpty'[o[1]]
      <3>1. o \in Op /\ desc[o] # NoOp /\ o[1] \in Thread
        BY <1>1, DeqFacts, OpFacts
      <3>2. sawEmpty[o[1]]
        BY <1>1, <1>4, <2>1 DEF EmptyInv, Quiet
      <3>3. role'[o[1]] = "self"
        BY <1>1, <2>1, <3>1 DEF PendingInv, Quiet
      <3>4. pc'[o[1]] # "idle"
        BY <3>1, <3>3 DEF IInv, RoleInv, EnqPc, DeqPc, FinPc
      <3>5. QED
        BY <3>1, <3>2, <3>4, SawStays
    <2>2. QED
      BY <1>1, <1>4, <2>1, SelfStep, NotDone DEF ReturnInv, DoneInv, EmptyInv
  <1>5. QED
    <2>1. DeqCheck(t) => \/ Again(t)
                         \/ frame' = frame /\ pc'[t] \in {"finTail", "finHead", "deqClaim", "deqStill"}
                         \/ /\ frame' = frame /\ pc'[t] = "deqEmpty"
                            /\ pc[t] = "deqCheck" /\ frame[t].next = NoNode
      BY <1>1 DEF DeqCheck, DeqCheckIf, Goto, TypeOK
    <2>2. DeqEmpty(t) => Again(t) \/ (frame' = frame /\ pc'[t] = "deqNull" /\ pc[t] = "deqEmpty")
      BY <1>1 DEF DeqEmpty, Goto, TypeOK
    <2>3. QED
      BY <1>2, <1>3, <1>4, <2>1, <2>2

LEMMA DeqNullOwn ==
    ASSUME RInv, NEW t \in Thread, DeqNull(t)
    PROVE  ReturnInv(t)' /\ DoneInv(t)' /\ EmptyInv(t)'
  <1>1. /\ IInv /\ TypeOK /\ pc[t] = "deqNull" /\ pc[t] \in DeqPc /\ pc[t] \in WorkPc /\ Step(t)
        /\ role' = role
    BY Parts DEF RInv, DeqNull, DeqPc, WorkPc, Step
  <1>2. CASE desc[target[t]] # frame[t].pNode
    <2>1. Again(t)
      BY <1>2 DEF DeqNull
    <2>2. QED
      BY <1>1, <2>1, PlainAgain
  <1>3. CASE desc[target[t]] = frame[t].pNode
    <2>1. target[t] \in Op /\ role[t] \in {"help", "self"}
      BY <1>1, DeqFacts
    <2>2. pc'[t] = Helped(t) /\ ~frame'[t].done
      BY <1>1, <1>3 DEF DeqNull, Goto, Forget, Blank, TypeOK
    <2>3. desc'[target[t]].pending = 0
      BY <1>1, <1>3, <2>1 DEF DeqNull, CasPNode, TypeOK
    <2>4. QED
      BY <1>1, <2>1, <2>2, <2>3, HelpedOwn
  <1>4. QED
    BY <1>2, <1>3

\* A thread begins its next call.
LEMMA BeginOwn ==
    ASSUME RInv, NEW t \in Thread, NEW k \in {"add", "poll"}, Begin(t, k)
    PROVE  ReturnInv(t)' /\ DoneInv(t)' /\ EmptyInv(t)'
  <1>1. /\ pc[t] = "idle" /\ pc[t] \notin TailPc
        /\ pc \in [Thread -> PcLabels] /\ role \in [Thread -> {"new", "help", "fast", "self"}]
    BY Parts DEF RInv, TypeOK, Begin, TailPc
  <1>2. pc'[t] \in {"register", "help"} /\ role'[t] = "help" /\ frame' = frame
    BY <1>1 DEF Begin, Goto
  <1>3. pc'[t] \in PlainPc
    BY <1>2 DEF PlainPc, PcLabels
  <1>4. ~frame'[t].done
    BY <1>1, <1>2, NotDone
  <1>5. QED
    BY <1>2, <1>3, <1>4, Plain

\* What a step of t leaves to t itself.
LEMMA OwnStep ==
    ASSUME RInv, IInv', PendingInv', Watch, NEW t \in Thread, Step(t)
    PROVE  ReturnInv(t)' /\ DoneInv(t)' /\ EmptyInv(t)'
  <1>1. CASE \/ Register(t) \/ Help(t) \/ ResetTid(t) \/ ResetPhase(t) \/ Announce(t) \/ Return(t)
             \/ AddTail(t) \/ AddNext(t) \/ EnqTail(t) \/ EnqNext(t) \/ PollHead(t) \/ PollTail(t)
             \/ DeqHead(t) \/ DeqTail(t) \/ DeqClaim(t) \/ DeqStill(t) \/ DeqCas(t)
             \/ FinHeadNext(t) \/ FinRead(t) \/ FinDone(t)
    BY <1>1, PlainSteps
  <1>2. CASE AddCheck(t) \/ AddCas(t) \/ FixTailCas(t) \/ EnqCheck(t) \/ EnqStill(t)
             \/ FinHead(t) \/ FinDeq(t)
    BY <1>2, RoundSteps
  <1>3. CASE AddSwing(t)
    BY <1>3, AddSwingOwn
  <1>4. CASE EnqPending(t) \/ DeqPNode(t) \/ DeqReread(t)
    BY <1>4, PendingOwn
  <1>5. CASE EnqCas(t)
    BY <1>5, EnqCasOwn
  <1>6. CASE FinTail(t) \/ FinPending(t)
    BY <1>6, FinTailOwn
  <1>7. CASE FinNext(t) \/ FinCheck(t)
    BY <1>7, FinNextOwn
  <1>8. CASE FinCas(t)
    BY <1>8, FinCasOwn
  <1>9. CASE PollNext(t)
    BY <1>9, PollNextOwn
  <1>10. CASE PollCheck(t) \/ PollCas(t)
    BY <1>10, PollOwn
  <1>11. CASE DeqNext(t)
    BY <1>11, DeqNextOwn
  <1>12. CASE DeqCheck(t) \/ DeqEmpty(t)
    BY <1>12, DeqCheckOwn
  <1>13. CASE DeqNull(t)
    BY <1>13, DeqNullOwn
  <1>14. QED
    BY <1>1, <1>2, <1>3, <1>4, <1>5, <1>6, <1>7, <1>8, <1>9, <1>10, <1>11, <1>12, <1>13 DEF Step

-----------------------------------------------------------------------------
(* The invariant the mapping relies on.                                    *)

LEMMA RInit == HInit => RInv
  <1> SUFFICES ASSUME HInit PROVE RInv
    OBVIOUS
  <1>1. IInv
    BY InitInv
  <1>2. PendingInv
    BY DEF HInit, Init, PendingInv
  <1>3. \A t \in Thread : /\ pc[t] = "idle" /\ role[t] = "fast" /\ ~frame[t].done
                          /\ sawEmpty[t] = FALSE
    BY DEF HInit, Init, Blank
  <1>4. SawInv
    BY <1>3 DEF SawInv, HInit
  <1>5. KInv
    BY <1>3 DEF KInv, ReturnInv, DoneInv, EmptyInv
  <1>6. QED
    BY <1>1, <1>2, <1>4, <1>5 DEF RInv

LEMMA RInductive == RInv /\ [HNext]_historyVars => RInv'
  <1> SUFFICES ASSUME RInv, [HNext]_historyVars PROVE RInv'
    OBVIOUS
  <1>1. IInv /\ IInv'
    BY Inductive DEF RInv
  <1>2. TypeOK' /\ \A v \in Thread : RoleInv(v)'
    BY <1>1 DEF IInv
  <1>3. \A v \in Thread : role'[v] = "self" => pc'[v] # "idle"
    BY <1>2 DEF RoleInv, EnqPc, DeqPc, FinPc
  <1>4. ASSUME NEW t \in Thread, Watch, Keeps(t),
               PendingInv' => ReturnInv(t)' /\ DoneInv(t)' /\ EmptyInv(t)'
        PROVE  RInv'
    <2>1. SawInv' /\ PendingInv'
      BY <1>4, SawStep, PendingStep
    <2>2. ASSUME NEW u \in Thread
          PROVE  ReturnInv(u)' /\ DoneInv(u)' /\ EmptyInv(u)'
      <3>1. CASE u = t
        BY <1>4, <2>1, <3>1
      <3>2. CASE u # t
        <4>1. RoleInv(u)'
          BY <1>2
        <4>2. QED
          BY <1>2, <1>3, <1>4, <2>1, <3>2, <4>1, OthersKeep
      <3>3. QED
        BY <3>1, <3>2
    <2>3. KInv'
      BY <2>2 DEF KInv
    <2>4. QED
      BY <1>1, <2>1, <2>3 DEF RInv
  <1>5. ASSUME NEW t \in Thread, NEW k \in {"add", "poll"}, Begin(t, k), Watch
        PROVE  RInv'
    <2>1. Keeps(t)
      BY <1>1, <1>5, KeepsBegin
    <2>2. ReturnInv(t)' /\ DoneInv(t)' /\ EmptyInv(t)'
      BY <1>5, BeginOwn
    <2>3. QED
      BY <1>4, <1>5, <2>1, <2>2
  <1>6. ASSUME NEW t \in Thread, Step(t), Watch
        PROVE  RInv'
    <2>1. Keeps(t)
      BY <1>1, <1>6, KeepsStep
    <2>2. PendingInv' => ReturnInv(t)' /\ DoneInv(t)' /\ EmptyInv(t)'
      BY <1>1, <1>6, OwnStep
    <2>3. QED
      BY <1>4, <1>6, <2>1, <2>2
  <1>7. CASE UNCHANGED historyVars
    <2>1. UNCHANGED <<next, head, desc, kind, calls, result, pc, role, target, frame, place, sawEmpty>>
      BY <1>7 DEF historyVars, vars
    <2>2. front' = front /\ back' = back
      BY <2>1 DEF front, back, Placed
    <2>3. PendingInv'
      BY <2>1 DEF RInv, PendingInv, Current
    <2>4. SawInv'
      BY <2>1, <2>2 DEF RInv, SawInv
    <2>5. KInv'
      BY <2>1 DEF RInv, KInv, ReturnInv, DoneInv, EmptyInv, Current, Adding
    <2>6. QED
      BY <1>1, <2>3, <2>4, <2>5 DEF RInv
  <1>8. QED
    BY <1>5, <1>6, <1>7 DEF HNext, Next

LEMMA RInvariance == HSpec => []RInv
  <1>1. QED
    BY RInit, RInductive, PTL DEF HSpec

-----------------------------------------------------------------------------
(* The mapping: what the abstract queue sees of a step.                    *)

\* A thread leaves its call only by returning.
LEMMA InCallStep ==
    ASSUME TypeOK, NEW t \in Thread, Step(t), ~Return(t)
    PROVE  pc[t] # "idle" /\ inCall' = inCall
  <1> USE DEF Goto, Again, Finished, FixTail, HelpLoop, FastLoop, Helped, TypeOK
  <1>1. pc[t] # "idle"
    BY DEF Step, Register, Help, ResetTid, ResetPhase, Announce, AddTail, AddNext,
       AddCheck, AddCas, AddSwing, FixTailCas, EnqPending, EnqTail, EnqNext, EnqCheck,
       EnqStill, EnqCas, FinTail, FinNext, FinCheck, FinPending, FinCas, PollHead, PollTail,
       PollNext, PollCheck, PollCas, DeqPNode, DeqHead, DeqTail, DeqNext, DeqCheck, DeqCheckIf,
       DeqEmpty, DeqNull, DeqClaim, DeqReread, DeqStill, DeqCas, FinHead, FinHeadNext, FinRead,
       FinDone, FinDeq
  <1>2. pc'[t] # "idle"
    <2>1. CASE Register(t) \/ Help(t) \/ ResetTid(t) \/ ResetPhase(t) \/ Announce(t)
      BY <2>1 DEF Register, Help, ResetTid, ResetPhase, Announce
    <2>2. CASE AddTail(t) \/ AddNext(t) \/ AddCheck(t) \/ AddCas(t) \/ AddSwing(t) \/ FixTailCas(t)
      BY <2>2 DEF AddTail, AddNext, AddCheck, AddCas, AddSwing, FixTailCas
    <2>3. CASE EnqPending(t) \/ EnqTail(t) \/ EnqNext(t) \/ EnqCheck(t) \/ EnqStill(t) \/ EnqCas(t)
      BY <2>3 DEF EnqPending, EnqTail, EnqNext, EnqCheck, EnqStill, EnqCas
    <2>4. CASE FinTail(t) \/ FinNext(t) \/ FinCheck(t) \/ FinPending(t) \/ FinCas(t)
      BY <2>4 DEF FinTail, FinNext, FinCheck, FinPending, FinCas
    <2>5. CASE PollHead(t) \/ PollTail(t) \/ PollNext(t) \/ PollCheck(t) \/ PollCas(t)
      BY <2>5 DEF PollHead, PollTail, PollNext, PollCheck, PollCas
    <2>6. CASE DeqPNode(t) \/ DeqHead(t) \/ DeqTail(t) \/ DeqNext(t) \/ DeqCheck(t)
      BY <2>6 DEF DeqPNode, DeqHead, DeqTail, DeqNext, DeqCheck, DeqCheckIf
    <2>7. CASE DeqEmpty(t) \/ DeqNull(t) \/ DeqClaim(t) \/ DeqReread(t) \/ DeqStill(t) \/ DeqCas(t)
      BY <2>7 DEF DeqEmpty, DeqNull, DeqClaim, DeqReread, DeqStill, DeqCas
    <2>8. CASE FinHead(t) \/ FinHeadNext(t) \/ FinRead(t) \/ FinDone(t) \/ FinDeq(t)
      BY <2>8 DEF FinHead, FinHeadNext, FinRead, FinDone, FinDeq
    <2>9. QED
      BY <2>1, <2>2, <2>3, <2>4, <2>5, <2>6, <2>7, <2>8 DEF Step
  <1>3. \A u \in Thread : u # t => pc'[u] = pc[u]
    BY LocalSteps DEF Locals
  <1>4. \A u \in Thread : (pc'[u] # "idle") = (pc[u] # "idle")
    BY <1>1, <1>2, <1>3
  <1>5. QED
    BY <1>1, <1>4 DEF inCall

\* A step the abstract queue does not see.
Unseen ==
    /\ UNCHANGED <<place, calls, kind>> /\ inCall' = inCall /\ front' = front
    /\ \A o \in Op : Obtained(o)' = Obtained(o)

LEMMA Stutters ==
    ASSUME SawInv, Watch, Unseen
    PROVE  UNCHANGED Queue!vars
  <1>1. back' = back
    BY DEF Unseen, back, Placed
  <1>2. sawEmpty' = [t \in Thread |-> inCall'[t] /\ (sawEmpty[t] \/ front' = back')]
    BY DEF Watch
  <1>3. ASSUME NEW t \in Thread PROVE sawEmpty'[t] = sawEmpty[t]
    <2>1. inCall'[t] = inCall[t] /\ inCall[t] = (pc[t] # "idle")
      BY DEF Unseen, inCall
    <2>2. sawEmpty'[t] = (pc[t] # "idle" /\ (sawEmpty[t] \/ front = back))
      BY <1>1, <1>2, <2>1 DEF Unseen
    <2>3. /\ sawEmpty[t] \in BOOLEAN /\ (sawEmpty[t] => pc[t] # "idle")
          /\ (pc[t] # "idle" /\ front = back => sawEmpty[t])
      BY DEF SawInv
    <2>4. QED
      BY <2>2, <2>3
  <1>4. sawEmpty' = sawEmpty
    BY <1>2, <1>3 DEF SawInv
  <1>5. [o \in Op |-> Obtained(o)]' = [o \in Op |-> Obtained(o)]
    BY DEF Unseen
  <1>6. QED
    BY <1>1, <1>4, <1>5 DEF Queue!vars, Unseen

\* What a poll has obtained depends on its own fields only, and on the head
\* only if the head holds it.
LEMMA SameObtained ==
    ASSUME NEW o \in Op, result'[o] = result[o], kind'[o] = kind[o], desc'[o] = desc[o], next' = next,
           head' = head \/ (head.opDesc # o /\ head'.opDesc # o)
    PROVE  Obtained(o)' = Obtained(o)
  BY DEF Obtained, Answer

LEMMA QuietMaps ==
    ASSUME RInv, Watch, NEW t \in Thread, Step(t), ~Return(t), Quiet
    PROVE  UNCHANGED Queue!vars
  <1>1. TypeOK /\ ListInv /\ SawInv
    BY DEF RInv, IInv, SharedInv
  <1>2. place' = place
    BY <1>1, SamePlaces DEF Quiet
  <1>3. inCall' = inCall
    BY <1>1, InCallStep
  <1>4. front' = front
    BY <1>2 DEF front, Quiet
  <1>5. \A o \in Op : Obtained(o)' = Obtained(o)
    BY SameObtained DEF Quiet
  <1>6. QED
    BY <1>1, <1>2, <1>3, <1>4, <1>5, Stutters DEF Unseen, Quiet

\* The element behind a head that holds a descriptor, and the answers given.
LEMMA Answers ==
    ASSUME IInv
    PROVE  /\ head.opDesc # NoOp =>
                /\ head.opDesc \in Op /\ next[head.node] \in Op
                /\ next[head.node] # NoNode /\ next[head.node] # None
                /\ desc[head.opDesc] # NoOp /\ kind[head.opDesc] = "poll"
                /\ desc[head.opDesc].node = head.node
           /\ \A o \in Op : desc[o] # NoOp /\ kind[o] = "poll" /\ desc[o].node # NoNode =>
                /\ next[desc[o].node] \in Op /\ next[desc[o].node] # NoNode
                /\ next[desc[o].node] # None
           /\ \A o \in Op : desc[o] # NoOp /\ kind[o] = "poll" =>
                Answer(o) \in Op \cup {Empty} /\ Answer(o) # None
  <1>1. /\ TypeOK /\ ListInv /\ EndsInv /\ DescInv /\ Claimed /\ head.node \in Node /\ tail \in Node
        /\ head.opDesc \in Op \cup {NoOp} /\ Listed(head.node) /\ Listed(tail)
    BY SharedTypes DEF IInv, SharedInv, EndsInv
  <1>2. ASSUME NEW n \in Node, Listed(n), pos(n) < pos(tail)
        PROVE  next[n] \in Op /\ next[n] # NoNode /\ next[n] # None
    <2>1. pos(n) < back /\ Listed(n)
      <3>1. pos(n) \in Nat /\ pos(tail) \in Nat /\ back \in Nat /\ pos(tail) <= back
        BY <1>1, Places
      <3>2. QED
        BY <1>2, <3>1
    <2>2. next[n] # NoNode
      BY <1>1, <2>1, Places
    <2>3. QED
      BY <1>1, <2>2, SharedTypes, Nulls
  <1>3. head.opDesc # NoOp =>
           /\ head.opDesc \in Op /\ next[head.node] \in Op
           /\ next[head.node] # NoNode /\ next[head.node] # None
           /\ desc[head.opDesc] # NoOp /\ kind[head.opDesc] = "poll"
           /\ desc[head.opDesc].node = head.node
    BY <1>1, <1>2 DEF EndsInv, Claimed
  <1>4. ASSUME NEW o \in Op, desc[o] # NoOp, kind[o] = "poll", desc[o].node # NoNode
        PROVE  next[desc[o].node] \in Op /\ next[desc[o].node] # NoNode /\ next[desc[o].node] # None
    <2>1. desc[o].node \in Node
      BY <1>1, <1>4, SharedTypes
    <2>2. Listed(desc[o].node) /\ pos(desc[o].node) < pos(tail)
      BY <1>1, <1>4 DEF DescInv, DeqInv, Noted
    <2>3. QED
      BY <1>2, <2>1, <2>2
  <1>5. \A o \in Op : desc[o] # NoOp /\ kind[o] = "poll" =>
           Answer(o) \in Op \cup {Empty} /\ Answer(o) # None
    BY <1>4, Nulls DEF Answer
  <1>6. QED
    BY <1>3, <1>4, <1>5

\* Whoever links the node of an add, the add takes effect then.
LEMMA LinkMaps ==
    ASSUME RInv, Watch, NEW t \in Thread, Step(t), ~Return(t),
           NEW n \in Node, NEW o \in Op, next[n] = NoNode, Listed(n), place[o] = 0, kind[o] = "add",
           next' = [next EXCEPT ![n] = o], UNCHANGED <<head, desc, kind, calls, result>>,
           Current(o[1]) = o, pc[o[1]] # "idle"
    PROVE  Queue!Add(o[1])
  <1>1. TypeOK /\ ListInv /\ EndsInv /\ IInv /\ head.node \in Node
    BY SharedTypes DEF RInv, IInv, SharedInv
  <1>2. place' = [place EXCEPT ![o] = back + 1] /\ back' = back + 1
    BY <1>1, WatchLink
  <1>3. front' = front
    <2>1. head.node # Dummy => head.node # o /\ head.node \in Op
      BY <1>1 DEF EndsInv, Listed, Node
    <2>2. head.node # Dummy => place'[head.node] = place[head.node]
      BY <1>1, <1>2, <2>1 DEF ListInv
    <2>3. QED
      BY <2>2 DEF front
  <1>4. \A q \in Op : Obtained(q)' = Obtained(q)
    <2>1. \A m \in Node : next[m] # NoNode => next'[m] = next[m]
      BY <1>1 DEF TypeOK
    <2> TAKE q \in Op
    <2>2. head.opDesc = q => next'[head.node] = next[head.node]
      BY <1>1, <2>1, Answers, Nulls
    <2>3. desc[q] # NoOp /\ kind[q] = "poll" => Answer(q)' = Answer(q)
      BY <1>1, <2>1, Answers, SharedTypes DEF Answer
    <2>4. kind[q] \in {"add", "poll"}
      BY <1>1, SharedTypes
    <2>5. QED
      BY <2>2, <2>3, <2>4 DEF Obtained
  <1>5. inCall' = inCall /\ o[1] \in Thread
    BY <1>1, InCallStep, OpFacts
  <1>6. sawEmpty' = [u \in Thread |-> inCall'[u] /\ (sawEmpty[u] \/ front' = back')]
    BY DEF Watch
  <1>7. [q \in Op |-> Obtained(q)]' = [q \in Op |-> Obtained(q)]
    BY <1>4
  <1>8. inCall[o[1]] /\ Queue!Current(o[1]) = o
    BY <1>5 DEF inCall, Current, Queue!Current
  <1>9. QED
    BY <1>2, <1>3, <1>5, <1>6, <1>7, <1>8 DEF Queue!Add, Queue!Watch

LEMMA AddCasMaps ==
    ASSUME RInv, Watch, NEW t \in Thread, AddCas(t)
    PROVE  UNCHANGED Queue!vars \/ Queue!Add(t)
  <1> DEFINE n == frame[t].last
             o == Current(t)
  <1>1. /\ Step(t) /\ ~Return(t) /\ pc[t] = "addCas" /\ IInv /\ TypeOK /\ CallInv(t) /\ RoleInv(t)
        /\ TailInv(t) /\ n \in Node
    BY Parts, FrameTypes DEF Step, Return, AddCas, RInv
  <1>2. CASE next[n] # NoNode
    <2>1. Quiet
      BY <1>2 DEF AddCas, CasNext, Quiet, history
    <2>2. QED
      BY <1>1, <2>1, QuietMaps
  <1>3. CASE next[n] = NoNode
    <2>1. next' = [next EXCEPT ![n] = o] /\ UNCHANGED <<head, desc, kind, calls, result>>
      BY <1>3 DEF AddCas, CasNext, history
    <2>2. o \in Op /\ o[1] = t /\ place[o] = 0 /\ kind[o] = "add" /\ Listed(n)
      <3>1. role[t] = "fast" /\ Adding(t) /\ calls[t] \in 0 .. MaxCalls[t] /\ calls[t] # 0
        BY <1>1, Roles DEF RoleInv, CallInv, AddPc
      <3>2. QED
        BY <1>1, <3>1, CurrentOp DEF CallInv, Undone, Adding, TailInv, TailRead, Current
    <2>3. Queue!Add(o[1])
      BY <1>1, <1>3, <2>1, <2>2, LinkMaps
    <2>4. QED
      BY <2>2, <2>3
  <1>4. QED
    BY <1>2, <1>3

\* A pending descriptor belongs to the call its owner is in.
LEMMA Owner ==
    ASSUME RInv, NEW o \in Op, desc[o] # NoOp, desc[o].pending = 1
    PROVE  /\ o[1] \in Thread /\ role[o[1]] = "self" /\ Current(o[1]) = o /\ pc[o[1]] # "idle"
           /\ result[o] = None
  <1>1. o[1] \in Thread /\ role[o[1]] = "self" /\ Current(o[1]) = o
    BY OpFacts DEF RInv, PendingInv
  <1>2. RoleInv(o[1]) /\ ReturnInv(o[1]) /\ TypeOK
    BY <1>1, Parts DEF RInv, KInv
  <1>3. QED
    BY <1>1, <1>2, Roles DEF ReturnInv

LEMMA EnqCasMaps ==
    ASSUME RInv, Watch, NEW t \in Thread, EnqCas(t)
    PROVE  UNCHANGED Queue!vars \/ \E u \in Thread : Queue!Add(u)
  <1> DEFINE n == frame[t].last
             o == target[t]
  <1>1. /\ Step(t) /\ ~Return(t) /\ pc[t] = "enqCas" /\ pc[t] \in EnqPc /\ IInv /\ TypeOK /\ DescInv
        /\ CallInv(t) /\ RoleInv(t) /\ TailInv(t) /\ n \in Node
    BY Parts, FrameTypes DEF Step, Return, EnqCas, EnqPc, RInv
  <1>2. CASE next[n] # NoNode
    <2>1. Quiet
      BY <1>2 DEF EnqCas, CasNext, Quiet, history
    <2>2. QED
      BY <1>1, <2>1, QuietMaps
  <1>3. CASE next[n] = NoNode
    <2>1. next' = [next EXCEPT ![n] = o] /\ UNCHANGED <<head, desc, kind, calls, result>>
      BY <1>3 DEF EnqCas, CasNext, history
    <2>2. o \in Op /\ desc[o] # NoOp /\ kind[o] = "add"
      <3>1. role[t] \in {"help", "self"}
        BY <1>1, Roles
      <3>2. QED
        BY <1>1, <3>1 DEF CallInv, TypeOK
    <2>3. place[o] = 0 /\ Listed(n)
      BY <1>1, <1>3 DEF TailInv, TailRead
    <2>4. desc[o].pending = 1
      BY <1>1, <2>2, <2>3 DEF DescInv, EnqInv
    <2>5. o[1] \in Thread /\ Current(o[1]) = o /\ pc[o[1]] # "idle"
      BY <2>2, <2>4, Owner
    <2>6. Queue!Add(o[1])
      BY <1>1, <1>3, <2>1, <2>2, <2>3, <2>5, LinkMaps
    <2>7. QED
      BY <2>5, <2>6
  <1>4. QED
    BY <1>2, <1>3

-----------------------------------------------------------------------------
(* Polls take effect.                                                      *)

\* An announced or a fast poll gets the answer "empty".
LEMMA EmptyMaps ==
    ASSUME RInv, Watch, NEW t \in Thread, Step(t), ~Return(t),
           UNCHANGED <<next, head, kind, calls>>,
           NEW o \in Op, o = Current(o[1]), pc[o[1]] # "idle", kind[o] = "poll",
           sawEmpty[o[1]], Obtained(o) = None, Obtained(o)' = Empty,
           \A q \in Op : q # o => Obtained(q)' = Obtained(q)
    PROVE  Queue!PollEmpty(o[1])
  <1>1. TypeOK /\ ListInv /\ o[1] \in Thread
    BY OpFacts DEF RInv, IInv, SharedInv
  <1>2. place' = place /\ back' = back
    BY <1>1, SamePlaces
  <1>3. front' = front
    BY <1>2 DEF front
  <1>4. inCall' = inCall /\ inCall[o[1]] /\ Queue!Current(o[1]) = o
    BY <1>1, InCallStep DEF inCall, Current, Queue!Current
  <1>5. sawEmpty' = [u \in Thread |-> inCall'[u] /\ (sawEmpty[u] \/ front' = back')]
    BY DEF Watch
  <1>6. [q \in Op |-> Obtained(q)]' = [[q \in Op |-> Obtained(q)] EXCEPT ![o] = Empty]
    <2>1. \A q \in Op : Obtained(q)' = IF q = o THEN Empty ELSE Obtained(q)
      OBVIOUS
    <2>2. [q \in Op |-> Obtained(q)]' = [q \in Op |-> IF q = o THEN Empty ELSE Obtained(q)]
      BY <2>1
    <2>3. QED
      BY <2>2
  <1>7. [q \in Op |-> Obtained(q)][o] = None
    OBVIOUS
  <1>8. QED
    BY <1>2, <1>3, <1>4, <1>5, <1>6, <1>7 DEF Queue!PollEmpty, Queue!Watch

\* A poll takes the element behind the head.
LEMMA TakeMaps ==
    ASSUME RInv, Watch, NEW t \in Thread, Step(t), ~Return(t),
           UNCHANGED <<next, kind, calls>>, front' = front + 1,
           NEW o \in Op, o = Current(o[1]), pc[o[1]] # "idle", kind[o] = "poll",
           NEW e \in Op, place[e] = front + 1, Obtained(o) = None, Obtained(o)' = e,
           \A q \in Op : q # o => Obtained(q)' = Obtained(q)
    PROVE  Queue!Poll(o[1])
  <1>1. TypeOK /\ ListInv /\ o[1] \in Thread
    BY OpFacts DEF RInv, IInv, SharedInv
  <1>2. place' = place /\ back' = back
    BY <1>1, SamePlaces
  <1>3. inCall' = inCall /\ inCall[o[1]] /\ Queue!Current(o[1]) = o
    BY <1>1, InCallStep DEF inCall, Current, Queue!Current
  <1>4. sawEmpty' = [u \in Thread |-> inCall'[u] /\ (sawEmpty[u] \/ front' = back')]
    BY DEF Watch
  <1>5. [q \in Op |-> Obtained(q)]' = [[q \in Op |-> Obtained(q)] EXCEPT ![o] = e]
    <2>1. \A q \in Op : Obtained(q)' = IF q = o THEN e ELSE Obtained(q)
      OBVIOUS
    <2>2. [q \in Op |-> Obtained(q)]' = [q \in Op |-> IF q = o THEN e ELSE Obtained(q)]
      BY <2>1
    <2>3. QED
      BY <2>2
  <1>6. [q \in Op |-> Obtained(q)][o] = None
    OBVIOUS
  <1>7. e \in Queue!Op
    BY DEF Op, Queue!Op
  <1>8. QED
    BY <1>2, <1>3, <1>4, <1>5, <1>6, <1>7 DEF Queue!Poll, Queue!Watch

\* A poll of the fast path before it is decided.
LEMMA FastPoll ==
    ASSUME RInv, NEW t \in Thread, pc[t] \in PollPc
    PROVE  LET o == Current(t)
           IN  /\ o \in Op /\ o[1] = t /\ o = Current(o[1]) /\ kind[o] = "poll" /\ desc[o] = NoOp
               /\ result[o] = None /\ Obtained(o) = None /\ head.opDesc # o /\ pc[o[1]] # "idle"
               /\ role[t] = "fast"
  <1> DEFINE o == Current(t)
  <1>1. IInv /\ TypeOK /\ RoleInv(t) /\ CallInv(t) /\ role[t] = "fast" /\ ~Adding(t) /\ pc[t] # "idle"
    BY Parts, Roles DEF RInv, RoleInv, PollPc
  <1>2. o \in Op /\ o[1] = t /\ o = Current(o[1])
    BY <1>1, CurrentOp DEF CallInv, Current
  <1>3. Undone(o) /\ kind[o] = "poll"
    BY <1>1, <1>2, SharedTypes DEF CallInv, Adding, PollPc
  <1>4. head.opDesc # o
    BY <1>1, <1>2, <1>3, Answers, Nulls DEF Undone
  <1>5. QED
    BY <1>1, <1>2, <1>3, <1>4 DEF Undone, Obtained

LEMMA PollCheckMaps ==
    ASSUME RInv, Watch, NEW t \in Thread, PollCheck(t)
    PROVE  UNCHANGED Queue!vars \/ Queue!PollEmpty(t)
  <1> DEFINE f == frame[t]
  <1>1. /\ Step(t) /\ ~Return(t) /\ pc[t] = "pollCheck" /\ pc[t] \in PollPc /\ IInv /\ TypeOK
        /\ UNCHANGED <<next, head, desc, kind, calls>>
    BY DEF Step, Return, PollCheck, PollPc, RInv, IInv, shared
  <1>2. CASE result' = result
    <2>1. Quiet
      BY <1>1, <1>2 DEF Quiet
    <2>2. QED
      BY <1>1, <2>1, QuietMaps
  <1>3. CASE result' # result
    <2>0. PICK o \in Op : o = Current(t)
      BY <1>1, FastPoll
    <2>1. f.next = NoNode /\ result' = [result EXCEPT ![o] = Empty]
      BY <1>3, <2>0 DEF PollCheck
    <2>2. sawEmpty[t]
      BY <1>1, <2>1 DEF RInv, KInv, EmptyInv
    <2>3. /\ o[1] = t /\ o = Current(o[1]) /\ kind[o] = "poll" /\ Obtained(o) = None
          /\ pc[o[1]] # "idle"
      BY <1>1, <2>0, FastPoll
    <2>4. \A q \in Op : result'[q] = IF q = o THEN Empty ELSE result[q]
      BY <1>1, <2>1, <2>3 DEF TypeOK
    <2>5. Obtained(o)' = Empty
      BY <2>3, <2>4, Nulls DEF Obtained
    <2>6. \A q \in Op : q # o => Obtained(q)' = Obtained(q)
      BY <1>1, <2>4, SameObtained
    <2>7. Queue!PollEmpty(o[1])
      BY <1>1, <2>2, <2>3, <2>5, <2>6, EmptyMaps
    <2>8. QED
      BY <2>3, <2>7
  <1>4. QED
    BY <1>2, <1>3

\* The place behind the head, whether it holds a descriptor or not.
LEMMA FrontPlaces ==
    ASSUME IInv, Watch, next' = next
    PROVE  /\ place' = place
           /\ front = pos(head.node) + (IF head.opDesc = NoOp THEN 0 ELSE 1)
           /\ front' = (IF head'.node = Dummy THEN 0 ELSE place[head'.node])
                       + (IF head'.opDesc = NoOp THEN 0 ELSE 1)
           /\ pos(head.node) \in Nat
           /\ next[head.node] # NoNode => /\ next[head.node] \in Op /\ next[head.node] # Dummy
                                          /\ place[next[head.node]] = pos(head.node) + 1
  <1>1. TypeOK /\ ListInv /\ head.node \in Node
    BY SharedTypes DEF IInv, SharedInv
  <1>2. place' = place
    BY <1>1, SamePlaces
  <1>3. QED
    BY <1>1, <1>2, Places, Nulls DEF front, pos

LEMMA PollCasMaps ==
    ASSUME RInv, Watch, NEW t \in Thread, PollCas(t)
    PROVE  UNCHANGED Queue!vars \/ Queue!Poll(t)
  <1> DEFINE h == frame[t].localHead
  <1>1. /\ Step(t) /\ ~Return(t) /\ pc[t] = "pollCas" /\ pc[t] \in PollPc /\ IInv /\ TypeOK
        /\ HeadInv(t) /\ UNCHANGED <<next, desc, kind, calls>>
    BY Parts DEF Step, Return, PollCas, PollPc, RInv
  <1>2. PICK o \in Op : o = Current(t)
    BY <1>1, FastPoll
  <1>3. PICK n : n = frame[t].next
    OBVIOUS
  <1>4. CASE head # [node |-> h.node, opDesc |-> NoOp]
    <2>1. Quiet
      BY <1>1, <1>4 DEF PollCas, CasHead, Quiet
    <2>2. QED
      BY <1>1, <2>1, QuietMaps
  <1>5. CASE head = [node |-> h.node, opDesc |-> NoOp]
    <2>1. head' = [node |-> n, opDesc |-> NoOp] /\ result' = [result EXCEPT ![o] = n]
      BY <1>2, <1>3, <1>5 DEF PollCas, CasHead
    <2>2. head.node = h.node /\ head.opDesc = NoOp /\ n # NoNode /\ next[head.node] = n
      BY <1>1, <1>3, <1>5 DEF HeadInv
    <2>3. n \in Op /\ front' = front + 1 /\ place[n] = front + 1
      BY <1>1, <2>1, <2>2, FrontPlaces
    <2>4. /\ o[1] = t /\ o = Current(o[1]) /\ kind[o] = "poll" /\ Obtained(o) = None
          /\ pc[o[1]] # "idle"
      BY <1>1, <1>2, FastPoll
    <2>5. \A q \in Op : result'[q] = IF q = o THEN n ELSE result[q]
      BY <1>1, <2>1, <2>4 DEF TypeOK
    <2>6. Obtained(o)' = n
      BY <2>3, <2>4, <2>5, Nulls DEF Obtained
    <2>7. \A q \in Op : q # o => Obtained(q)' = Obtained(q)
      <3>1. head.opDesc = NoOp /\ head'.opDesc = NoOp /\ NoOp \notin Op
        BY <2>1, <2>2, Nulls
      <3>2. QED
        BY <1>1, <2>5, <3>1, SameObtained
    <2>8. Queue!Poll(o[1])
      BY <1>1, <2>3, <2>4, <2>6, <2>7, TakeMaps
    <2>9. QED
      BY <2>4, <2>8
  <1>6. QED
    BY <1>4, <1>5

\* What a step that changes one descriptor of a poll shows.
LEMMA DescObtained ==
    ASSUME IInv, NEW o \in Op, NEW p, desc' = [desc EXCEPT ![o] = p],
           UNCHANGED <<next, head, kind, result>>
    PROVE  (\A q \in Op : q # o => Obtained(q)' = Obtained(q)) /\ desc'[o] = p
  <1>1. \A q \in Op : desc'[q] = IF q = o THEN p ELSE desc[q]
    BY DEF IInv, TypeOK
  <1>2. QED
    BY <1>1, SameObtained

LEMMA DeqNullMaps ==
    ASSUME RInv, Watch, NEW t \in Thread, DeqNull(t)
    PROVE  UNCHANGED Queue!vars \/ \E u \in Thread : Queue!PollEmpty(u)
  <1> DEFINE p == frame[t].pNode
  <1>1. /\ Step(t) /\ ~Return(t) /\ pc[t] = "deqNull" /\ pc[t] \in DeqPc /\ pc[t] \in PNodeRead
        /\ IInv /\ TypeOK /\ ListInv /\ PNodeInv(t) /\ EmptyInv(t)
        /\ UNCHANGED <<next, head, kind, calls, result>>
    BY Parts DEF Step, Return, DeqNull, DeqPc, PNodeRead, RInv, KInv, history
  <1>2. PICK o \in Op : o = target[t]
    BY <1>1, DeqFacts
  <1>3. CASE desc[o] # p
    <2>1. Quiet
      BY <1>1, <1>2, <1>3 DEF DeqNull, CasPNode, Quiet
    <2>2. QED
      BY <1>1, <2>1, QuietMaps
  <1>4. CASE desc[o] = p
    <2> DEFINE d == [node |-> NoNode, pending |-> 0]
    <2>1. desc' = [desc EXCEPT ![o] = d]
      BY <1>2, <1>4 DEF DeqNull, CasPNode
    <2>2. desc[o] # NoOp /\ kind[o] = "poll" /\ desc[o].pending = 1
      BY <1>1, <1>2, <1>4, DeqFacts DEF PNodeInv
    <2>3. sawEmpty[o[1]]
      BY <1>1, <1>2, <2>2 DEF EmptyInv
    <2>4. o = Current(o[1]) /\ pc[o[1]] # "idle" /\ result[o] = None /\ o[1] \in Thread
      BY <2>2, Owner
    <2>5. head.opDesc # o
      <3> SUFFICES ASSUME head.opDesc = o PROVE FALSE
        OBVIOUS
      <3>1. p.node = head.node /\ head.node \in Node
        BY <1>1, <1>4, <2>2, Answers, SharedTypes, Nulls
      <3>2. pos(head.node) < pos(head.node) /\ pos(head.node) \in Nat
        BY <1>1, <3>1, Places, Nulls DEF PNodeInv
      <3>3. QED
        BY <3>2
    <2>6. Obtained(o) = None
      BY <2>2, <2>4, <2>5 DEF Obtained
    <2>7. (\A q \in Op : q # o => Obtained(q)' = Obtained(q)) /\ desc'[o] = d
      BY <1>1, <2>1, <2>2, DescObtained
    <2>8. Obtained(o)' = Empty
      <3>1. d # NoOp /\ d.node = NoNode /\ d.pending = 0
        <4>1. d \in PNode
          BY ONLY PNodes
        <4>2. d # NoOp
          BY ONLY <4>1, Nulls
        <4>3. d.node = NoNode /\ d.pending = 0
          OBVIOUS
        <4>4. QED
          BY <4>2, <4>3
      <3>2. UNCHANGED <<head, kind, result>>
        BY <1>1
      <3>3. result'[o] = None /\ kind'[o] = "poll" /\ head'.opDesc # o
        BY ONLY <2>2, <2>4, <2>5, <3>2
      <3>4. Answer(o)' = Empty
        BY <2>7, <3>1 DEF Answer
      <3>5. QED
        BY <2>7, <3>1, <3>3, <3>4 DEF Obtained
    <2>9. Queue!PollEmpty(o[1])
      BY <1>1, <2>2, <2>3, <2>4, <2>6, <2>7, <2>8, EmptyMaps
    <2>10. QED
      BY <2>4, <2>9
  <1>5. QED
    BY <1>3, <1>4

LEMMA DeqCasMaps ==
    ASSUME RInv, Watch, NEW t \in Thread, DeqCas(t)
    PROVE  UNCHANGED Queue!vars \/ \E u \in Thread : Queue!Poll(u)
  <1> DEFINE n == frame[t].first
             p == frame[t].pNode
  <1>1. /\ Step(t) /\ ~Return(t) /\ pc[t] = "deqCas" /\ pc[t] \in DeqPc /\ pc[t] \in PNodeRead
        /\ IInv /\ TypeOK /\ ListInv /\ PNodeInv(t) /\ n \in Node /\ tail \in Node
        /\ UNCHANGED <<next, desc, kind, calls, result>>
    BY Parts, FrameTypes DEF Step, Return, DeqCas, DeqPc, PNodeRead, RInv, history
  <1>2. PICK o \in Op : o = target[t]
    BY <1>1, DeqFacts
  <1>3. CASE head # [node |-> n, opDesc |-> NoOp]
    <2>1. Quiet
      BY <1>1, <1>3 DEF DeqCas, CasHead, Quiet
    <2>2. QED
      BY <1>1, <2>1, QuietMaps
  <1>4. CASE head = [node |-> n, opDesc |-> NoOp]
    <2>1. /\ head' = [node |-> n, opDesc |-> o] /\ head.node = n /\ head.opDesc = NoOp
          /\ head'.node = n /\ head'.opDesc = o
      BY <1>2, <1>4 DEF DeqCas, CasHead
    <2>2. desc[o] # NoOp /\ kind[o] = "poll" /\ o # NoOp
      BY <1>1, <1>2, DeqFacts, Nulls
    <2>3. desc[o] = p /\ p.pending = 1 /\ pos(n) < pos(tail) /\ Listed(n)
      <3>1. /\ Noted(p.node) /\ n = p.node /\ p.node # NoNode /\ p.pending = 1
            /\ desc[o] = p \/ Left(p.node, o)
        BY <1>1, <1>2 DEF PNodeInv
      <3>2. ~Left(n, o)
        <4>1. pos(n) \in Nat
          BY <1>1, Places
        <4>2. QED
          BY <2>1, <2>2, <4>1 DEF Left
      <3>3. QED
        BY <3>1, <3>2 DEF Noted
    <2>4. o = Current(o[1]) /\ pc[o[1]] # "idle" /\ result[o] = None /\ o[1] \in Thread
      BY <2>2, <2>3, Owner
    <2>5. next[head.node] # NoNode
      <3>1. pos(n) \in Nat /\ pos(tail) \in Nat /\ back \in Nat /\ pos(tail) <= back
        BY <1>1, Places
      <3>2. pos(n) < back
        BY <2>3, <3>1
      <3>3. QED
        BY <1>1, <2>1, <2>3, <3>2, Places
    <2>6. /\ next[head.node] \in Op /\ front' = front + 1 /\ place[next[head.node]] = front + 1
      BY <1>1, <2>1, <2>2, <2>5, FrontPlaces DEF pos
    <2>7. Obtained(o) = None
      BY <2>1, <2>2, <2>3, <2>4 DEF Obtained
    <2>8. \A q \in Op : q # o => Obtained(q)' = Obtained(q)
      BY <1>1, <2>1, <2>2, SameObtained, Nulls
    <2>9. PICK e \in Op : e = next[head.node]
      BY <2>6
    <2>10. Obtained(o)' = e
      BY <1>1, <2>1, <2>2, <2>4, <2>9 DEF Obtained
    <2>11. Queue!Poll(o[1])
      BY <1>1, <2>2, <2>4, <2>6, <2>7, <2>8, <2>9, <2>10, TakeMaps
    <2>12. QED
      BY <2>4, <2>11
  <1>5. QED
    BY <1>3, <1>4

-----------------------------------------------------------------------------
(* Steps that change a descriptor or the head and are not seen.            *)

LEMMA DescMaps ==
    ASSUME RInv, Watch, NEW t \in Thread, Step(t), ~Return(t), NEW o \in Op, NEW p,
           desc' = [desc EXCEPT ![o] = p], UNCHANGED <<next, head, kind, calls, result>>,
           Obtained(o)' = Obtained(o)
    PROVE  UNCHANGED Queue!vars
  <1>1. IInv /\ TypeOK /\ ListInv /\ SawInv
    BY DEF RInv, IInv, SharedInv
  <1>2. place' = place /\ inCall' = inCall
    BY <1>1, SamePlaces, InCallStep
  <1>3. front' = front
    BY <1>2 DEF front
  <1>4. \A q \in Op : Obtained(q)' = Obtained(q)
    BY <1>1, DescObtained
  <1>5. QED
    BY <1>1, <1>2, <1>3, <1>4, Stutters DEF Unseen

\* A descriptor is announced: its poll has obtained nothing yet.
LEMMA AnnounceMaps ==
    ASSUME RInv, Watch, NEW t \in Thread, Announce(t)
    PROVE  UNCHANGED Queue!vars
  <1>1. /\ Step(t) /\ ~Return(t) /\ pc[t] = "announce" /\ IInv /\ TypeOK /\ RoleInv(t) /\ CallInv(t)
        /\ UNCHANGED <<next, head, kind, calls, result>>
    BY Parts DEF Step, Return, Announce, RInv, history
  <1>2. PICK o \in Op : o = Current(t)
    BY <1>1, CurrentOp DEF CallInv
  <1>3. Undone(o)
    BY <1>1, <1>2, Roles DEF CallInv
  <1>4. PICK p \in PNode : desc' = [desc EXCEPT ![o] = p] /\ p.pending = 1
    <2>1. \A n \in Node \cup {NoNode} : [node |-> n, pending |-> 1] \in PNode
      BY DEF PNode
    <2>2. PICK n \in Node \cup {NoNode} : n = IF Adding(t) THEN Current(t) ELSE NoNode
      BY <1>2, Nulls
    <2>3. desc' = [desc EXCEPT ![o] = [node |-> n, pending |-> 1]]
      BY <1>2, <2>2 DEF Announce
    <2>4. QED
      BY <2>1, <2>3
  <1>5. head.opDesc # o
    BY <1>1, <1>3, Answers, Nulls DEF Undone
  <1>6. desc'[o] = p /\ p # NoOp
    BY <1>1, <1>4, Nulls DEF TypeOK
  <1>7. Obtained(o) = None /\ Obtained(o)' = None
    BY <1>1, <1>3, <1>4, <1>5, <1>6 DEF Obtained, Undone
  <1>8. QED
    BY <1>1, <1>4, <1>7, DescMaps

\* The node of an announced add is passed.
LEMMA FinPendingMaps ==
    ASSUME RInv, Watch, NEW t \in Thread, FinPending(t)
    PROVE  UNCHANGED Queue!vars
  <1>1. /\ Step(t) /\ ~Return(t) /\ pc[t] = "finPending" /\ IInv /\ TypeOK /\ DescInv /\ ListInv
        /\ TailInv(t) /\ UNCHANGED <<next, head, kind, calls, result>> /\ frame[t].last \in Node
    BY Parts, FrameTypes DEF Step, Return, FinPending, RInv, history
  <1>2. PICK o \in Op : o = frame[t].next /\ kind[o] = "add"
    <2>1. frame[t].next # NoNode /\ next[frame[t].last] = frame[t].next
      BY <1>1 DEF TailInv
    <2>2. frame[t].next \in Op /\ place[frame[t].next] # 0
      BY <1>1, <2>1, SharedTypes DEF ListInv, Linked
    <2>3. QED
      BY <1>1, <2>2 DEF DescInv
  <1>3. PICK p : desc' = [desc EXCEPT ![o] = p]
    BY <1>2 DEF FinPending
  <1>4. Obtained(o)' = Obtained(o)
    BY <1>1, <1>2 DEF Obtained
  <1>5. QED
    BY <1>1, <1>3, <1>4, DescMaps

\* A descriptor notes another node: its poll is still open, or holds the head.
LEMMA DeqClaimMaps ==
    ASSUME RInv, Watch, NEW t \in Thread, DeqClaim(t)
    PROVE  UNCHANGED Queue!vars
  <1>1. /\ Step(t) /\ ~Return(t) /\ pc[t] = "deqClaim" /\ pc[t] \in DeqPc /\ pc[t] \in PNodeRead
        /\ IInv /\ TypeOK /\ PNodeInv(t) /\ UNCHANGED <<next, head, kind, calls, result>>
        /\ frame[t].localHead.node \in Node
    BY Parts, FrameTypes DEF Step, Return, DeqClaim, DeqPc, PNodeRead, RInv, history
  <1>2. PICK o \in Op : o = target[t] /\ desc[o] # NoOp /\ desc[o] \in PNode /\ kind[o] = "poll"
    BY <1>1, DeqFacts
  <1>3. CASE desc[o] # frame[t].pNode
    <2>1. Quiet
      BY <1>1, <1>2, <1>3 DEF DeqClaim, CasPNode, Quiet
    <2>2. QED
      BY <1>1, <2>1, QuietMaps
  <1>4. CASE desc[o] = frame[t].pNode
    <2>1. PICK p \in PNode : desc' = [desc EXCEPT ![o] = p] /\ p.pending = 1
      <3>1. [node |-> frame[t].localHead.node, pending |-> 1] \in PNode
        BY <1>1 DEF PNode
      <3>2. QED
        BY <1>2, <1>4, <3>1 DEF DeqClaim, CasPNode
    <2>2. desc[o].pending = 1
      BY <1>1, <1>4 DEF PNodeInv
    <2>3. desc'[o] = p /\ p # NoOp
      BY <1>1, <2>1, Nulls DEF TypeOK
    <2>4. Obtained(o)' = Obtained(o)
      BY <1>1, <1>2, <2>1, <2>2, <2>3 DEF Obtained
    <2>5. QED
      BY <1>1, <2>1, <2>4, DescMaps
  <1>5. QED
    BY <1>3, <1>4

\* A descriptor is done while the head still holds it.
LEMMA FinDoneMaps ==
    ASSUME RInv, Watch, NEW t \in Thread, FinDone(t)
    PROVE  UNCHANGED Queue!vars
  <1> DEFINE h == frame[t].localHead
  <1>1. /\ Step(t) /\ ~Return(t) /\ pc[t] = "finDone" /\ IInv /\ TypeOK /\ HeadInv(t) /\ h \in NodeHead
        /\ UNCHANGED <<next, head, kind, calls, result>> /\ frame[t].pNode.node \in Node \cup {NoNode}
    BY Parts, FrameTypes DEF Step, Return, FinDone, RInv, history
  <1>2. Taken(h) /\ frame[t].pNode.pending = 1
    BY <1>1 DEF HeadInv
  <1>3. PICK o \in Op : o = h.opDesc
    BY <1>1, <1>2 DEF Taken, NodeHead
  <1>4. CASE desc[o] # frame[t].pNode
    <2>1. Quiet
      BY <1>1, <1>3, <1>4 DEF FinDone, CasPNode, Quiet
    <2>2. QED
      BY <1>1, <2>1, QuietMaps
  <1>5. CASE desc[o] = frame[t].pNode
    <2>1. PICK p \in PNode : desc' = [desc EXCEPT ![o] = p]
      <3>1. [node |-> frame[t].pNode.node, pending |-> 0] \in PNode
        BY <1>1 DEF PNode
      <3>2. QED
        BY <1>3, <1>5, <3>1 DEF FinDone, CasPNode
    <2>2. head.opDesc = o /\ desc[o] # NoOp
      BY <1>2, <1>3, <1>5 DEF Taken
    <2>3. desc'[o] = p /\ p # NoOp
      BY <1>1, <2>1, Nulls DEF TypeOK
    <2>4. Obtained(o)' = Obtained(o)
      BY <1>1, <2>2, <2>3 DEF Obtained
    <2>5. QED
      BY <1>1, <2>1, <2>4, DescMaps
  <1>6. QED
    BY <1>4, <1>5

\* The head moves on from a descriptor, which keeps the element it has taken.
LEMMA FinDeqMaps ==
    ASSUME RInv, Watch, NEW t \in Thread, FinDeq(t)
    PROVE  UNCHANGED Queue!vars
  <1> DEFINE h == frame[t].localHead
             n == frame[t].next
  <1>1. /\ Step(t) /\ ~Return(t) /\ pc[t] = "finDeq" /\ IInv /\ TypeOK /\ ListInv /\ SawInv
        /\ HeadInv(t) /\ h \in NodeHead /\ UNCHANGED <<next, desc, kind, calls, result>>
    BY Parts, FrameTypes DEF Step, Return, FinDeq, RInv, history
  <1>2. h = [node |-> h.node, opDesc |-> h.opDesc]
    BY <1>1 DEF NodeHead
  <1>3. CASE n = NoNode \/ head # h
    <2>1. Quiet
      BY <1>1, <1>2, <1>3 DEF FinDeq, CasHead, Quiet
    <2>2. QED
      BY <1>1, <2>1, QuietMaps
  <1>4. CASE n # NoNode /\ head = h
    <2>1. head' = [node |-> n, opDesc |-> NoOp] /\ head'.node = n /\ head'.opDesc = NoOp
      BY <1>2, <1>4 DEF FinDeq, CasHead
    <2>2. head.opDesc # NoOp /\ desc[head.opDesc].pending = 0 /\ n = next[head.node]
      BY <1>1, <1>4 DEF HeadInv, Taken
    <2>3. place' = place /\ front' = front
      BY <1>1, <1>4, <2>1, <2>2, FrontPlaces
    <2>4. ASSUME NEW q \in Op PROVE Obtained(q)' = Obtained(q)
      <3>1. CASE q # head.opDesc
        BY <1>1, <2>1, <3>1, SameObtained, Nulls
      <3>2. CASE q = head.opDesc
        <4>1. desc[q].node = head.node /\ head.node # NoNode
          BY <1>1, <2>2, <3>2, Answers, SharedTypes, Nulls
        <4>2. Answer(q)' = Answer(q) /\ Answer(q) = next[head.node]
          BY <1>1, <4>1 DEF Answer
        <4>3. head'.opDesc # q
          BY <2>1, Nulls
        <4>4. QED
          BY <1>1, <2>2, <3>2, <4>2, <4>3 DEF Obtained
      <3>3. QED
        BY <3>1, <3>2
    <2>5. inCall' = inCall
      BY <1>1, InCallStep
    <2>6. QED
      BY <1>1, <2>3, <2>4, <2>5, Stutters DEF Unseen
  <1>5. QED
    BY <1>3, <1>4

-----------------------------------------------------------------------------
(* Calls begin and return.                                                 *)

LEMMA BeginMaps ==
    ASSUME RInv, Watch, NEW t \in Thread, NEW k \in {"add", "poll"}, Begin(t, k)
    PROVE  Queue!Invoke(t, k)
  <1>1. /\ IInv /\ TypeOK /\ ListInv /\ DescInv /\ pc[t] = "idle" /\ calls[t] < MaxCalls[t]
        /\ calls[t] \in Nat /\ calls' = [calls EXCEPT ![t] = calls[t] + 1]
        /\ kind' = [kind EXCEPT ![<<t, calls[t] + 1>>] = k]
        /\ UNCHANGED <<next, head, desc, result>>
    BY Parts DEF RInv, Begin, shared, TypeOK
  <1>2. pc' = [pc EXCEPT ![t] = IF curTid[t] = -1 THEN "register" ELSE "help"]
    BY DEF Begin, Goto
  <1>3. inCall' = [inCall EXCEPT ![t] = TRUE] /\ ~inCall[t]
    <2>1. \A u \in Thread : (pc'[u] # "idle") = IF u = t THEN TRUE ELSE pc[u] # "idle"
      BY <1>1, <1>2 DEF TypeOK
    <2>2. QED
      BY <1>1, <2>1 DEF inCall
  <1>4. place' = place /\ back' = back
    BY <1>1, SamePlaces
  <1>5. front' = front
    BY <1>1, <1>4 DEF front
  <1>6. ASSUME NEW q \in Op PROVE Obtained(q)' = Obtained(q)
    <2>1. CASE q # <<t, calls[t] + 1>>
      <3>1. kind'[q] = kind[q]
        BY <1>1, <2>1 DEF TypeOK
      <3>2. QED
        BY <1>1, <3>1, SameObtained
    <2>2. CASE q = <<t, calls[t] + 1>>
      <3>1. q[1] = t /\ q[2] = calls[t] + 1
        BY <2>2
      <3>2. ~(q[2] <= calls[q[1]])
        BY <1>1, <3>1
      <3>3. desc[q] = NoOp
        BY <1>1, <3>2 DEF DescInv, Undone
      <3>4. QED
        BY <1>1, <3>3 DEF Obtained
    <2>3. QED
      BY <2>1, <2>2
  <1>7. [q \in Op |-> Obtained(q)]' = [q \in Op |-> Obtained(q)]
    BY <1>6
  <1>8. sawEmpty' = [u \in Thread |-> inCall'[u] /\ (sawEmpty[u] \/ front' = back')]
    BY DEF Watch
  <1>9. QED
    BY <1>1, <1>3, <1>4, <1>5, <1>7, <1>8 DEF Queue!Invoke, Queue!Watch

LEMMA ReturnMaps ==
    ASSUME RInv, Watch, NEW t \in Thread, Return(t)
    PROVE  Queue!Return(t)
  <1>1. /\ IInv /\ TypeOK /\ ListInv /\ DescInv /\ RoleInv(t) /\ CallInv(t) /\ ReturnInv(t)
        /\ pc[t] = "return" /\ UNCHANGED <<next, head, desc, kind, calls>>
        /\ role[t] \in {"fast", "self"}
    BY Parts, Roles DEF RInv, KInv, Return, shared
  <1>2. PICK o \in Op : o = Current(t)
    BY <1>1, CurrentOp DEF CallInv
  <1>3. /\ kind[o] \in {"add", "poll"} /\ (Adding(t) <=> kind[o] = "add")
        /\ role[t] = "self" => desc[o] # NoOp /\ desc[o].pending = 0
    BY <1>1, <1>2, SharedTypes DEF Adding, CallInv, ReturnInv
  <1>4. inCall' = [inCall EXCEPT ![t] = FALSE] /\ inCall[t]
    <2>1. \A u \in Thread : (pc'[u] # "idle") = IF u = t THEN FALSE ELSE pc[u] # "idle"
      BY <1>1 DEF TypeOK, Return, Goto
    <2>2. QED
      BY <1>1, <2>1 DEF inCall
  <1>5. place' = place /\ back' = back
    BY <1>1, SamePlaces
  <1>6. front' = front
    BY <1>1, <1>5 DEF front
  <1>7. ASSUME role[t] = "self", kind[o] = "poll"
        PROVE  Obtained(o) = Answer(o) /\ Answer(o) # None /\ Obtained(o)' = Answer(o)
    <2>1. result[o] = None /\ Answer(o) # None
      BY <1>1, <1>2, <1>3, <1>7, Answers DEF ReturnInv
    <2>2. head.opDesc = o => next[head.node] = Answer(o)
      BY <1>1, Answers, SharedTypes, Nulls DEF Answer
    <2>3. Obtained(o) = Answer(o)
      BY <1>3, <1>7, <2>1, <2>2 DEF Obtained
    <2>4. result'[o] = Answer(o)
      BY <1>1, <1>2, <1>3, <1>7 DEF Return, TypeOK
    <2>5. QED
      BY <2>1, <2>3, <2>4 DEF Obtained
  <1>8. ASSUME NEW q \in Op PROVE Obtained(q)' = Obtained(q)
    <2>1. CASE q = o /\ role[t] = "self" /\ kind[o] = "poll"
      BY <1>7, <2>1
    <2>2. CASE ~(q = o /\ role[t] = "self" /\ kind[o] = "poll")
      <3>1. result'[q] = result[q]
        BY <1>1, <1>2, <1>3, <2>2 DEF Return, TypeOK
      <3>2. QED
        BY <1>1, <3>1, SameObtained
    <2>3. QED
      BY <2>1, <2>2
  <1>9. IF kind[o] = "add" THEN place[o] # 0 ELSE Obtained(o) # None
    <2>1. CASE role[t] = "self" /\ kind[o] = "add"
      BY <1>1, <1>3, <2>1 DEF DescInv, EnqInv
    <2>2. CASE role[t] = "self" /\ kind[o] = "poll"
      BY <1>7, <2>2
    <2>3. CASE role[t] = "fast"
      BY <1>1, <1>2, <1>3, <2>3 DEF ReturnInv, Obtained
    <2>4. QED
      BY <1>1, <1>3, <2>1, <2>2, <2>3
  <1>10. [q \in Op |-> Obtained(q)]' = [q \in Op |-> Obtained(q)]
    BY <1>8
  <1>11. sawEmpty' = [u \in Thread |-> inCall'[u] /\ (sawEmpty[u] \/ front' = back')]
    BY DEF Watch
  <1>12. Queue!Current(t) = o /\ [q \in Op |-> Obtained(q)][o] = Obtained(o)
    BY <1>2 DEF Queue!Current, Current
  <1>13. QED
    BY <1>1, <1>4, <1>5, <1>6, <1>9, <1>10, <1>11, <1>12 DEF Queue!Return, Queue!Watch

-----------------------------------------------------------------------------
(* The theorem.                                                            *)

LEMMA MapsInit == HInit => Queue!Init
  <1> SUFFICES ASSUME HInit PROVE Queue!Init
    OBVIOUS
  <1>1. Op = Queue!Op
    BY DEF Op, Queue!Op
  <1>2. back = 0
    <2>1. Placed = {}
      BY DEF HInit, Placed
    <2>2. QED
      BY <2>1, FS_EmptySet DEF back
  <1>3. front = 0
    BY DEF HInit, Init, front
  <1>4. [o \in Op |-> Obtained(o)] = [o \in Op |-> None]
    BY DEF HInit, Init, Obtained
  <1>5. inCall = [t \in Thread |-> FALSE]
    BY DEF HInit, Init, inCall
  <1>6. QED
    BY <1>1, <1>2, <1>3, <1>4, <1>5 DEF HInit, Init, Queue!Init

\* A step of a thread is a step of the abstract queue, or is not seen there.
LEMMA MapsStep == RInv /\ [HNext]_historyVars => [Queue!Next]_(Queue!vars)
  <1> SUFFICES ASSUME RInv, [HNext]_historyVars PROVE Queue!Next \/ UNCHANGED Queue!vars
    OBVIOUS
  <1>1. ASSUME NEW t \in Thread, NEW k \in {"add", "poll"}, Begin(t, k), Watch
        PROVE  Queue!Next
    BY <1>1, BeginMaps DEF Queue!Next
  <1>2. ASSUME NEW t \in Thread, Step(t), Watch
        PROVE  Queue!Next \/ UNCHANGED Queue!vars
    <2>1. CASE Return(t)
      BY <1>2, <2>1, ReturnMaps DEF Queue!Next
    <2>2. CASE AddCas(t)
      BY <1>2, <2>2, AddCasMaps DEF Queue!Next
    <2>3. CASE EnqCas(t)
      BY <1>2, <2>3, EnqCasMaps DEF Queue!Next
    <2>4. CASE PollCheck(t)
      BY <1>2, <2>4, PollCheckMaps DEF Queue!Next
    <2>5. CASE PollCas(t)
      BY <1>2, <2>5, PollCasMaps DEF Queue!Next
    <2>6. CASE DeqNull(t)
      BY <1>2, <2>6, DeqNullMaps DEF Queue!Next
    <2>7. CASE DeqCas(t)
      BY <1>2, <2>7, DeqCasMaps DEF Queue!Next
    <2>8. CASE Announce(t) \/ FinPending(t) \/ DeqClaim(t) \/ FinDone(t) \/ FinDeq(t)
      BY <1>2, <2>8, AnnounceMaps, FinPendingMaps, DeqClaimMaps, FinDoneMaps, FinDeqMaps
    <2>9. CASE ~(Return(t) \/ AddCas(t) \/ EnqCas(t) \/ PollCheck(t) \/ PollCas(t) \/ DeqNull(t)
                 \/ DeqCas(t) \/ Announce(t) \/ FinPending(t) \/ DeqClaim(t) \/ FinDone(t)
                 \/ FinDeq(t))
      <3>1. TypeOK
        BY DEF RInv, IInv
      <3>2. Quiet
        BY <1>2, <2>9, <3>1, QuietSteps DEF Step
      <3>3. QED
        BY <1>2, <2>9, <3>2, QuietMaps
    <2>10. QED
      BY <2>1, <2>2, <2>3, <2>4, <2>5, <2>6, <2>7, <2>8, <2>9
  <1>3. CASE UNCHANGED historyVars
    <2>1. UNCHANGED <<next, head, desc, kind, calls, result, pc, place, sawEmpty>>
      BY <1>3 DEF historyVars, vars
    <2>2. inCall' = inCall
      BY <2>1 DEF inCall
    <2>3. back' = back /\ front' = front
      BY <2>1 DEF back, Placed, front
    <2>4. [o \in Op |-> Obtained(o)]' = [o \in Op |-> Obtained(o)]
      BY <2>1, SameObtained
    <2>5. QED
      BY <2>1, <2>2, <2>3, <2>4 DEF Queue!vars
  <1>4. QED
    BY <1>1, <1>2, <1>3 DEF HNext, Next

\* Every add and every poll of the queue is linearizable, for any number of
\* threads and calls, any MAXFAILURES and any HELPINGDELAY: an add takes effect
\* when its node is linked, by its owner or a helper, a poll when the head moves
\* on or takes its descriptor in, and a poll that answers "empty" has seen the
\* queue empty during its own call, though a helper found it so.
THEOREM ImplementsFifo == HSpec => FifoSpec
  <1>1. QED
    BY MapsInit, MapsStep, RInvariance, PTL DEF HSpec, FifoSpec, Queue!Spec

\* The next call of a thread is a call of the behaviour.
LEMMA NextCall ==
    ASSUME Queue!QueueAssumption, NEW t \in Thread, calls[t] \in Nat, calls[t] < MaxCalls[t]
    PROVE  <<t, calls[t] + 1>> \in Queue!Op
<1>1. calls[t] + 1 \in 1 .. MaxCalls[t]
  BY DEF Queue!QueueAssumption
<1>2. <<t, calls[t] + 1>> \in {t} \X (1 .. MaxCalls[t])
  BY <1>1
<1>3. QED
  BY <1>2 DEF Queue!Op

\* The abstract queue polls no element twice, and none before one in front of it,
\* whatever the number of threads and calls.
LEMMA NoElementTwice ==
    ASSUME Queue!QueueAssumption
    PROVE  Queue!Spec => []Queue!TakenInOrder
<1> DEFINE res == [o \in Op |-> Obtained(o)]
<1> DEFINE Inv == Queue!TypeInv /\ Queue!PlaceInv
<1>op. Op = Queue!Op
  BY DEF Op, Queue!Op
<1>0. None \notin Queue!Op /\ Empty \notin Queue!Op /\ None # Empty
  BY DEF Queue!QueueAssumption
<1>1. Queue!Init => Inv
  BY <1>0, <1>op DEF Queue!Init, Queue!TypeInv, Queue!PlaceInv, Queue!TakenInOrder
<1>2. Inv /\ [Queue!Next]_(Queue!vars) => Inv'
  <2> SUFFICES ASSUME Queue!TypeInv, Queue!PlaceInv, [Queue!Next]_(Queue!vars) PROVE Inv'
    OBVIOUS
  <2>1. ASSUME NEW t \in Thread, NEW k \in {"add", "poll"}, Queue!Invoke(t, k)
        PROVE  Inv'
    <3>1. <<t, calls[t] + 1>> \in Queue!Op
      BY <2>1, NextCall DEF Queue!Invoke, Queue!TypeInv
    <3>2. Queue!TypeInv'
      BY <2>1, <3>1 DEF Queue!Invoke, Queue!TypeInv, Queue!Current
    <3>3. Queue!PlaceInv'
      BY <2>1 DEF Queue!Invoke, Queue!PlaceInv, Queue!TakenInOrder
    <3>4. QED
      BY <3>2, <3>3
  <2>2. ASSUME NEW t \in Thread, Queue!Add(t)
        PROVE  Inv'
    <3>1. Queue!Current(t) \in Queue!Op /\ Queue!Current(t)' = Queue!Current(t)
      BY <2>2 DEF Queue!Add, Queue!TypeInv, Queue!Current
    <3>2. Queue!TypeInv'
      BY <2>2, <3>1 DEF Queue!Add, Queue!TypeInv, Queue!Current
    <3>3. \A o \in Queue!Op : place'[o] = IF o = Queue!Current(t) THEN back + 1 ELSE place[o]
      BY <2>2, <3>1 DEF Queue!Add, Queue!TypeInv
    <3>4. \A e \in Queue!Op : place'[e] \in 1 .. front <=> place[e] \in 1 .. front
      BY <2>2, <3>1, <3>3 DEF Queue!Add, Queue!TypeInv, Queue!PlaceInv
    <3>5. Queue!PlaceInv'
      BY <2>2, <3>1, <3>3, <3>4 DEF Queue!Add, Queue!PlaceInv, Queue!TakenInOrder, Queue!TypeInv
    <3>6. QED
      BY <3>2, <3>5
  <2>3. ASSUME NEW t \in Thread, Queue!Poll(t)
        PROVE  Inv'
    <3>0. PICK e \in Queue!Op : /\ place[e] = front + 1
                          /\ res' = [res EXCEPT ![Queue!Current(t)] = e]
      BY <2>3 DEF Queue!Poll
    <3>1. Queue!Current(t) \in Queue!Op /\ Queue!Current(t)' = Queue!Current(t)
      BY <2>3 DEF Queue!Poll, Queue!TypeInv, Queue!Current
    <3>2. Queue!TypeInv'
      <4>1. res' \in [Queue!Op -> Queue!Op \cup {None, Empty}]
        BY <1>op, <3>0, <3>1 DEF Queue!TypeInv
      <4>2. QED
        BY <2>3, <4>1 DEF Queue!Poll, Queue!TypeInv, Queue!Current
    <3>3. \A o \in Queue!Op : res'[o] = IF o = Queue!Current(t) THEN e ELSE res[o]
      BY <3>0, <3>1 DEF Queue!TypeInv
    <3>4. res[Queue!Current(t)] = None /\ \A o \in Queue!Op : res[o] # e
      <4>1. front \in Nat /\ ~(place[e] \in 1 .. front)
        BY <3>0 DEF Queue!TypeInv
      <4>2. (\E o \in Queue!Op : res[o] = e) <=> place[e] \in 1 .. front
        BY DEF Queue!PlaceInv, Queue!TakenInOrder
      <4>3. res[Queue!Current(t)] = None
        BY <2>3 DEF Queue!Poll
      <4>4. QED
        BY <4>1, <4>2, <4>3
    <3>5. \A f \in Queue!Op : place[f] \in 1 .. front' <=> place[f] \in 1 .. front \/ f = e
      BY <2>3, <3>0 DEF Queue!Poll, Queue!PlaceInv, Queue!TypeInv
    <3>6. \A f \in Queue!Op : (\E o \in Queue!Op : res'[o] = f) <=> (\E o \in Queue!Op : res[o] = f) \/ f = e
      BY <1>0, <3>1, <3>3, <3>4
    <3>7. Queue!PlaceInv'
      BY <1>op, <2>3, <3>1, <3>3, <3>4, <3>5, <3>6 DEF Queue!Poll, Queue!PlaceInv, Queue!TakenInOrder
    <3>8. QED
      BY <3>2, <3>7
  <2>4. ASSUME NEW t \in Thread, Queue!PollEmpty(t)
        PROVE  Inv'
    <3>1. Queue!Current(t) \in Queue!Op /\ Queue!Current(t)' = Queue!Current(t)
      BY <2>4 DEF Queue!PollEmpty, Queue!TypeInv, Queue!Current
    <3>2. Queue!TypeInv'
      BY ZenonT(60), <2>4, <3>1 DEF Queue!PollEmpty, Queue!TypeInv, Queue!Current
    <3>3. \A o \in Queue!Op : res'[o] = IF o = Queue!Current(t) THEN Empty ELSE res[o]
      BY <2>4, <3>1 DEF Queue!PollEmpty, Queue!TypeInv
    <3>4. res[Queue!Current(t)] = None
      BY <2>4 DEF Queue!PollEmpty
    <3>5. Queue!PlaceInv'
      BY <1>0, <2>4, <3>1, <3>3, <3>4 DEF Queue!PollEmpty, Queue!PlaceInv, Queue!TakenInOrder
    <3>6. QED
      BY <3>2, <3>5
  <2>5. ASSUME NEW t \in Thread, Queue!Return(t)
        PROVE  Inv'
    BY ZenonT(60), <2>5 DEF Queue!Return, Queue!TypeInv, Queue!PlaceInv, Queue!TakenInOrder, Queue!Current
  <2>6. CASE UNCHANGED Queue!vars
    BY <2>6 DEF Queue!vars, Queue!TypeInv, Queue!PlaceInv, Queue!TakenInOrder, Queue!Current
  <2>7. QED
    BY <2>1, <2>2, <2>3, <2>4, <2>5, <2>6 DEF Queue!Next
<1>3. Inv => Queue!TakenInOrder
  BY DEF Queue!PlaceInv
<1>4. QED
  BY <1>1, <1>2, <1>3, PTL DEF Queue!Spec

\* So no element is polled twice, or before one that was added in front of it.
COROLLARY ElementsInOrder == HSpec => []Queue!TakenInOrder
  <1>1. Queue!QueueAssumption
    BY QueueConstants, Nulls DEF QueueConstants, Queue!QueueAssumption, Queue!Op, Op
  <1>2. Queue!Spec => []Queue!TakenInOrder
    BY <1>1, NoElementTwice
  <1>3. QED
    BY <1>2, ImplementsFifo, PTL DEF FifoSpec

-----------------------------------------------------------------------------
(* How long an announced call can be overtaken.                            *)

\* A thread has one index, from Register on.
TidsInv ==
    /\ \A i, j \in 1 .. Len(tids) : tids[i] = tids[j] => i = j
    /\ \A t \in Thread :
         (\E i \in 1 .. Len(tids) : tids[i] = t) <=> (curTid[t] # -1 \/ pc[t] = "resetTid")
    /\ \A t \in Thread : pc[t] = "resetTid" /\ role[t] = "new" => curTid[t] = -1

\* state[] shows what a thread has announced.
StateInv == \A t \in Thread : role[t] = "self" => state[t] = Current(t)

\* The HelpRecord of s has noted the call of t, whose index is i.
Armed(s, t, i) == curTid[s] = i /\ willHelp[s] = Current(t)

\* A call of s has gone past its look at the HelpRecord.
Begun(s) == IF role[s] = "new" \/ pc[s] \in {"idle", "register", "help"} THEN 0 ELSE 1

\* The calls of s until its HelpRecord is due.
Wait(s) == IF pc[s] = "resetPhase" THEN HELPINGDELAY ELSE nextCheck[s]

\* How often the HelpRecord of s moves on until it names index i.
Moves(s, i) == IF curTid[s] < i THEN i - curTid[s] ELSE i - curTid[s] + Cardinality(Thread)

\* The calls of s while it does so.
Delay(s, t, i) ==
    IF (pc[s] = "resetPhase" /\ curTid[s] = i) \/ (pc[s] # "resetPhase" /\ Armed(s, t, i)) THEN 0
    ELSE Moves(s, i) * (HELPINGDELAY + 1)

\* The calls of s that may still return before one of them helps the call of t.
Rest(s, t, i) == Begun(s) + Wait(s) + Delay(s, t, i)

\* A HelpRecord that is due for the call of t is left only by helping it.
Bound(s, t, i) ==
    Armed(s, t, i) /\ role[s] = "help" /\ pc[s] \notin {"help", "register", "resetPhase"} =>
        target[s] = Current(t) /\ pc[s] # "resetTid"

OvertakeInv(t, s) ==
    /\ overtaken[t][s] \in 0 .. MaxPassed
    /\ Pending(t) /\ s # t =>
         \A i \in 0 .. Len(tids) - 1 : tids[i + 1] = t =>
             overtaken[t][s] + Rest(s, t, i) <= MaxPassed /\ Bound(s, t, i)

BoundInv ==
    /\ RInv /\ TidsInv /\ StateInv
    /\ overtaken \in [Thread -> [Thread -> Nat]]
    /\ \A t, s \in Thread : OvertakeInv(t, s)

\* Every step but those of helpIfNeeded, the announcement and the return leaves
\* what decides about helping alone.
LEMMA WorkMoves ==
    ASSUME TypeOK, NEW s \in Thread, Step(s),
           ~(Register(s) \/ Help(s) \/ ResetTid(s) \/ ResetPhase(s) \/ Announce(s) \/ Return(s))
    PROVE  /\ UNCHANGED <<tids, state, curTid, willHelp, nextCheck, role, target>>
           /\ pc[s] \in PcLabels \ {"idle", "register", "help", "resetTid", "resetPhase", "return"}
           /\ pc'[s] \notin {"idle", "register", "help", "resetPhase"}
           /\ pc'[s] = "resetTid" => EnqPending(s) \/ DeqPNode(s) \/ DeqReread(s) \/ DeqNull(s)
                                     \/ FinNext(s) \/ FinCheck(s) \/ FinCas(s)
  <1> USE DEF Goto, Again, Finished, FixTail, HelpLoop, FastLoop, Helped, shared, record, control, PcLabels
  <1>0. pc \in [Thread -> PcLabels]
    BY DEF TypeOK
  <1>1. CASE AddTail(s) \/ AddNext(s) \/ AddCheck(s) \/ AddCas(s) \/ AddSwing(s) \/ FixTailCas(s)
    BY <1>0, <1>1 DEF AddTail, AddNext, AddCheck, AddCas, AddSwing, FixTailCas
  <1>2. CASE EnqPending(s) \/ EnqTail(s) \/ EnqNext(s) \/ EnqCheck(s) \/ EnqStill(s) \/ EnqCas(s)
    BY <1>0, <1>2 DEF EnqPending, EnqTail, EnqNext, EnqCheck, EnqStill, EnqCas
  <1>3. CASE FinTail(s) \/ FinNext(s) \/ FinCheck(s) \/ FinPending(s) \/ FinCas(s)
    BY <1>0, <1>3 DEF FinTail, FinNext, FinCheck, FinPending, FinCas
  <1>4. CASE PollHead(s) \/ PollTail(s) \/ PollNext(s) \/ PollCheck(s) \/ PollCas(s)
    BY <1>0, <1>4 DEF PollHead, PollTail, PollNext, PollCheck, PollCas
  <1>5. CASE DeqPNode(s) \/ DeqHead(s) \/ DeqTail(s) \/ DeqNext(s) \/ DeqCheck(s)
    BY <1>0, <1>5 DEF DeqPNode, DeqHead, DeqTail, DeqNext, DeqCheck, DeqCheckIf
  <1>6. CASE DeqEmpty(s) \/ DeqNull(s) \/ DeqClaim(s) \/ DeqReread(s) \/ DeqStill(s) \/ DeqCas(s)
    BY <1>0, <1>6 DEF DeqEmpty, DeqNull, DeqClaim, DeqReread, DeqStill, DeqCas
  <1>7. CASE FinHead(s) \/ FinHeadNext(s) \/ FinRead(s) \/ FinDone(s) \/ FinDeq(s)
    BY <1>0, <1>7 DEF FinHead, FinHeadNext, FinRead, FinDone, FinDeq
  <1>8. QED
    BY <1>1, <1>2, <1>3, <1>4, <1>5, <1>6, <1>7 DEF Step

\* A helper goes back to its HelpRecord only when the descriptor is done.
LEMMA LeavesHelp ==
    ASSUME RInv, NEW s \in Thread, Step(s), pc'[s] = "resetTid",
           pc[s] \notin {"register", "help", "resetTid"}
    PROVE  desc'[target[s]].pending = 0
  <1> DEFINE o == target[s]
  <1>1. IInv /\ TypeOK /\ ListInv /\ TailInv(s) /\ CallInv(s) /\ pc \in [Thread -> PcLabels]
        /\ frame[s].last \in Node /\ tail \in Node
    BY Parts, FrameTypes DEF RInv, TypeOK
  <1>2. ~(Register(s) \/ Help(s) \/ ResetTid(s) \/ ResetPhase(s) \/ Announce(s) \/ Return(s))
    BY <1>1 DEF Register, Help, ResetTid, ResetPhase, Announce, Return, Goto, FastLoop
  <1>3. EnqPending(s) \/ DeqPNode(s) \/ DeqReread(s) \/ DeqNull(s) \/ FinNext(s) \/ FinCheck(s) \/ FinCas(s)
    BY <1>1, <1>2, WorkMoves
  <1>4. CASE EnqPending(s) \/ DeqPNode(s) \/ DeqReread(s)
    <2>1. pc[s] \in EnqPc \cup DeqPc /\ desc' = desc /\ desc[o].pending # 1
      BY <1>1, <1>4 DEF EnqPending, DeqPNode, DeqReread, Goto, EnqPc, DeqPc, shared
    <2>2. role[s] \in {"help", "self"}
      BY <1>1, <2>1, Parts, Roles
    <2>3. o \in Op /\ desc[o] # NoOp
      BY <1>1, <2>1, <2>2 DEF CallInv, TypeOK
    <2>4. desc[o].pending \in {0, 1}
      BY <1>1, <2>3, SharedTypes
    <2>5. QED
      BY <2>1, <2>4
  <1>5. CASE DeqNull(s)
    <2>1. pc[s] \in DeqPc
      BY <1>5 DEF DeqNull, DeqPc
    <2>2. o \in Op
      BY <1>1, <2>1, DeqFacts
    <2>3. desc[o] = frame[s].pNode
      BY <1>1, <1>5 DEF DeqNull, Again, Goto, HelpLoop, FastLoop
    <2>4. desc' = [desc EXCEPT ![o] = [node |-> NoNode, pending |-> 0]]
      BY <1>5, <2>3 DEF DeqNull, CasPNode
    <2>5. QED
      BY <1>1, <2>2, <2>4 DEF TypeOK
  <1>6. CASE FinNext(s) \/ FinCheck(s) \/ FinCas(s)
    <2>1. Finished(s) /\ desc' = desc
      BY <1>1, <1>6 DEF FinNext, FinCheck, FinCas, Goto, shared
    <2>2. frame[s].done
      BY <1>1, <2>1 DEF Finished, Again, Goto, HelpLoop, FastLoop
    <2>3. /\ o # NoNode /\ desc[o] # NoOp /\ desc[o].pending \in {0, 1}
          /\ desc[o].pending = 1 => next[tail] = o
          /\ desc[o].pending = 1 /\ pc[s] # "finTail" => next[frame[s].last] = o
      BY <2>2, DoneFacts
    <2>4. CASE FinNext(s) \/ FinCheck(s)
      <3>1. pc[s] # "finTail" /\ (next[frame[s].last] = NoNode \/ frame[s].last # tail)
        BY <1>1, <2>4 DEF FinNext, FinCheck, Goto
      <3>2. desc[o].pending = 1 => frame[s].last = tail
        BY <1>1, <2>3, <3>1, ChainLinkedOnce DEF LinkedOnce
      <3>3. QED
        BY <2>1, <2>3, <3>1, <3>2
    <2>5. CASE FinCas(s)
      <3>1. pc[s] = "finCas"
        BY <2>5 DEF FinCas
      <3>2. /\ next[frame[s].last] = frame[s].next
            /\ desc[frame[s].next] = NoOp \/ desc[frame[s].next].pending = 0
        BY <1>1, <3>1 DEF TailInv
      <3>3. QED
        BY <2>1, <2>3, <3>1, <3>2
    <2>6. QED
      BY <1>6, <2>4, <2>5
  <1>7. QED
    BY <1>3, <1>4, <1>5, <1>6

-----------------------------------------------------------------------------
(* Indices and announcements.                                              *)

\* What a step of u leaves to another thread that may help, or be helped.
LEMMA RecordsKept ==
    ASSUME RInv, NEW u \in Thread, Step(u) \/ \E k \in {"add", "poll"} : Begin(u, k)
    PROVE  /\ \A s \in Thread \ {u} :
                /\ pc'[s] = pc[s] /\ role'[s] = role[s] /\ target'[s] = target[s]
                /\ calls'[s] = calls[s] /\ state'[s] = state[s]
                /\ curTid'[s] = curTid[s] /\ willHelp'[s] = willHelp[s] /\ nextCheck'[s] = nextCheck[s]
           /\ tids' = tids \/ (Register(u) /\ tids' = Append(tids, u))
  <1>1. TypeOK
    BY Parts DEF RInv
  <1>2. CASE \E k \in {"add", "poll"} : Begin(u, k)
    BY <1>1, <1>2 DEF Begin, Goto, TypeOK, shared, record
  <1>3. CASE Step(u)
    <2>1. \A s \in Thread \ {u} : /\ pc'[s] = pc[s] /\ role'[s] = role[s] /\ target'[s] = target[s]
                                  /\ calls'[s] = calls[s]
      BY <1>1, <1>3, LocalSteps DEF Locals
    <2>2. CASE Register(u) \/ Help(u) \/ ResetTid(u) \/ ResetPhase(u) \/ Announce(u) \/ Return(u)
      <3>1. tids' = tids \/ (Register(u) /\ tids' = Append(tids, u))
        BY <2>2 DEF Register, Help, ResetTid, ResetPhase, Announce, Return, shared
      <3>2. \A s \in Thread \ {u} : /\ state'[s] = state[s] /\ curTid'[s] = curTid[s]
                                    /\ willHelp'[s] = willHelp[s] /\ nextCheck'[s] = nextCheck[s]
        BY <1>1, <2>2 DEF Register, Help, ResetTid, ResetPhase, Announce, Return, shared, record, TypeOK
      <3>3. QED
        BY <2>1, <3>1, <3>2
    <2>3. CASE ~(Register(u) \/ Help(u) \/ ResetTid(u) \/ ResetPhase(u) \/ Announce(u) \/ Return(u))
      BY <1>1, <1>3, <2>1, <2>3, WorkMoves
    <2>4. QED
      BY <2>2, <2>3
  <1>4. QED
    BY <1>2, <1>3

\* A thread registers once.
LEMMA TidsStep ==
    ASSUME RInv, TidsInv, NEW u \in Thread, Step(u) \/ \E k \in {"add", "poll"} : Begin(u, k)
    PROVE  TidsInv'
  <1> DEFINE Has(t) == \E i \in 1 .. Len(tids) : tids[i] = t
             Has2(t) == \E i \in 1 .. Len(tids') : tids'[i] = t
  <1>1. /\ TypeOK /\ IInv /\ tids \in Seq(Thread) /\ Len(tids) \in Nat /\ RecordInv(u) /\ RoleInv(u)
        /\ curTid[u] \in -1 .. Len(tids) - 1 /\ (tids # << >> => Len(tids) # 0)
    BY Parts, RecordTypes DEF RInv, TypeOK
  <1>2. \A s \in Thread \ {u} : pc'[s] = pc[s] /\ role'[s] = role[s] /\ curTid'[s] = curTid[s]
    BY RecordsKept
  <1>3. ASSUME tids' = tids, (curTid'[u] # -1 \/ pc'[u] = "resetTid") <=> (curTid[u] # -1 \/ pc[u] = "resetTid"),
               pc'[u] = "resetTid" /\ role'[u] = "new" => curTid'[u] = -1
        PROVE  TidsInv'
    <2>1. \A t \in Thread : Has(t) <=> (curTid'[t] # -1 \/ pc'[t] = "resetTid")
      BY <1>2, <1>3 DEF TidsInv
    <2>2. \A t \in Thread : pc'[t] = "resetTid" /\ role'[t] = "new" => curTid'[t] = -1
      BY <1>2, <1>3 DEF TidsInv
    <2>3. \A i, j \in 1 .. Len(tids) : tids[i] = tids[j] => i = j
      BY DEF TidsInv
    <2>4. QED
      BY <1>3, <2>1, <2>2, <2>3 DEF TidsInv
  <1>4. CASE \E k \in {"add", "poll"} : Begin(u, k)
    <2>1. /\ tids' = tids /\ curTid' = curTid /\ pc[u] = "idle" /\ pc'[u] \in {"register", "help"}
      BY <1>1, <1>4 DEF Begin, shared, record, Goto, TypeOK
    <2>2. QED
      BY <1>3, <2>1
  <1>5. CASE Register(u)
    <2>1. /\ pc[u] = "register" /\ pc'[u] = "resetTid" /\ curTid' = curTid /\ curTid[u] = -1
          /\ tids' = Append(tids, u)
      BY <1>1, <1>5 DEF Register, RecordInv, record, Goto, TypeOK
    <2>2. /\ Len(tids') = Len(tids) + 1 /\ tids'[Len(tids) + 1] = u
          /\ \A i \in 1 .. Len(tids) : tids'[i] = tids[i] /\ tids'[i] \in Thread
      BY <1>1, <2>1
    <2>3. ~Has(u)
      BY <2>1 DEF TidsInv
    <2>4. \A i, j \in 1 .. Len(tids') : tids'[i] = tids'[j] => i = j
      <3>1. \A i, j \in 1 .. Len(tids) : tids[i] = tids[j] => i = j
        BY DEF TidsInv
      <3>2. \A i \in 1 .. Len(tids') : i \in 1 .. Len(tids) \/ i = Len(tids) + 1
        BY <1>1, <2>2
      <3>3. QED
        BY <2>2, <2>3, <3>1, <3>2
    <2>5. ASSUME NEW t \in Thread
          PROVE  Has2(t) <=> (curTid'[t] # -1 \/ pc'[t] = "resetTid")
      <3>1. CASE t = u
        <4>1. Len(tids) + 1 \in 1 .. Len(tids')
          BY <1>1, <2>2
        <4>2. QED
          BY <2>1, <2>2, <3>1, <4>1
      <3>2. CASE t # u
        <4>1. Has(t) <=> (curTid[t] # -1 \/ pc[t] = "resetTid")
          BY DEF TidsInv
        <4>2. Has2(t) <=> Has(t)
          BY <1>1, <2>2, <3>2
        <4>3. QED
          BY <1>2, <3>2, <4>1, <4>2
      <3>3. QED
        BY <3>1, <3>2
    <2>6. \A t \in Thread : pc'[t] = "resetTid" /\ role'[t] = "new" => curTid'[t] = -1
      BY <1>2, <2>1 DEF TidsInv
    <2>7. QED
      BY <2>4, <2>5, <2>6 DEF TidsInv
  <1>6. CASE ResetTid(u)
    <2>1. /\ pc[u] = "resetTid" /\ pc'[u] = "resetPhase" /\ tids' = tids
          /\ curTid'[u] = (curTid[u] + 1) % Len(tids)
      BY <1>1, <1>6 DEF ResetTid, shared, Goto, TypeOK
    <2>2. Len(tids) \in Nat \ {0} /\ curTid[u] + 1 \in Nat
      BY <1>1, <2>1 DEF RecordInv
    <2>3. curTid'[u] # -1
      BY <2>1, <2>2
    <2>4. QED
      BY <1>3, <2>1, <2>3
  <1>7. CASE Step(u) /\ ~Register(u) /\ ~ResetTid(u)
    <2>1. tids' = tids /\ curTid' = curTid /\ pc[u] \notin {"idle", "register", "resetTid"}
          /\ (pc'[u] = "resetTid" => role'[u] # "new")
      <3>1. CASE Help(u) \/ ResetPhase(u) \/ Announce(u) \/ Return(u)
        BY <1>1, <3>1 DEF Help, ResetPhase, Announce, Return, shared, record, Goto, FastLoop, TypeOK
      <3>2. CASE ~(Help(u) \/ ResetPhase(u) \/ Announce(u) \/ Return(u))
        <4>1. /\ UNCHANGED <<tids, curTid, role>>
              /\ pc[u] \in PcLabels \ {"idle", "register", "help", "resetTid", "resetPhase", "return"}
          BY <1>1, <1>7, <3>2, WorkMoves
        <4>2. role[u] # "new"
          BY <1>1, <4>1 DEF RoleInv
        <4>3. QED
          BY <4>1, <4>2
      <3>3. QED
        BY <3>1, <3>2
    <2>2. curTid[u] # -1
      BY <1>1, <2>1 DEF RecordInv
    <2>3. QED
      BY <1>3, <2>1, <2>2
  <1>8. QED
    BY <1>4, <1>5, <1>6, <1>7

\* state[] follows every announcement.
LEMMA StateStep ==
    ASSUME RInv, StateInv, NEW u \in Thread, Step(u) \/ \E k \in {"add", "poll"} : Begin(u, k)
    PROVE  StateInv'
  <1>1. /\ TypeOK /\ RoleInv(u)
        /\ \A s \in Thread \ {u} : role'[s] = role[s] /\ calls'[s] = calls[s] /\ state'[s] = state[s]
    BY Parts, RecordsKept DEF RInv
  <1>2. ASSUME role'[u] = "self" PROVE state'[u] = Current(u)'
    <2>1. CASE \E k \in {"add", "poll"} : Begin(u, k)
      BY <1>1, <1>2, <2>1 DEF Begin, TypeOK
    <2>2. CASE Announce(u)
      BY <1>1, <2>2 DEF Announce, Current, TypeOK, history
    <2>3. CASE Register(u) \/ Help(u) \/ ResetTid(u) \/ ResetPhase(u) \/ Return(u)
      <3>1. pc[u] \notin {"register", "help", "resetTid", "resetPhase"} \/ role[u] # "self"
        BY <1>1, Roles
      <3>2. role'[u] # "self"
        BY <1>1, <2>3, <3>1 DEF Register, Help, ResetTid, ResetPhase, Return, TypeOK
      <3>3. QED
        BY <1>2, <3>2
    <2>4. CASE Step(u) /\ ~(Register(u) \/ Help(u) \/ ResetTid(u) \/ ResetPhase(u) \/ Announce(u) \/ Return(u))
      <3>1. role' = role /\ state' = state /\ calls' = calls
        BY <1>1, <2>4, WorkMoves, LocalSteps
      <3>2. QED
        BY <1>2, <3>1 DEF StateInv, Current
    <2>5. QED
      BY <2>1, <2>2, <2>3, <2>4
  <1>3. QED
    BY <1>1, <1>2 DEF StateInv, Current

\* There are no more indices than threads.
LEMMA TidsFew ==
    ASSUME TypeOK, TidsInv
    PROVE  /\ Cardinality(Thread) \in Nat /\ Len(tids) \in Nat
           /\ Len(tids) <= Cardinality(Thread)
  <1>1. IsFiniteSet(Thread) /\ Cardinality(Thread) \in Nat
    BY BoundConstants, FS_CardinalityType
  <1>2. tids \in Seq(Thread) /\ Len(tids) \in Nat
    BY DEF TypeOK
  <1>3. PICK f : f = [i \in 1 .. Len(tids) |-> tids[i]]
    OBVIOUS
  <1>4. f \in Injection(1 .. Len(tids), Thread)
    <2>1. f \in [1 .. Len(tids) -> Thread]
      BY <1>2, <1>3
    <2>2. \A i, j \in 1 .. Len(tids) : f[i] = f[j] => i = j
      BY <1>3 DEF TidsInv
    <2>3. QED
      BY <2>1, <2>2 DEF Injection, IsInjective
  <1>5. IsFiniteSet(1 .. Len(tids)) /\ Cardinality(1 .. Len(tids)) = Len(tids)
    BY <1>2, FS_Interval
  <1>6. Cardinality(1 .. Len(tids)) <= Cardinality(Thread)
    BY <1>1, <1>4, <1>5, FS_Injection
  <1>7. QED
    BY <1>1, <1>2, <1>5, <1>6

\* One more move of the HelpRecord, and no more moves than there are threads.
LEMMA Product ==
    ASSUME NEW h \in Nat, NEW c \in Nat, NEW m \in Nat, m <= c
    PROVE  /\ m * h \in Nat /\ m * h <= c * h
           /\ (m + 1) * h = m * h + h
  OBVIOUS

\* What Rest is made of.
LEMMA RestTypes ==
    ASSUME RInv, TidsInv, NEW s \in Thread, NEW t \in Thread, NEW i \in 0 .. Len(tids) - 1
    PROVE  /\ Begun(s) \in {0, 1} /\ Wait(s) \in -1 .. HELPINGDELAY /\ Begun(s) + Wait(s) >= 0
           /\ Moves(s, i) \in 1 .. Cardinality(Thread)
           /\ Delay(s, t, i) \in 0 .. Cardinality(Thread) * (HELPINGDELAY + 1)
           /\ MaxPassed \in Nat
           /\ Rest(s, t, i) \in 0 .. MaxPassed
  <1> DEFINE C == Cardinality(Thread)
             H == HELPINGDELAY
  <1>1. /\ TypeOK /\ IInv /\ RecordInv(s) /\ H \in Nat /\ C \in Nat
        /\ Len(tids) \in Nat /\ Len(tids) <= C
    BY Parts, Bounds, TidsFew DEF RInv
  <1>2. curTid[s] \in -1 .. Len(tids) - 1 /\ nextCheck[s] \in -1 .. H
    BY <1>1, RecordTypes
  <1>3. Begun(s) \in {0, 1}
    BY DEF Begun
  <1>4. Wait(s) \in -1 .. H
    BY <1>1, <1>2 DEF Wait
  <1>5. Wait(s) = -1 => Begun(s) = 1
    <2>1. ASSUME Wait(s) = -1 PROVE role[s] = "help" /\ pc[s] \notin {"register", "help", "idle"}
      <3>1. nextCheck[s] = -1
        BY <1>1, <2>1 DEF Wait
      <3>2. role[s] = "help" /\ pc[s] \notin {"register", "help"}
        BY <1>1, <3>1 DEF RecordInv
      <3>3. pc[s] # "idle"
        BY <1>1, <3>2, Parts, Roles
      <3>4. QED
        BY <3>2, <3>3
    <2>2. QED
      BY <2>1 DEF Begun
  <1>6. Begun(s) + Wait(s) >= 0 /\ Begun(s) + Wait(s) <= H + 1 /\ Begun(s) + Wait(s) \in Int
    BY <1>1, <1>3, <1>4, <1>5
  <1>7. Moves(s, i) \in 1 .. C
    BY SMTT(60), <1>1, <1>2 DEF Moves
  <1>8. /\ Moves(s, i) * (H + 1) \in Nat /\ Moves(s, i) * (H + 1) <= C * (H + 1)
        /\ C * (H + 1) \in Nat
    <2>1. Moves(s, i) \in Nat /\ Moves(s, i) <= C /\ H + 1 \in Nat
      BY <1>1, <1>7
    <2>2. QED
      BY <1>1, <2>1, Product
  <1>9. Delay(s, t, i) \in 0 .. C * (H + 1)
    BY <1>8 DEF Delay
  <1>10. MaxPassed = C * (H + 1) + (H + 1) /\ MaxPassed \in Nat
    <2>1. (C + 1) * (H + 1) = C * (H + 1) + (H + 1)
      BY <1>1, Product
    <2>2. (H + 1) * (C + 1) = (C + 1) * (H + 1)
      BY <1>1
    <2>3. QED
      BY <1>1, <1>8, <2>1, <2>2 DEF MaxPassed
  <1>11. Rest(s, t, i) \in 0 .. MaxPassed
    BY <1>1, <1>6, <1>8, <1>9, <1>10 DEF Rest
  <1>12. QED
    BY <1>3, <1>4, <1>6, <1>7, <1>9, <1>10, <1>11

\* The index of a thread is the same while others register.
LEMMA SameIndex ==
    ASSUME TypeOK, NEW u \in Thread, NEW t \in Thread,
           tids' = tids \/ (u # t /\ tids' = Append(tids, u)),
           NEW i \in 0 .. Len(tids') - 1, tids'[i + 1] = t
    PROVE  i \in 0 .. Len(tids) - 1 /\ tids[i + 1] = t
  <1>1. tids \in Seq(Thread) /\ Len(tids) \in Nat
    BY DEF TypeOK
  <1>2. CASE tids' = tids
    BY <1>2
  <1>3. CASE u # t /\ tids' = Append(tids, u)
    <2>1. /\ Len(tids') = Len(tids) + 1 /\ tids'[Len(tids) + 1] = u
          /\ \A j \in 1 .. Len(tids) : tids'[j] = tids[j]
      BY <1>1, <1>3
    <2>2. i + 1 \in 1 .. Len(tids) + 1 /\ i \in Nat
      BY <1>1, <2>1
    <2>3. i + 1 # Len(tids) + 1
      BY <1>3, <2>1
    <2>4. i + 1 \in 1 .. Len(tids) /\ i \in 0 .. Len(tids) - 1
      BY <1>1, <2>2, <2>3
    <2>5. QED
      BY <2>1, <2>4
  <1>4. QED
    BY <1>2, <1>3

-----------------------------------------------------------------------------
(* A step of s, seen from t whose announcement is open.                    *)

\* s comes no later to help t for it, and sooner when it has returned.
Nearer(s, t, i, n) ==
    /\ Rest(s, t, i)' \in Int /\ Rest(s, t, i)' + n <= Rest(s, t, i)
    /\ Bound(s, t, i)'

\* What t, whose index is i, looks like to s.
Waits(t, i) ==
    /\ Pending(t) /\ Pending(t)'
    /\ Current(t) \in Op /\ Current(t)' = Current(t) /\ state[t] = Current(t)
    /\ i \in 0 .. Len(tids) - 1 /\ tids[i + 1] = t

\* The call begins, and registers: its turn has not come.
LEMMA BeginNearer ==
    ASSUME RInv, TidsInv, NEW s \in Thread, NEW t \in Thread, NEW i, Waits(t, i), s # t,
           Register(s) \/ \E k \in {"add", "poll"} : Begin(s, k)
    PROVE  Nearer(s, t, i, 0) /\ pc'[s] # "idle"
  <1>1. /\ TypeOK /\ RoleInv(s) /\ i \in 0 .. Len(tids) - 1 /\ Current(t)' = Current(t)
    BY Parts DEF RInv, Waits
  <1>2. /\ curTid' = curTid /\ willHelp' = willHelp /\ nextCheck' = nextCheck
        /\ pc[s] \in {"idle", "register"} /\ pc'[s] \in {"register", "help", "resetTid"}
        /\ role'[s] = "new" \/ pc'[s] \in {"register", "help"}
    BY <1>1 DEF Register, Begin, record, Goto, TypeOK
  <1>3. Begun(s) = 0 /\ Begun(s)' = 0
    BY <1>2 DEF Begun
  <1>4. Wait(s)' = Wait(s)
    BY <1>2 DEF Wait
  <1>5. Delay(s, t, i)' = Delay(s, t, i)
    BY <1>1, <1>2 DEF Delay, Armed, Moves
  <1>6. Rest(s, t, i)' = Rest(s, t, i) /\ Rest(s, t, i) \in Int
    BY <1>1, <1>3, <1>4, <1>5, RestTypes DEF Rest
  <1>7. Bound(s, t, i)'
    BY <1>2 DEF Bound
  <1>8. QED
    BY <1>2, <1>6, <1>7 DEF Nearer

\* helpIfNeeded counts down, helps, or turns away from a HelpRecord that is out
\* of date.
LEMMA HelpNearer ==
    ASSUME RInv, TidsInv, NEW s \in Thread, NEW t \in Thread, NEW i, Waits(t, i), s # t, Help(s)
    PROVE  Nearer(s, t, i, 0) /\ pc'[s] # "idle"
  <1> DEFINE o == state[tids[curTid[s] + 1]]
             due == nextCheck[s] = 0
             take == due /\ o # NoOp /\ o = willHelp[s] /\ desc[o].pending = 1
  <1>1. /\ TypeOK /\ IInv /\ RoleInv(s) /\ RecordInv(s) /\ i \in 0 .. Len(tids) - 1
        /\ tids[i + 1] = t /\ state[t] = Current(t) /\ Current(t) # NoOp /\ desc[Current(t)].pending = 1
        /\ Current(t)' = Current(t) /\ pc[s] = "help" /\ role[s] = "help" /\ nextCheck[s] \in 0 .. HELPINGDELAY
    <2>1. /\ TypeOK /\ IInv /\ RoleInv(s) /\ RecordInv(s) /\ i \in 0 .. Len(tids) - 1
          /\ tids[i + 1] = t /\ state[t] = Current(t) /\ Current(t) # NoOp /\ desc[Current(t)].pending = 1
          /\ Current(t)' = Current(t)
      BY Parts, Nulls DEF RInv, Waits, Pending
    <2>2. pc[s] = "help" /\ role[s] = "help"
      BY <2>1, Roles DEF Help
    <2>3. nextCheck[s] \in -1 .. HELPINGDELAY /\ nextCheck[s] # -1
      BY <2>1, <2>2, RecordTypes DEF RecordInv
    <2>4. QED
      BY <2>1, <2>2, <2>3, Bounds
  <1>2. /\ curTid' = curTid /\ willHelp' = willHelp /\ nextCheck'[s] = nextCheck[s] - 1
        /\ pc'[s] \notin {"idle", "register", "help", "resetPhase"}
        /\ role'[s] = IF due THEN "help" ELSE "fast"
        /\ due => IF take THEN target'[s] = o /\ pc'[s] # "resetTid" ELSE pc'[s] = "resetTid"
    <2>1. /\ curTid' = curTid /\ willHelp' = willHelp /\ nextCheck' = [nextCheck EXCEPT ![s] = @ - 1]
      BY DEF Help
    <2>2. nextCheck'[s] = nextCheck[s] - 1
      BY <1>1, <2>1 DEF TypeOK
    <2>3. CASE take
      <3>1. target'[s] = o /\ pc'[s] \in {"enqPending", "deqPNode"} /\ role' = role
        BY <1>1, <2>3 DEF Help, Goto, TypeOK
      <3>2. QED
        BY <1>1, <2>1, <2>2, <2>3, <3>1
    <2>4. CASE ~take
      <3>1. /\ pc'[s] = (IF due THEN "resetTid" ELSE FastLoop(s))
            /\ role'[s] = IF due THEN "help" ELSE "fast"
        BY <1>1, <2>4 DEF Help, Goto, TypeOK
      <3>2. FastLoop(s) \in {"addTail", "pollHead"}
        BY DEF FastLoop
      <3>3. QED
        BY <1>1, <2>1, <2>2, <2>4, <3>1, <3>2
    <2>5. QED
      BY <2>3, <2>4
  <1>3. Begun(s) = 0 /\ Begun(s)' = 1
    BY <1>1, <1>2 DEF Begun
  <1>4. Wait(s)' = Wait(s) - 1
    BY <1>1, <1>2 DEF Wait
  <1>5. Delay(s, t, i)' = Delay(s, t, i)
    BY <1>1, <1>2 DEF Delay, Armed, Moves
  <1>6. Rest(s, t, i)' = Rest(s, t, i) /\ Rest(s, t, i) \in Int
    BY <1>1, <1>3, <1>4, <1>5, RestTypes DEF Rest
  <1>7. Bound(s, t, i)'
    <2> SUFFICES ASSUME curTid'[s] = i, willHelp'[s] = Current(t)', role'[s] = "help"
                 PROVE  target'[s] = Current(t)' /\ pc'[s] # "resetTid"
      BY DEF Bound, Armed
    <2>1. due /\ o = Current(t) /\ o = willHelp[s]
      BY <1>1, <1>2
    <2>2. take
      BY <1>1, <2>1
    <2>3. QED
      BY <1>1, <1>2, <2>1, <2>2
  <1>8. QED
    BY <1>2, <1>6, <1>7 DEF Nearer

\* The HelpRecord goes round the indices 0 .. L - 1.
LEMMA NextMoves ==
    ASSUME NEW C \in Nat, NEW L \in Nat \ {0}, L <= C, NEW i \in 0 .. L - 1, NEW c \in -1 .. L - 1,
           NEW d \in Nat, d = (c + 1) % L, d # i
    PROVE  LET m == IF d < i THEN i - d ELSE i - d + C
               n == IF c < i THEN i - c ELSE i - c + C
           IN  m \in Nat /\ m + 1 <= n
  <1>1. CASE c + 1 = L
    <2>1. d = 0
      BY <1>1
    <2>2. QED
      BY <1>1, <2>1
  <1>2. CASE c + 1 # L
    <2>1. d = c + 1
      <3>1. c + 1 \in 0 .. L - 1
        BY <1>2
      <3>2. QED
        BY <3>1
    <2>2. QED
      BY <1>2, <2>1
  <1>3. QED
    BY <1>1, <1>2

\* The HelpRecord moves on, towards the index of t.
LEMMA ResetTidNearer ==
    ASSUME RInv, TidsInv, NEW s \in Thread, NEW t \in Thread, NEW i, Waits(t, i), s # t,
           Bound(s, t, i), ResetTid(s)
    PROVE  Nearer(s, t, i, 0) /\ pc'[s] # "idle"
  <1> DEFINE C == Cardinality(Thread)
             H == HELPINGDELAY
             L == Len(tids)
  <1>1. /\ TypeOK /\ IInv /\ RoleInv(s) /\ RecordInv(s) /\ i \in 0 .. L - 1 /\ Current(t)' = Current(t)
        /\ pc[s] = "resetTid" /\ role[s] \in {"new", "help"}
        /\ C \in Nat /\ L \in Nat /\ L <= C /\ H \in Nat /\ H + 1 \in Nat
    <2>1. /\ TypeOK /\ IInv /\ RoleInv(s) /\ RecordInv(s) /\ i \in 0 .. L - 1 /\ Current(t)' = Current(t)
      BY Parts DEF RInv, Waits
    <2>2. pc[s] = "resetTid" /\ role[s] \in {"new", "help"}
      BY <2>1, Roles DEF ResetTid
    <2>3. QED
      BY <2>1, <2>2, TidsFew, Bounds
  <1>2. /\ curTid'[s] = (curTid[s] + 1) % L /\ pc'[s] = "resetPhase" /\ role' = role
    BY <1>1 DEF ResetTid, Goto, TypeOK
  <1>3. curTid[s] \in -1 .. L - 1 /\ L # 0
    BY <1>1, RecordTypes
  <1>4. ~Armed(s, t, i)
    <2>1. CASE role[s] = "new"
      BY <1>1, <2>1 DEF TidsInv, Armed
    <2>2. CASE role[s] = "help"
      BY <1>1, <2>2 DEF Bound
    <2>3. QED
      BY <1>1, <2>1, <2>2
  <1>5. /\ Moves(s, i) \in 1 .. C /\ Begun(s) + Wait(s) >= 0
        /\ Begun(s) \in {0, 1} /\ Wait(s) \in -1 .. H
    BY <1>1, RestTypes
  <1>6. Delay(s, t, i) = Moves(s, i) * (H + 1)
    BY <1>1, <1>4 DEF Delay
  <1>7. ASSUME curTid'[s] # i
        PROVE  Moves(s, i)' + 1 <= Moves(s, i) /\ Moves(s, i)' \in Nat
    <2>1. /\ Moves(s, i) = IF curTid[s] < i THEN i - curTid[s] ELSE i - curTid[s] + C
          /\ Moves(s, i)' = IF curTid'[s] < i THEN i - curTid'[s] ELSE i - curTid'[s] + C
      BY DEF Moves
    <2>2. PICK c \in -1 .. L - 1 : c = curTid[s]
      BY <1>3
    <2>3. PICK d \in Nat : d = curTid'[s] /\ d = (c + 1) % L
      <3>1. c + 1 \in Nat /\ L \in Nat \ {0}
        BY <1>1, <1>3
      <3>2. QED
        BY <1>2, <2>2, <3>1
    <2>4. L \in Nat \ {0} /\ d # i
      BY <1>1, <1>3, <1>7, <2>3
    <2>5. LET m == IF d < i THEN i - d ELSE i - d + C
              n == IF c < i THEN i - c ELSE i - c + C
          IN  m \in Nat /\ m + 1 <= n
      BY <1>1, <2>3, <2>4, NextMoves
    <2>6. QED
      BY <2>1, <2>2, <2>3, <2>5
  <1>8. /\ Begun(s)' \in {0, 1} /\ Wait(s)' = H
        /\ Delay(s, t, i)' = IF curTid'[s] = i THEN 0 ELSE Moves(s, i)' * (H + 1)
    BY <1>2 DEF Begun, Wait, Delay
  <1>9. Delay(s, t, i)' + (H + 1) <= Delay(s, t, i) /\ Delay(s, t, i) \in Nat /\ Delay(s, t, i)' \in Nat
    <2>1. Moves(s, i) \in Nat /\ 1 <= Moves(s, i) /\ Moves(s, i) * (H + 1) \in Nat
      BY <1>1, <1>5, Product
    <2>2. CASE curTid'[s] = i
      <3>1. 1 * (H + 1) <= Moves(s, i) * (H + 1)
        BY <1>1, <2>1, Product
      <3>2. QED
        BY <1>1, <1>6, <1>8, <2>1, <2>2, <3>1
    <2>3. CASE curTid'[s] # i
      <3>1. PICK m \in Nat : m = Moves(s, i)' /\ m + 1 <= Moves(s, i)
        BY <1>7, <2>3
      <3>2. (m + 1) * (H + 1) = m * (H + 1) + (H + 1) /\ m * (H + 1) \in Nat
        BY <1>1, <3>1, Product
      <3>3. (m + 1) * (H + 1) <= Moves(s, i) * (H + 1)
        BY <1>1, <2>1, <3>1, Product
      <3>4. Delay(s, t, i)' = m * (H + 1)
        BY <1>8, <2>3, <3>1
      <3>5. QED
        BY <1>1, <1>6, <2>1, <3>2, <3>3, <3>4
    <2>4. QED
      BY <2>2, <2>3
  <1>10. Rest(s, t, i)' <= Rest(s, t, i)
    BY <1>1, <1>5, <1>8, <1>9 DEF Rest
  <1>11. Bound(s, t, i)'
    BY <1>2 DEF Bound
  <1>12. Rest(s, t, i)' \in Int
    BY <1>1, <1>8, <1>9 DEF Rest
  <1>13. QED
    BY <1>2, <1>10, <1>11, <1>12 DEF Nearer

\* The HelpRecord notes what the thread it names has announced.
LEMMA ResetPhaseNearer ==
    ASSUME RInv, TidsInv, NEW s \in Thread, NEW t \in Thread, NEW i, Waits(t, i), s # t, ResetPhase(s)
    PROVE  Nearer(s, t, i, 0) /\ pc'[s] # "idle"
  <1>1. /\ TypeOK /\ RoleInv(s) /\ i \in 0 .. Len(tids) - 1 /\ Current(t)' = Current(t)
        /\ tids[i + 1] = t /\ state[t] = Current(t)
        /\ pc[s] = "resetPhase" /\ role[s] \in {"new", "help"}
    BY Parts, Roles DEF RInv, Waits, ResetPhase
  <1>2. /\ curTid' = curTid /\ willHelp'[s] = state[tids[curTid[s] + 1]]
        /\ nextCheck'[s] = HELPINGDELAY
        /\ role'[s] = IF role[s] = "new" THEN "help" ELSE "fast"
        /\ pc'[s] = IF role[s] = "new" THEN "help" ELSE FastLoop(s)
        /\ FastLoop(s) \in {"addTail", "pollHead"}
    BY <1>1 DEF ResetPhase, Goto, FastLoop, TypeOK
  <1>3. Begun(s)' = Begun(s)
    BY <1>1, <1>2 DEF Begun
  <1>4. Wait(s)' = Wait(s)
    BY <1>1, <1>2 DEF Wait
  <1>5. Delay(s, t, i)' = Delay(s, t, i)
    BY <1>1, <1>2 DEF Delay, Armed, Moves
  <1>6. Rest(s, t, i)' = Rest(s, t, i) /\ Rest(s, t, i) \in Int
    BY <1>1, <1>3, <1>4, <1>5, RestTypes DEF Rest
  <1>7. Bound(s, t, i)'
    BY <1>2 DEF Bound
  <1>8. QED
    BY <1>2, <1>6, <1>7 DEF Nearer

\* The call ends: one less is left.
LEMMA ReturnNearer ==
    ASSUME RInv, TidsInv, NEW s \in Thread, NEW t \in Thread, NEW i, Waits(t, i), s # t, Return(s)
    PROVE  Nearer(s, t, i, 1)
  <1>1. /\ TypeOK /\ RoleInv(s) /\ i \in 0 .. Len(tids) - 1 /\ Current(t)' = Current(t)
        /\ pc[s] = "return" /\ role[s] \in {"fast", "self"}
    BY Parts, Roles DEF RInv, Waits, Return
  <1>2. /\ curTid' = curTid /\ willHelp' = willHelp /\ nextCheck' = nextCheck
        /\ pc'[s] = "idle" /\ role'[s] = "fast"
    BY <1>1 DEF Return, Goto, record, TypeOK
  <1>3. Begun(s)' = 0 /\ Begun(s) = 1
    BY <1>1, <1>2 DEF Begun
  <1>4. Wait(s)' = Wait(s)
    BY <1>1, <1>2 DEF Wait
  <1>5. Delay(s, t, i)' = Delay(s, t, i)
    BY <1>1, <1>2 DEF Delay, Armed, Moves
  <1>6. Rest(s, t, i)' + 1 = Rest(s, t, i) /\ Rest(s, t, i)' \in Int
    <2>1. /\ Wait(s) \in -1 .. HELPINGDELAY
          /\ Delay(s, t, i) \in 0 .. Cardinality(Thread) * (HELPINGDELAY + 1)
      BY <1>1, RestTypes
    <2>2. QED
      BY <1>3, <1>4, <1>5, <2>1 DEF Rest
  <1>7. Bound(s, t, i)'
    BY <1>2 DEF Bound
  <1>8. QED
    BY <1>6, <1>7 DEF Nearer

\* In all other steps s stays as near; if it helps t it goes on until t is done.
LEMMA WorkNearer ==
    ASSUME RInv, TidsInv, NEW s \in Thread, NEW t \in Thread, NEW i, Waits(t, i), s # t,
           Bound(s, t, i), Step(s),
           ~(Register(s) \/ Help(s) \/ ResetTid(s) \/ ResetPhase(s) \/ Return(s))
    PROVE  Nearer(s, t, i, 0) /\ pc'[s] # "idle"
  <1>1. /\ TypeOK /\ RoleInv(s) /\ i \in 0 .. Len(tids) - 1 /\ Current(t)' = Current(t)
        /\ Pending(t)' /\ pc \in [Thread -> PcLabels]
    BY Parts DEF RInv, Waits, TypeOK
  <1>2. /\ curTid' = curTid /\ willHelp' = willHelp /\ nextCheck' = nextCheck
        /\ pc[s] \in PcLabels \ {"idle", "register", "help", "resetTid", "resetPhase", "return"}
        /\ pc'[s] \notin {"idle", "register", "help", "resetPhase"}
        /\ role'[s] # "new"
        /\ role'[s] = "help" => role[s] = "help" /\ target'[s] = target[s]
    <2>1. CASE Announce(s)
      <3>1. pc'[s] \in {"enqPending", "deqPNode"} /\ role'[s] = "self"
        BY <1>1, <2>1 DEF Announce, Goto, TypeOK
      <3>2. QED
        BY <2>1, <3>1 DEF Announce, record, PcLabels
    <2>2. CASE ~Announce(s)
      <3>1. /\ UNCHANGED <<tids, state, curTid, willHelp, nextCheck, role, target>>
            /\ pc[s] \in PcLabels \ {"idle", "register", "help", "resetTid", "resetPhase", "return"}
            /\ pc'[s] \notin {"idle", "register", "help", "resetPhase"}
        BY <1>1, <2>2, WorkMoves
      <3>2. role[s] # "new"
        BY <1>1, <3>1 DEF RoleInv
      <3>3. QED
        BY <3>1, <3>2
    <2>3. QED
      BY <2>1, <2>2
  <1>3. Begun(s)' = 1 /\ Begun(s) = 1
    <2>1. role[s] # "new"
      BY <1>1, <1>2 DEF RoleInv
    <2>2. QED
      BY <1>2, <2>1 DEF Begun
  <1>4. Wait(s)' = Wait(s)
    BY <1>2 DEF Wait
  <1>5. Delay(s, t, i)' = Delay(s, t, i)
    BY <1>1, <1>2 DEF Delay, Armed, Moves
  <1>6. Rest(s, t, i)' = Rest(s, t, i) /\ Rest(s, t, i) \in Int
    BY <1>1, <1>3, <1>4, <1>5, RestTypes DEF Rest
  <1>7. Bound(s, t, i)'
    <2> SUFFICES ASSUME curTid'[s] = i, willHelp'[s] = Current(t)', role'[s] = "help"
                 PROVE  target'[s] = Current(t)' /\ pc'[s] # "resetTid"
      BY DEF Bound, Armed
    <2>1. target[s] = Current(t) /\ target'[s] = target[s]
      BY <1>1, <1>2 DEF Bound, Armed
    <2>2. desc'[Current(t)].pending = 1
      BY <1>1 DEF Pending
    <2>3. pc'[s] = "resetTid" => desc'[target[s]].pending = 0
      BY <1>2, LeavesHelp
    <2>4. QED
      BY <1>1, <2>1, <2>2, <2>3
  <1>8. QED
    BY <1>2, <1>6, <1>7 DEF Nearer

\* A step of another thread leaves s as near.
LEMMA OtherNearer ==
    ASSUME RInv, TidsInv, NEW u \in Thread, NEW s \in Thread, NEW t \in Thread, NEW i, Waits(t, i),
           u # s, Bound(s, t, i), Step(u) \/ \E k \in {"add", "poll"} : Begin(u, k)
    PROVE  Nearer(s, t, i, 0) /\ pc'[s] = pc[s]
  <1>1. /\ i \in 0 .. Len(tids) - 1 /\ Current(t)' = Current(t)
        /\ pc'[s] = pc[s] /\ role'[s] = role[s] /\ target'[s] = target[s]
        /\ curTid'[s] = curTid[s] /\ willHelp'[s] = willHelp[s] /\ nextCheck'[s] = nextCheck[s]
    BY RecordsKept DEF Waits
  <1>2. /\ Begun(s)' = Begun(s) /\ Wait(s)' = Wait(s) /\ Delay(s, t, i)' = Delay(s, t, i)
    BY <1>1 DEF Begun, Wait, Delay, Armed, Moves
  <1>3. Rest(s, t, i)' = Rest(s, t, i) /\ Rest(s, t, i) \in Int
    BY <1>1, <1>2, RestTypes DEF Rest
  <1>4. Bound(s, t, i)'
    BY <1>1 DEF Bound, Armed
  <1>5. QED
    BY <1>1, <1>3, <1>4 DEF Nearer

\* A step of s itself.
LEMMA OwnNearer ==
    ASSUME RInv, TidsInv, NEW s \in Thread, NEW t \in Thread, NEW i, Waits(t, i), s # t,
           Bound(s, t, i), Step(s) \/ \E k \in {"add", "poll"} : Begin(s, k)
    PROVE  Nearer(s, t, i, IF pc[s] # "idle" /\ pc'[s] = "idle" THEN 1 ELSE 0)
  <1>1. CASE Return(s)
    <2>1. Nearer(s, t, i, 1)
      BY <1>1, ReturnNearer
    <2>2. pc[s] # "idle" /\ pc'[s] = "idle"
      BY <1>1, Parts DEF RInv, Return, Goto, TypeOK
    <2>3. QED
      BY <2>1, <2>2
  <1>2. CASE Register(s) \/ \E k \in {"add", "poll"} : Begin(s, k)
    BY <1>2, BeginNearer
  <1>3. CASE Help(s)
    BY <1>3, HelpNearer
  <1>4. CASE ResetTid(s)
    BY <1>4, ResetTidNearer
  <1>5. CASE ResetPhase(s)
    BY <1>5, ResetPhaseNearer
  <1>6. CASE Step(s) /\ ~(Register(s) \/ Help(s) \/ ResetTid(s) \/ ResetPhase(s) \/ Return(s))
    BY <1>6, WorkNearer
  <1>7. QED
    BY <1>1, <1>2, <1>3, <1>4, <1>5, <1>6

\* An announcement that is new: s has not noted it.
LEMMA AnnouncedAfresh ==
    ASSUME RInv, TidsInv, NEW u \in Thread, NEW t \in Thread, NEW s \in Thread, s # t,
           Step(u) \/ \E k \in {"add", "poll"} : Begin(u, k), ~Pending(t), Pending(t)',
           NEW i \in 0 .. Len(tids) - 1
    PROVE  Rest(s, t, i)' \in Int /\ Rest(s, t, i)' <= MaxPassed /\ Bound(s, t, i)'
  <1>1. IInv /\ TypeOK /\ CallInv(t) /\ RoleInv(t) /\ RecordInv(s)
    BY Parts DEF RInv
  <1>2. Announce(t) /\ u = t
    <2>1. role'[t] = "self" /\ desc'[Current(t)'].pending = 1
      BY DEF Pending
    <2>2. CASE u = t /\ \E k \in {"add", "poll"} : Begin(u, k)
      <3>1. role'[t] = "help"
        BY <1>1, <2>2 DEF Begin, TypeOK
      <3>2. QED
        BY <2>1, <3>1
    <2>3. CASE u = t /\ Step(u) /\ ~Announce(u)
      <3>1. role[t] = "self" /\ calls'[t] = calls[t]
        <4>1. CASE Register(t) \/ Help(t) \/ ResetTid(t) \/ ResetPhase(t) \/ Return(t)
          <5>1. Return(t) \/ role[t] # "self"
            BY <1>1, <4>1, Roles DEF Register, Help, ResetTid, ResetPhase
          <5>2. role'[t] # "self"
            BY <1>1, <4>1, <5>1 DEF Register, Help, ResetTid, ResetPhase, Return, TypeOK
          <5>3. QED
            BY <2>1, <5>2
        <4>2. CASE ~(Register(t) \/ Help(t) \/ ResetTid(t) \/ ResetPhase(t) \/ Return(t))
          BY <1>1, <2>1, <2>3, <4>2, WorkMoves, LocalSteps
        <4>3. QED
          BY <4>1, <4>2
      <3>2. Current(t)' = Current(t) /\ Current(t) \in Op /\ desc[Current(t)] # NoOp
        <4>1. target[t] = Current(t) /\ desc[Current(t)] # NoOp /\ pc[t] # "idle"
          BY <1>1, <3>1, Roles DEF CallInv
        <4>2. QED
          BY <1>1, <3>1, <4>1, CurrentOp DEF CallInv, Current
      <3>3. desc[Current(t)].pending = 1
        BY <1>1, <2>1, <2>3, <3>2, KeepsStep DEF Keeps
      <3>4. QED
        BY <3>1, <3>3 DEF Pending
    <2>4. CASE u # t
      <3>1. role'[t] = role[t] /\ calls'[t] = calls[t] /\ Keeps(u)
        BY <1>1, <2>4, RecordsKept, KeepsStep, KeepsBegin
      <3>2. Current(t)' = Current(t) /\ Current(t) \in Op /\ desc[Current(t)] # NoOp
        <4>1. target[t] = Current(t) /\ desc[Current(t)] # NoOp /\ pc[t] # "idle"
          BY <1>1, <2>1, <3>1, Roles DEF CallInv
        <4>2. QED
          BY <1>1, <3>1, <4>1, CurrentOp DEF CallInv, Current
      <3>3. desc[Current(t)].pending = 1
        BY <2>1, <3>1, <3>2 DEF Keeps
      <3>4. QED
        BY <2>1, <3>1, <3>3 DEF Pending
    <2>5. QED
      BY <2>2, <2>3, <2>4
  <1>3. desc[Current(t)] = NoOp /\ Current(t)' = Current(t)
    <2>1. pc[t] = "announce" /\ role[t] = "fast" /\ calls' = calls
      BY <1>1, <1>2, Roles DEF Announce, history
    <2>2. QED
      BY <1>1, <2>1 DEF CallInv, Undone, Current
  <1>4. ~Armed(s, t, i) /\ ~Armed(s, t, i)'
    <2>1. willHelp'[s] = willHelp[s]
      BY <1>2 DEF Announce, record
    <2>2. Current(t) # NoOp
      <3>1. pc[t] # "idle"
        BY <1>2 DEF Announce
      <3>2. QED
        BY <1>1, <3>1, CurrentOp, Nulls DEF CallInv
    <2>3. willHelp[s] # Current(t)
      BY <1>1, <1>3, <2>2 DEF RecordInv
    <2>4. QED
      BY <1>3, <2>1, <2>3 DEF Armed
  <1>5. /\ pc'[s] = pc[s] /\ role'[s] = role[s]
        /\ curTid'[s] = curTid[s] /\ nextCheck'[s] = nextCheck[s]
    BY <1>2, RecordsKept
  <1>6. /\ Begun(s)' = Begun(s) /\ Wait(s)' = Wait(s) /\ Delay(s, t, i)' = Delay(s, t, i)
    BY <1>4, <1>5 DEF Begun, Wait, Delay, Moves
  <1>7. Rest(s, t, i)' = Rest(s, t, i) /\ Rest(s, t, i) \in 0 .. MaxPassed
    BY <1>6, RestTypes DEF Rest
  <1>8. MaxPassed \in Nat
    BY RestTypes
  <1>9. QED
    BY <1>4, <1>7, <1>8 DEF Bound

LEMMA MaxPassedNat == MaxPassed \in Nat
  <1>1. HELPINGDELAY \in Nat /\ Cardinality(Thread) \in Nat
    BY Bounds, FS_CardinalityType, BoundConstants
  <1>2. QED
    BY <1>1 DEF MaxPassed

\* An announcement that stays open is one of the same call, at the same index.
LEMMA StillWaits ==
    ASSUME RInv, StateInv, NEW u \in Thread, NEW t \in Thread,
           Step(u) \/ \E k \in {"add", "poll"} : Begin(u, k), Pending(t), Pending(t)',
           NEW i \in 0 .. Len(tids') - 1, tids'[i + 1] = t
    PROVE  Waits(t, i)
  <1>1. /\ IInv /\ TypeOK /\ CallInv(t) /\ RecordInv(t) /\ role[t] = "self"
        /\ pc[t] \notin {"idle", "register", "announce"}
    <2>1. IInv /\ TypeOK /\ CallInv(t) /\ RecordInv(t) /\ RoleInv(t) /\ role[t] = "self"
      BY Parts DEF RInv, Pending
    <2>2. QED
      BY <2>1, Roles
  <1>2. Current(t) \in Op /\ state[t] = Current(t)
    BY <1>1, CurrentOp DEF CallInv, StateInv
  <1>3. calls'[t] = calls[t]
    <2>1. CASE u = t
      <3>1. Step(t)
        BY <1>1, <2>1 DEF Begin
      <3>2. QED
        BY <1>1, <3>1, LocalSteps
    <2>2. CASE u # t
      BY <2>2, RecordsKept
    <2>3. QED
      BY <2>1, <2>2
  <1>4. Current(t)' = Current(t)
    BY <1>3 DEF Current
  <1>5. tids' = tids \/ (u # t /\ tids' = Append(tids, u))
    <2>1. Register(u) => u # t
      BY <1>1 DEF Register
    <2>2. QED
      BY <2>1, RecordsKept
  <1>6. i \in 0 .. Len(tids) - 1 /\ tids[i + 1] = t
    BY <1>1, <1>5, SameIndex
  <1>7. QED
    BY <1>2, <1>4, <1>6 DEF Waits

\* The call of s that returns was one of those left.
LEMMA OvertakeStep ==
    ASSUME BoundInv, RInv', TidsInv', NEW u \in Thread,
           Step(u) \/ \E k \in {"add", "poll"} : Begin(u, k), Count,
           NEW t \in Thread, NEW s \in Thread
    PROVE  OvertakeInv(t, s)'
  <1> DEFINE ends == s # t /\ pc[s] # "idle" /\ pc'[s] = "idle"
             n == IF pc[s] # "idle" /\ pc'[s] = "idle" THEN 1 ELSE 0
  <1>1. /\ RInv /\ TidsInv /\ StateInv /\ OvertakeInv(t, s) /\ overtaken[t][s] \in 0 .. MaxPassed
    BY DEF BoundInv, OvertakeInv
  <1>2. overtaken'[t][s] = IF ~Pending(t) THEN 0
                           ELSE IF ends THEN overtaken[t][s] + 1 ELSE overtaken[t][s]
    BY DEF Count
  <1>3. MaxPassed \in Nat
    BY MaxPassedNat
  <1>4. CASE ~Pending(t)
    <2>1. overtaken'[t][s] = 0
      BY <1>2, <1>4
    <2>2. ASSUME Pending(t)', s # t, NEW i \in 0 .. Len(tids') - 1, tids'[i + 1] = t
          PROVE  Rest(s, t, i)' <= MaxPassed /\ Rest(s, t, i)' \in Int /\ Bound(s, t, i)'
      <3>1. u = t => ~Register(u)
        <4>1. Register(t) => role'[t] = "new"
          BY <1>1, Parts DEF RInv, Register, TypeOK
        <4>2. QED
          BY <2>2, <4>1 DEF Pending
      <3>2. tids' = tids \/ (u # t /\ tids' = Append(tids, u))
        BY <1>1, <3>1, RecordsKept
      <3>3. i \in 0 .. Len(tids) - 1
        BY <1>1, <2>2, <3>2, SameIndex, Parts DEF RInv
      <3>4. QED
        BY <1>1, <1>4, <2>2, <3>3, AnnouncedAfresh
    <2>3. QED
      BY <1>3, <2>1, <2>2 DEF OvertakeInv
  <1>5. CASE Pending(t) /\ s = t
    BY <1>1, <1>2, <1>3, <1>5 DEF OvertakeInv
  <1>6. ASSUME ends, Pending(t)
        PROVE  /\ Pending(t)' /\ tids' = tids
               /\ \A i \in 0 .. Len(tids) - 1 : Rest(s, t, i) >= 1
               /\ \E i \in 0 .. Len(tids) - 1 : tids[i + 1] = t
    <2>1. /\ TypeOK /\ RoleInv(s) /\ RecordInv(s) /\ pc \in [Thread -> PcLabels]
          /\ RoleInv(t) /\ RecordInv(t) /\ role[t] = "self" /\ IInv
      BY <1>1, <1>6, Parts DEF RInv, TypeOK, Pending
    <2>2. Return(s)
      <3>1. u = s
        BY <1>1, <1>6, RecordsKept
      <3>2. Step(s)
        BY <1>6, <3>1 DEF Begin
      <3>3. ~(Register(s) \/ Help(s) \/ ResetTid(s) \/ ResetPhase(s) \/ Announce(s))
        BY <1>6, <2>1 DEF Register, Help, ResetTid, ResetPhase, Announce, Goto, FastLoop
      <3>4. ASSUME ~Return(s) PROVE FALSE
        <4>1. pc'[s] # "idle"
          <5>1. /\ pc[s] \in PcLabels \ {"idle", "register", "help", "resetTid", "resetPhase", "return"}
                /\ pc'[s] \notin {"idle", "register", "help", "resetPhase"}
            BY <2>1, <3>2, <3>3, <3>4, WorkMoves
          <5>2. QED
            BY <5>1
        <4>2. QED
          BY <1>6, <4>1
      <3>5. QED
        BY <3>4
    <2>3. Pending(t)'
      <3>1. role'[t] = role[t] /\ desc' = desc /\ calls' = calls
        BY <1>6, <2>1, <2>2 DEF Return, shared, TypeOK
      <3>2. Current(t)' = Current(t)
        BY <3>1 DEF Current
      <3>3. QED
        BY <1>6, <3>1, <3>2 DEF Pending
    <2>4. tids' = tids
      BY <2>2 DEF Return, shared
    <2>5. pc[s] = "return" /\ role[s] \in {"fast", "self"}
      BY <2>1, <2>2, Roles DEF Return
    <2>6. nextCheck[s] \in 0 .. HELPINGDELAY
      <3>1. nextCheck[s] # -1
        BY <2>1, <2>5 DEF RecordInv
      <3>2. QED
        BY <2>1, <3>1, RecordTypes, Bounds
    <2>7. Begun(s) = 1 /\ Wait(s) \in Nat
      BY <2>5, <2>6, Bounds DEF Begun, Wait
    <2>8. ASSUME NEW i \in 0 .. Len(tids) - 1 PROVE Rest(s, t, i) >= 1
      <3>1. Delay(s, t, i) \in 0 .. Cardinality(Thread) * (HELPINGDELAY + 1)
        BY <1>1, RestTypes
      <3>2. QED
        BY <2>7, <3>1 DEF Rest
    <2>9. \E i \in 0 .. Len(tids) - 1 : tids[i + 1] = t
      <3>1. curTid[t] # -1
        BY <2>1, Roles DEF RecordInv
      <3>2. PICK j \in 1 .. Len(tids) : tids[j] = t
        BY <1>1, <3>1 DEF TidsInv
      <3>3. j - 1 \in 0 .. Len(tids) - 1 /\ (j - 1) + 1 = j
        OBVIOUS
      <3>4. QED
        BY <3>2, <3>3
    <2>10. QED
      BY <2>3, <2>4, <2>8, <2>9
  <1>7. ASSUME Pending(t), Pending(t)', s # t, NEW i \in 0 .. Len(tids') - 1, tids'[i + 1] = t
        PROVE  /\ overtaken'[t][s] + Rest(s, t, i)' <= MaxPassed /\ Bound(s, t, i)'
               /\ i \in 0 .. Len(tids) - 1 /\ tids[i + 1] = t
    <2>1. Waits(t, i)
      BY <1>1, <1>7, StillWaits
    <2>2. i \in 0 .. Len(tids) - 1 /\ tids[i + 1] = t
      BY <2>1 DEF Waits
    <2>3. overtaken[t][s] + Rest(s, t, i) <= MaxPassed /\ Bound(s, t, i)
      BY <1>1, <1>7, <2>2 DEF OvertakeInv
    <2>4. Nearer(s, t, i, n)
      <3>1. CASE u = s
        <4>1. Step(s) \/ \E k \in {"add", "poll"} : Begin(s, k)
          BY <3>1
        <4>2. QED
          BY <1>1, <1>7, <2>1, <2>3, <4>1, OwnNearer
      <3>2. CASE u # s
        <4>1. Nearer(s, t, i, 0) /\ pc'[s] = pc[s]
          BY <1>1, <2>1, <2>3, <3>2, OtherNearer
        <4>2. n = 0
          BY <4>1
        <4>3. QED
          BY <4>1, <4>2
      <3>3. QED
        BY <3>1, <3>2
    <2>5. overtaken'[t][s] = overtaken[t][s] + n
      BY <1>1, <1>2, <1>3, <1>7
    <2>6. /\ Rest(s, t, i)' + n <= Rest(s, t, i) /\ Bound(s, t, i)'
          /\ Rest(s, t, i)' \in Int /\ Rest(s, t, i) \in Int
      BY <1>1, <2>2, <2>4, RestTypes DEF Nearer
    <2>7. n \in Int /\ overtaken[t][s] \in Int /\ MaxPassed \in Int
      BY <1>1, <1>3
    <2>8. overtaken'[t][s] + Rest(s, t, i)' <= MaxPassed
      BY <2>3, <2>5, <2>6, <2>7
    <2>9. QED
      BY <2>2, <2>6, <2>8
  <1>8. CASE Pending(t) /\ s # t
    <2>1. overtaken'[t][s] \in 0 .. MaxPassed
      <3>1. CASE ~ends
        BY <1>1, <1>2, <1>3, <1>8, <3>1
      <3>2. CASE ends
        <4>1. PICK i \in 0 .. Len(tids) - 1 : tids[i + 1] = t
          BY <1>6, <1>8, <3>2
        <4>2. overtaken[t][s] + Rest(s, t, i) <= MaxPassed /\ Rest(s, t, i) >= 1
          BY <1>1, <1>6, <1>8, <3>2, <4>1 DEF OvertakeInv
        <4>3. Rest(s, t, i) \in Int
          BY <1>1, RestTypes
        <4>4. QED
          BY <1>1, <1>2, <1>3, <1>8, <3>2, <4>2, <4>3
      <3>3. QED
        BY <3>1, <3>2
    <2>2. QED
      BY <1>7, <1>8, <2>1 DEF OvertakeInv
  <1>9. QED
    BY <1>4, <1>5, <1>8

-----------------------------------------------------------------------------
\* Nobody has announced anything.
LEMMA BoundInit == BInit => BoundInv
  <1> SUFFICES ASSUME BInit PROVE BoundInv
    OBVIOUS
  <1>1. RInv
    BY RInit DEF BInit
  <1>2. /\ tids = << >> /\ curTid = [t \in Thread |-> -1] /\ pc = [t \in Thread |-> "idle"]
        /\ role = [t \in Thread |-> "fast"]
        /\ overtaken = [t \in Thread |-> [s \in Thread |-> 0]]
    BY DEF BInit, HInit, Init
  <1>3. TidsInv
    BY <1>2 DEF TidsInv
  <1>4. StateInv
    BY <1>2 DEF StateInv
  <1>5. overtaken \in [Thread -> [Thread -> Nat]]
    BY <1>2
  <1>6. ASSUME NEW t \in Thread, NEW s \in Thread PROVE OvertakeInv(t, s)
    <2>1. MaxPassed \in Nat
      BY MaxPassedNat
    <2>2. ~Pending(t) /\ overtaken[t][s] = 0
      BY <1>2 DEF Pending
    <2>3. QED
      BY <2>1, <2>2 DEF OvertakeInv
  <1>7. QED
    BY <1>1, <1>3, <1>4, <1>5, <1>6 DEF BoundInv

LEMMA BoundInductive == BoundInv /\ [BNext]_boundVars => BoundInv'
  <1> SUFFICES ASSUME BoundInv, [BNext]_boundVars PROVE BoundInv'
    OBVIOUS
  <1>1. RInv /\ RInv'
    <2>1. [HNext]_historyVars
      BY DEF BNext, boundVars
    <2>2. QED
      BY <2>1, RInductive DEF BoundInv
  <1>2. CASE BNext
    <2>1. PICK u \in Thread : Step(u) \/ \E k \in {"add", "poll"} : Begin(u, k)
      BY <1>2 DEF BNext, HNext, Next
    <2>2. TidsInv' /\ StateInv'
      BY <1>1, <2>1, TidsStep, StateStep DEF BoundInv
    <2>3. Count
      BY <1>2 DEF BNext
    <2>4. overtaken' \in [Thread -> [Thread -> Nat]]
      <3>1. \A t, s \in Thread : overtaken[t][s] \in Nat
        BY DEF BoundInv
      <3>2. QED
        BY <2>3, <3>1 DEF Count
    <2>5. \A t, s \in Thread : OvertakeInv(t, s)'
      BY <1>1, <2>1, <2>2, <2>3, OvertakeStep
    <2>6. QED
      BY <1>1, <2>2, <2>4, <2>5 DEF BoundInv
  <1>3. CASE UNCHANGED boundVars
    <2>1. /\ UNCHANGED <<tids, curTid, pc, role, state, calls, desc, willHelp, nextCheck, target, overtaken>>
      BY <1>3 DEF boundVars, historyVars, vars, shared, record, history, control
    <2>2. TidsInv' /\ StateInv'
      BY <2>1 DEF BoundInv, TidsInv, StateInv, Current
    <2>3. \A t, s \in Thread : OvertakeInv(t, s)'
      <3> SUFFICES ASSUME NEW t \in Thread, NEW s \in Thread PROVE OvertakeInv(t, s)'
        OBVIOUS
      <3>1. OvertakeInv(t, s)
        BY DEF BoundInv
      <3>2. QED
        BY <2>1, <3>1 DEF OvertakeInv, Pending, Current, Rest, Begun, Wait, Delay, Armed, Moves, Bound
    <2>4. QED
      BY <1>1, <2>1, <2>2, <2>3 DEF BoundInv
  <1>4. QED
    BY <1>2, <1>3

\* The queue is wait-free as far as helping goes: while an announced call is
\* pending, each other thread finishes at most MaxPassed calls, for any number
\* of threads.
THEOREM OvertakenFewTimes == BSpec => []OvertakenBound
  <1>1. BoundInv => OvertakenBound
    <2> SUFFICES ASSUME BoundInv, NEW t \in Thread, NEW s \in Thread
                 PROVE  overtaken[t][s] <= MaxPassed
      BY DEF OvertakenBound
    <2>1. overtaken[t][s] \in 0 .. MaxPassed /\ MaxPassed \in Nat
      BY MaxPassedNat DEF BoundInv, OvertakeInv
    <2>2. QED
      BY <2>1
  <1>2. QED
    BY <1>1, BoundInit, BoundInductive, PTL DEF BSpec

=============================================================================
