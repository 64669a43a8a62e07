-------------------------- MODULE LockFreeListProof --------------------------
(***************************************************************************)
(* The order, the marks, the counts and the refused inserts of             *)
(* LockFreeLinkedList, for every number of threads, calls and elements.    *)
(***************************************************************************)
EXTENDS LockFreeListResults, TLAPS, FiniteSetTheorems

Made(o) == o \in Op /\ call[o] # NoCall

\* A call is made when its thread has begun it; only a call that was made has
\* published a node; the head always has a packet.
CallInv ==
    /\ \A t \in Thread, k \in 1 .. MaxOps : call[<<t, k>>] # NoCall => k <= calls[t]
    /\ \A o \in Op : Published(o) => Made(o)
    /\ next[Head] # NoPacket

InSearch == {"scan", "skip", "advance", "unlink", "check", "insertCas", "mark", "markCas",
             "successor", "unlinkRight"}

InDelete == {"mark", "markCas", "successor", "unlinkRight"}

\* What a thread knows of its locals at each point.
LocalInv(t) ==
    /\ pc[t] # "idle" => Made(Current(t))
    /\ prev[t] \in Op => Published(prev[t])
    /\ cur[t] \in Op => Published(cur[t])
    /\ pc[t] \in InSearch /\ prev[t] # Head => Value(prev[t]) < Key(t)
    /\ pc[t] \in {"scan", "skip", "advance", "check"} \cup InDelete => cur[t] \in Op
    /\ pc[t] = "advance" => Value(cur[t]) < Key(t)
    /\ pc[t] \in {"unlink", "check", "insertCas"} \cup InDelete /\ cur[t] # Tail =>
         Key(t) <= Value(cur[t])
    /\ pc[t] \in {"check", "insertCas"} => prevNext[t].node = cur[t]
    /\ pc[t] = "insertCas" => Kind(t) = "insert" /\ (cur[t] # Tail => Value(cur[t]) # Key(t))
    /\ pc[t] \in {"markCas", "unlinkRight"} /\ rightNext[t].node # Tail =>
         /\ rightNext[t].node \in Op
         /\ Published(rightNext[t].node)
         /\ Value(cur[t]) < Value(rightNext[t].node)
    /\ pc[t] \notin {"idle", "return"} /\ Kind(t) = "insert" => ~Published(Current(t))

IInv == TypeOK /\ CallInv /\ Ascending /\ \A t \in Thread : LocalInv(t)

-----------------------------------------------------------------------------

\* The constants, without the records and products of the assumption.
LEMMA Constants ==
    /\ MaxOps \in Nat /\ Size \in Nat /\ Keys \subseteq Int
    /\ Head \notin Op /\ Tail \notin Op /\ Head # Tail
    /\ NoPacket \notin NodePacket
    /\ NoCall \notin [kind : {"insert", "delete"}, key : Keys]
    /\ Maker \notin Thread
  BY ListAssumption DEF ListAssumption

\* The calls of the threads and the earlier ones are told apart by the thread.
LEMMA OpFacts ==
    /\ \A t \in Thread, k \in 1 .. MaxOps : <<t, k>> \in Op /\ <<t, k>> \notin Earlier
    /\ \A o \in Op \ Earlier : o[1] \in Thread /\ o[2] \in 1 .. MaxOps /\ o = <<o[1], o[2]>>
  BY Constants DEF Op, Earlier

\* A new packet is a packet.
LEMMA PacketType ==
    ASSUME NEW n \in Node, NEW d \in BOOLEAN, NEW old \in NodePacket
    PROVE  Packet(n, d, old) \in NodePacket /\ Packet(n, d, old).node = n
           /\ Packet(n, d, old).deleting = d
  BY DEF Packet, NodePacket

\* The type of the state, spelt out for one thread inside a call.
LEMMA ThreadTypes ==
    ASSUME IInv, NEW t \in Thread
    PROVE  /\ calls[t] \in 0 .. MaxOps
           /\ pc[t] # "idle" => Current(t) \in Op /\ Kind(t) \in {"insert", "delete"} /\ Key(t) \in Int
           /\ \A o \in Op : Published(o) => Value(o) \in Int /\ next[o] \in NodePacket
           /\ prevNext[t] \in NodePacket /\ rightNext[t] \in NodePacket
           /\ next[Head] \in NodePacket
           /\ prev[t] \in Op \cup {Head} /\ cur[t] \in Op \cup {Tail}
  <1>1. pc[t] # "idle" => Made(Current(t))
    BY DEF IInv, LocalInv
  <1>2. \A o \in Op : Made(o) =>
          call[o] \in [kind : {"insert", "delete"}, key : Keys]
          /\ call[o].kind \in {"insert", "delete"} /\ call[o].key \in Int
    BY Constants DEF IInv, TypeOK, Made
  <1>3. \A o \in Op : Published(o) => Made(o) /\ next[o] \in NodePacket
    BY DEF IInv, CallInv, TypeOK, Published
  <1>4. QED
    BY <1>1, <1>2, <1>3 DEF IInv, TypeOK, CallInv, Node, Made, Kind, Key, Value

\* Following a packet that some published node has holds: the node behind it is
\* published, and behind the node that has the packet.
LEMMA Follow ==
    ASSUME IInv, NEW n \in Op \cup {Head}, Published(n)
    PROVE  /\ next[n] \in NodePacket
           /\ next[n].node \in Op \cup {Tail}
           /\ next[n].node \in Op => Published(next[n].node)
           /\ next[n].node \in Op /\ n # Head => Value(n) < Value(next[n].node)
  BY Constants DEF IInv, Ascending, TypeOK, Published

-----------------------------------------------------------------------------
(* Where search leaves to.                                                 *)

FoundAt(t, l, right) ==
    \/ l = "return"
    \/ l = "insertCas" /\ Kind(t) = "insert" /\ (right # Tail => Value(right) # Key(t))
    \/ l = "mark" /\ Kind(t) = "delete" /\ right # Tail

LeftAt(t, l, packet, right) ==
    \/ l = "unlink"
    \/ l = "check" /\ right # Tail /\ packet.node = right
    \/ FoundAt(t, l, right) /\ right = Tail /\ packet.node = right

VisitAt(t, l, packet, n) ==
    \/ l = "scan" /\ n # Tail
    \/ n = Tail /\ LeftAt(t, l, packet, n)

\* result is left as it is, or the call is decided.
ResultKept(t) ==
    \/ result' = result
    \/ result' = [result EXCEPT ![Current(t)] = FALSE]

\* The exits of Found.
LEMMA FoundExit ==
    ASSUME IInv, NEW t \in Thread, pc[t] # "idle", NEW right, Found(t, right)
    PROVE  ResultKept(t) /\ \E l \in PcLabels : pc' = [pc EXCEPT ![t] = l] /\ FoundAt(t, l, right)
  <1> DEFINE hit == right # Tail /\ Value(right) = Key(t)
  <1>1. Kind(t) \in {"insert", "delete"}
    BY ThreadTypes
  <1>2. CASE cleanup[t] /\ Goto(t, "return") /\ UNCHANGED result
    BY <1>2 DEF Goto, FoundAt, PcLabels, ResultKept
  <1>3. CASE hit = (Kind(t) = "insert") /\ Decide(t, FALSE) /\ Goto(t, "return")
    BY <1>3 DEF Goto, FoundAt, PcLabels, ResultKept, Decide
  <1>4. CASE /\ hit # (Kind(t) = "insert")
             /\ Goto(t, IF Kind(t) = "insert" THEN "insertCas" ELSE "mark")
             /\ UNCHANGED result
    <2>1. CASE Kind(t) = "insert"
      BY <1>4, <2>1 DEF Goto, FoundAt, PcLabels, ResultKept
    <2>2. CASE Kind(t) = "delete"
      BY <1>4, <2>2 DEF Goto, FoundAt, PcLabels, ResultKept
    <2>3. QED
      BY <1>1, <2>1, <2>2
  <1>5. QED
    BY <1>2, <1>3, <1>4 DEF Found

\* The exits of LeaveLoop.
LEMMA LeaveExit ==
    ASSUME IInv, NEW t \in Thread, pc[t] # "idle", NEW packet, NEW right,
           LeaveLoop(t, packet, right)
    PROVE  ResultKept(t)
           /\ \E l \in PcLabels : pc' = [pc EXCEPT ![t] = l] /\ LeftAt(t, l, packet, right)
  <1>1. CASE Goto(t, "unlink") /\ UNCHANGED result
    BY <1>1 DEF Goto, LeftAt, PcLabels, ResultKept
  <1>2. CASE packet.node = right /\ right # Tail /\ Goto(t, "check") /\ UNCHANGED result
    BY <1>2 DEF Goto, LeftAt, PcLabels, ResultKept
  <1>3. CASE packet.node = right /\ right = Tail /\ Found(t, right)
    BY <1>3, FoundExit DEF LeftAt
  <1>4. QED
    BY <1>1, <1>2, <1>3 DEF LeaveLoop

\* The exits of Visit.
LEMMA VisitExit ==
    ASSUME IInv, NEW t \in Thread, pc[t] # "idle", NEW packet, NEW n, Visit(t, packet, n)
    PROVE  ResultKept(t)
           /\ \E l \in PcLabels : pc' = [pc EXCEPT ![t] = l] /\ VisitAt(t, l, packet, n)
  <1>1. CASE n = Tail
    BY <1>1, LeaveExit DEF Visit, VisitAt
  <1>2. CASE n # Tail
    BY <1>2 DEF Visit, VisitAt, Goto, ResultKept, PcLabels
  <1>3. QED
    BY <1>1, <1>2

-----------------------------------------------------------------------------
(* The steps that write a "next" field.                                    *)

\* Field n of a published node goes to m, which is behind n; a mark stays.
Redirect(n, m, d) ==
    /\ n \in Op \cup {Head} /\ Published(n)
    /\ m \in Op \cup {Tail}
    /\ d \in BOOLEAN
    /\ next[n].deleting => d
    /\ m \in Op /\ n # Head => Value(n) < Value(m)

\* The field of a published node is written and no node is published.
Relink(n, m, d) ==
    /\ Redirect(n, m, d)
    /\ m \in Op => Published(m)
    /\ next' = [next EXCEPT ![n] = Packet(m, d, next[n])]

\* m is published behind n and before the node n pointed to.
Publish(n, m, d) ==
    /\ Redirect(n, m, d)
    /\ m \in Op /\ ~Published(m)
    /\ next[n].node \in Op =>
         Published(next[n].node) /\ Value(m) < Value(next[n].node)
    /\ next[n].node \in Op \cup {Tail}
    /\ next' = [next EXCEPT ![m] = [node |-> next[n].node, deleting |-> FALSE, stamp |-> 0],
                            ![n] = Packet(m, d, next[n])]

\* Every step that writes does one of the two, and only insert publishes.
LEMMA Writes ==
    ASSUME IInv, NEW t \in Thread, Step(t), next' # next
    PROVE  \E n \in Op \cup {Head}, m \in Op \cup {Tail}, d \in BOOLEAN :
              \/ Relink(n, m, d)
              \/ Publish(n, m, d) /\ m = Current(t) /\ call[m] # NoCall /\ Kind(t) = "insert"
  <1>1. /\ TypeOK /\ LocalInv(t) /\ Published(Head)
        /\ prev[t] \in Op \cup {Head} /\ cur[t] \in Op \cup {Tail}
        /\ prevNext[t] \in NodePacket /\ rightNext[t] \in NodePacket
    BY ThreadTypes DEF IInv, CallInv, Published
  <1>2. Published(prev[t]) /\ (cur[t] \in Op => Published(cur[t]))
    BY <1>1 DEF LocalInv
  <1>3. prevNext[t].deleting \in BOOLEAN /\ rightNext[t].deleting \in BOOLEAN
    BY <1>1 DEF NodePacket
  <1>a. pc[t] # "idle" => Current(t) \in Op /\ Key(t) \in Int /\ call[Current(t)] # NoCall
    BY <1>1, ThreadTypes DEF LocalInv, Made
  <1>b. \A o \in Op : Published(o) => Value(o) \in Int
    BY ThreadTypes
  <1>4. CASE Unlink(t)
    <2>1. /\ next[prev[t]] = prevNext[t] /\ pc[t] = "unlink"
          /\ next' = [next EXCEPT ![prev[t]] = Packet(cur[t], prevNext[t].deleting, prevNext[t])]
      BY <1>1, <1>4 DEF Unlink
    <2>2. cur[t] \in Op /\ prev[t] # Head => Value(prev[t]) < Value(cur[t])
      BY <1>1, <1>2, <1>a, <1>b, <2>1, Constants DEF LocalInv, InSearch
    <2>3. Relink(prev[t], cur[t], prevNext[t].deleting)
      BY <1>1, <1>2, <1>3, <2>1, <2>2 DEF Relink, Redirect
    <2>4. QED
      BY <1>1, <1>3, <2>3
  <1>5. CASE InsertCas(t)
    <2>1. /\ next[prev[t]] = prevNext[t] /\ pc[t] = "insertCas"
          /\ next' = [next EXCEPT
               ![Current(t)] = [node |-> prevNext[t].node, deleting |-> FALSE, stamp |-> 0],
               ![prev[t]] = Packet(Current(t), prevNext[t].deleting, prevNext[t])]
      BY <1>5 DEF InsertCas
    <2>2. Current(t) \in Op /\ ~Published(Current(t)) /\ Kind(t) = "insert"
          /\ prevNext[t].node = cur[t]
      BY <1>1, <1>a, <2>1 DEF LocalInv
    <2>3. prev[t] # Head => Value(prev[t]) < Value(Current(t))
      BY <1>1, <2>1 DEF LocalInv, InSearch, Key, Value
    <2>4. cur[t] \in Op => Value(Current(t)) < Value(cur[t])
      <3>1. cur[t] \in Op => Key(t) <= Value(cur[t]) /\ Value(cur[t]) # Key(t) /\ Key(t) \in Int
                             /\ Value(cur[t]) \in Int
        BY <1>1, <1>2, <1>a, <1>b, <2>1, Constants DEF LocalInv
      <3>2. Value(Current(t)) = Key(t)
        BY DEF Key, Value
      <3>3. QED
        BY <3>1, <3>2
    <2>5. Publish(prev[t], Current(t), prevNext[t].deleting)
      BY <1>1, <1>2, <1>3, <2>1, <2>2, <2>3, <2>4 DEF Publish, Redirect
    <2>6. QED
      BY <1>1, <1>3, <1>a, <2>1, <2>2, <2>5
  <1>6. CASE MarkCas(t)
    <2>1. /\ next[cur[t]] = rightNext[t] /\ pc[t] = "markCas"
          /\ next' = [next EXCEPT ![cur[t]] = Packet(rightNext[t].node, TRUE, rightNext[t])]
      BY <1>6 DEF MarkCas
    <2>2. cur[t] \in Op /\ Published(cur[t])
      BY <1>1, <1>2, <2>1 DEF LocalInv, InDelete
    <2>3. /\ rightNext[t].node \in Op \cup {Tail}
          /\ rightNext[t].node \in Op =>
               Published(rightNext[t].node) /\ Value(cur[t]) < Value(rightNext[t].node)
      BY <2>1, <2>2, Follow, Constants
    <2>4. Relink(cur[t], rightNext[t].node, TRUE)
      BY <2>1, <2>2, <2>3 DEF Relink, Redirect
    <2>5. QED
      BY <2>2, <2>3, <2>4
  <1>7. CASE UnlinkRight(t)
    <2>1. /\ next[prev[t]] = prevNext[t] /\ pc[t] = "unlinkRight"
          /\ next' = [next EXCEPT
               ![prev[t]] = Packet(rightNext[t].node, prevNext[t].deleting, prevNext[t])]
      BY <1>7 DEF UnlinkRight
    <2>2. cur[t] \in Op /\ Published(cur[t]) /\ Key(t) <= Value(cur[t])
      BY <1>1, <1>2, <2>1, Constants DEF LocalInv, InDelete
    <2>3. rightNext[t].node # Tail =>
            /\ rightNext[t].node \in Op /\ Published(rightNext[t].node)
            /\ Value(cur[t]) < Value(rightNext[t].node)
      BY <1>1, <2>1 DEF LocalInv
    <2>4. prev[t] # Head => prev[t] \in Op /\ Value(prev[t]) < Key(t)
      BY <1>1, <2>1 DEF LocalInv, InSearch
    <2>5. rightNext[t].node \in Op /\ prev[t] # Head => Value(prev[t]) < Value(rightNext[t].node)
      <3> SUFFICES ASSUME rightNext[t].node \in Op, prev[t] # Head
                   PROVE  Value(prev[t]) < Value(rightNext[t].node)
        OBVIOUS
      <3>1. rightNext[t].node # Tail
        BY Constants
      <3>2. /\ Value(prev[t]) < Key(t) /\ Key(t) <= Value(cur[t])
            /\ Value(cur[t]) < Value(rightNext[t].node)
        BY <2>2, <2>3, <2>4, <3>1
      <3>3. /\ Value(prev[t]) \in Int /\ Key(t) \in Int /\ Value(cur[t]) \in Int
            /\ Value(rightNext[t].node) \in Int
        BY <1>2, <1>a, <1>b, <2>1, <2>2, <2>3, <2>4, <3>1
      <3>4. QED
        BY <3>2, <3>3
    <2>6. Relink(prev[t], rightNext[t].node, prevNext[t].deleting)
      <3>1. Tail \notin Op
        BY Constants
      <3>2. QED
        BY <1>1, <1>2, <1>3, <2>1, <2>3, <2>5, <3>1 DEF Relink, Redirect
    <2>7. QED
      BY <1>1, <1>3, <2>3, <2>6
  <1>8. CASE ~(Unlink(t) \/ InsertCas(t) \/ MarkCas(t) \/ UnlinkRight(t))
    BY <1>8 DEF Step, Start, Scan, Skip, Advance, Check, Mark, Successor, Return
  <1>9. QED
    BY <1>4, <1>5, <1>6, <1>7, <1>8

\* What a write keeps: the types, the order, the published nodes and the marks.
LEMMA WriteKeeps ==
    ASSUME IInv, NEW n \in Op \cup {Head}, NEW m \in Op \cup {Tail}, NEW d \in BOOLEAN,
           Relink(n, m, d) \/ Publish(n, m, d), UNCHANGED call
    PROVE  /\ next' \in [Op \cup {Head} -> NodePacket \cup {NoPacket}]
           /\ Ascending'
           /\ next'[Head] # NoPacket
           /\ \A o \in Op : Published(o)' <=> Published(o) \/ (Publish(n, m, d) /\ o = m)
           /\ \A o \in Op : Published(o) /\ next[o].deleting => next'[o].deleting
  <1>1. /\ next \in [Op \cup {Head} -> NodePacket \cup {NoPacket}]
        /\ \A o \in Op \cup {Head} : Published(o) => next[o] \in NodePacket
        /\ Published(Head) /\ Published(n) /\ next[n] \in NodePacket
    BY DEF IInv, TypeOK, CallInv, Published, Relink, Publish, Redirect
  <1>2. m \in Node /\ Node = Op \cup {Head, Tail}
    BY DEF Node
  <1> DEFINE p == Packet(m, d, next[n])
  <1>3. p \in NodePacket /\ p.node = m /\ p.deleting = d /\ p # NoPacket
    BY <1>1, <1>2, PacketType, Constants
  <1>4. \A o \in Op : Value(o)' = Value(o)
    BY DEF Value
  <1>5. CASE Relink(n, m, d)
    <2>1. \A o \in Op \cup {Head} : next'[o] = IF o = n THEN p ELSE next[o]
      BY <1>1, <1>5 DEF Relink
    <2>2. next' \in [Op \cup {Head} -> NodePacket \cup {NoPacket}]
      BY <1>1, <1>3, <1>5 DEF Relink
    <2>3. \A o \in Op \cup {Head} : Published(o)' <=> Published(o)
      BY <1>1, <1>3, <2>1 DEF Published
    <2>4. Ascending'
      BY <1>3, <1>4, <1>5, <2>1, <2>3 DEF Ascending, Relink, Redirect, IInv
    <2>5. ~Publish(n, m, d)
      BY <1>5 DEF Relink, Publish
    <2>6. QED
      BY <1>1, <1>3, <1>5, <2>1, <2>2, <2>3, <2>4, <2>5 DEF Published, Relink, Redirect
  <1>6. CASE Publish(n, m, d)
    <2> DEFINE r == [node |-> next[n].node, deleting |-> FALSE, stamp |-> 0]
    <2>1. r \in NodePacket /\ r.node = next[n].node /\ r # NoPacket /\ ~r.deleting
      <3>1. next[n].node \in Node
        BY <1>2, <1>6 DEF Publish
      <3>2. r \in NodePacket
        BY <3>1 DEF NodePacket
      <3>3. QED
        BY <3>2, Constants
    <2>2. m \in Op /\ m # n /\ m # Head
      BY <1>1, <1>6, Constants DEF Publish
    <2>3. \A o \in Op \cup {Head} : next'[o] = IF o = n THEN p ELSE IF o = m THEN r ELSE next[o]
      BY <1>1, <1>6, <2>2 DEF Publish
    <2>4. next' \in [Op \cup {Head} -> NodePacket \cup {NoPacket}]
      BY <1>1, <1>3, <1>6, <2>1 DEF Publish
    <2>5. \A o \in Op \cup {Head} : Published(o)' <=> Published(o) \/ o = m
      BY <1>1, <1>3, <2>1, <2>2, <2>3 DEF Published
    <2>6. Ascending'
      <3> SUFFICES ASSUME NEW o \in Op \cup {Head}, Published(o)', next'[o].node # Tail
                   PROVE  /\ next'[o].node \in Op /\ next'[next'[o].node] # NoPacket
                          /\ o # Head => Value(o) < Value(next'[o].node)
        BY <1>4 DEF Ascending, Published
      <3>0. \A q \in Op : Published(q) => next'[q] # NoPacket
        BY <2>5 DEF Published
      <3>1. CASE o = n
        BY ZenonT(60), <1>3, <1>6, <2>1, <2>2, <2>3, <3>1 DEF Publish, Redirect
      <3>2. CASE o = m
        BY <1>6, <2>1, <2>2, <2>3, <3>0, <3>2 DEF Publish
      <3>3. CASE o # n /\ o # m
        <4>1. next'[o] = next[o] /\ Published(o)
          BY <2>3, <3>3 DEF Published
        <4>2. QED
          BY <3>0, <4>1 DEF Ascending, IInv
      <3>4. QED
        BY <3>1, <3>2, <3>3
    <2>7. QED
      BY <1>1, <1>3, <1>6, <2>2, <2>3, <2>4, <2>5, <2>6 DEF Published, Publish, Redirect
  <1>7. QED
    BY <1>5, <1>6

-----------------------------------------------------------------------------
(* The steps and the locals.                                               *)

\* The step of a thread leaves the calls and locals of the others alone, and
\* what was published or made stays so.
LEMMA Frame ==
    ASSUME IInv, NEW t \in Thread, Step(t)
    PROVE  /\ UNCHANGED <<call, calls>>
           /\ \A s \in Thread : s # t =>
                /\ pc'[s] = pc[s] /\ prev'[s] = prev[s] /\ prevNext'[s] = prevNext[s]
                /\ cur'[s] = cur[s] /\ rightNext'[s] = rightNext[s]
           /\ \A o \in Op : Published(o) => Published(o)'
           /\ \A o \in Op : Published(o)' /\ ~Published(o) =>
                 o = Current(t) /\ Kind(t) = "insert" /\ pc[t] = "insertCas"
           /\ Ascending'
           /\ next' \in [Op \cup {Head} -> NodePacket \cup {NoPacket}]
           /\ next'[Head] # NoPacket
           /\ \A o \in Op : Published(o) /\ next[o].deleting => next'[o].deleting
  <1>1. UNCHANGED <<call, calls>>
    BY DEF Step, Start, Scan, Skip, Advance, Unlink, Check, InsertCas, Mark, MarkCas, Successor,
       UnlinkRight, Return, history
  <1>2. TypeOK /\ pc[t] # "idle"
    BY DEF IInv, Step, Start, Scan, Skip, Advance, Unlink, Check, InsertCas, Mark, MarkCas,
       Successor, UnlinkRight, Return
  <1>3. \A s \in Thread : s # t =>
          /\ prev'[s] = prev[s] /\ prevNext'[s] = prevNext[s]
          /\ cur'[s] = cur[s] /\ rightNext'[s] = rightNext[s]
    BY <1>2 DEF TypeOK, Step, Start, Scan, Skip, Advance, Unlink, Check, InsertCas, Mark, MarkCas,
       Successor, UnlinkRight, Return, locals
  <1>4. \E l \in PcLabels : pc' = [pc EXCEPT ![t] = l]
    <2>1. CASE Start(t) \/ Skip(t) \/ Advance(t)
      BY <1>2, <2>1, VisitExit DEF Start, Skip, Advance
    <2>2. CASE Scan(t) \/ Unlink(t) \/ Check(t)
      BY <1>2, <2>2, LeaveExit, FoundExit DEF Scan, Unlink, Check, Goto, PcLabels
    <2>3. CASE InsertCas(t) \/ Mark(t) \/ MarkCas(t) \/ Successor(t) \/ UnlinkRight(t) \/ Return(t)
      BY <2>3 DEF InsertCas, Mark, MarkCas, Successor, UnlinkRight, Return, Goto, PcLabels
    <2>4. QED
      BY <2>1, <2>2, <2>3 DEF Step
  <1>5. \A s \in Thread : s # t => pc'[s] = pc[s]
    BY <1>2, <1>4 DEF TypeOK
  <1>6. CASE next' = next
    BY <1>1, <1>3, <1>5, <1>6 DEF IInv, TypeOK, CallInv, Ascending, Published, Value
  <1>7. CASE next' # next
    <2>1. PICK n \in Op \cup {Head}, m \in Op \cup {Tail}, d \in BOOLEAN :
              \/ Relink(n, m, d)
              \/ Publish(n, m, d) /\ m = Current(t) /\ call[m] # NoCall /\ Kind(t) = "insert"
      BY <1>7, Writes
    <2>2. /\ next' \in [Op \cup {Head} -> NodePacket \cup {NoPacket}]
          /\ Ascending' /\ next'[Head] # NoPacket
          /\ \A o \in Op : Published(o)' <=> Published(o) \/ (Publish(n, m, d) /\ o = m)
          /\ \A o \in Op : Published(o) /\ next[o].deleting => next'[o].deleting
      BY <1>1, <2>1, WriteKeeps
    <2>3. ~Relink(n, m, d) \/ ~Publish(n, m, d)
      BY DEF Relink, Publish
    <2>4. Publish(n, m, d) => pc[t] = "insertCas"
      <3>1. CASE Unlink(t) \/ MarkCas(t) \/ UnlinkRight(t)
        <4>1. \A o \in Op : Published(o)' => Published(o)
          <5>1. prev[t] \in Op => Published(prev[t])
            BY DEF IInv, LocalInv
          <5>2. pc[t] = "markCas" => cur[t] \in Op /\ Published(cur[t])
            BY DEF IInv, LocalInv, InDelete
          <5>3. QED
            BY <1>2, <3>1, <5>1, <5>2 DEF Unlink, MarkCas, UnlinkRight, Published, TypeOK
        <4>2. QED
          BY <2>2, <4>1 DEF Publish
      <3>2. QED
        BY <1>7, <3>1 DEF Step, Start, Scan, Skip, Advance, Check, InsertCas, Mark, Successor, Return
    <2>5. QED
      BY <1>1, <1>3, <1>5, <2>1, <2>2, <2>3, <2>4
  <1>8. QED
    BY <1>6, <1>7

\* What the other threads know survives the step of one thread.
LEMMA OtherStep ==
    ASSUME IInv, NEW t \in Thread, Step(t), NEW s \in Thread, s # t
    PROVE  LocalInv(s)'
  <1>1. LocalInv(s) /\ UNCHANGED <<call, calls>>
        /\ UNCHANGED <<pc[s], prev[s], prevNext[s], cur[s], rightNext[s]>>
        /\ \A o \in Op : Published(o) => Published(o)'
    BY Frame DEF IInv
  <1>2. Current(s)' = Current(s) /\ Key(s)' = Key(s) /\ Kind(s)' = Kind(s)
        /\ \A o \in Op : Value(o)' = Value(o)
    BY <1>1 DEF Current, Key, Kind, Value
  <1>3. pc[s] # "idle" => Current(s) \in Op
    BY <1>1 DEF LocalInv, Made
  <1>4. pc[s] # "idle" /\ ~Published(Current(s)) => ~Published(Current(s))'
    <2>1. Current(s) # Current(t)
      BY DEF Current
    <2>2. QED
      BY <1>2, <1>3, <2>1, Frame
  <1>5. rightNext[s].node \in Op /\ Published(rightNext[s].node) =>
          Published(rightNext'[s].node) /\ next'[rightNext'[s].node] # NoPacket
    BY <1>1 DEF Published
  <1>6. cur[s] \in Op /\ rightNext[s].node \in Op =>
          (Value(cur[s]) < Value(rightNext[s].node) => Value(cur[s])' < Value(rightNext[s].node)')
    BY <1>1 DEF Value
  <1>7. cur[s] \in Op => Value(cur[s])' = Value(cur[s])
    BY <1>1, <1>2
  <1>8. prev[s] \in Op => Value(prev[s])' = Value(prev[s])
    BY <1>1 DEF Value
  <1>9. QED
    BY <1>1, <1>2, <1>3, <1>4, <1>5, <1>6, <1>7, <1>8 DEF LocalInv, Made, Published, Value

\* What a thread knows after its own step.
LEMMA OwnStep ==
    ASSUME IInv, NEW t \in Thread, Step(t)
    PROVE  LocalInv(t)'
  <1>1. TypeOK /\ LocalInv(t) /\ UNCHANGED <<call, calls>>
    BY Frame DEF IInv
  <1>2. pc[t] # "idle"
    BY DEF Step, Start, Scan, Skip, Advance, Unlink, Check, InsertCas, Mark, MarkCas,
       Successor, UnlinkRight, Return
  <1>3. Current(t)' = Current(t) /\ Key(t)' = Key(t) /\ Kind(t)' = Kind(t) /\ Made(Current(t))'
    BY <1>1, <1>2 DEF Current, Key, Kind, LocalInv, Made
  <1>4. Current(t) \in Op /\ Key(t) \in Int /\ Kind(t) \in {"insert", "delete"}
    BY <1>2, ThreadTypes
  <1>5. \A o \in Op : Published(o) => Published(o)' /\ Value(o) \in Int
    BY Frame, ThreadTypes
  <1>6. pc[t] # "return" /\ Kind(t) = "insert" /\ pc[t] # "insertCas" => ~Published(Current(t))'
    BY <1>1, <1>2, <1>3, <1>4, Frame DEF LocalInv
  <1>7. Published(Head) /\ Head \notin Op /\ Tail \notin Op /\ Head # Tail
    BY Constants DEF IInv, CallInv, Published
  <1>8. /\ prev[t] \in Op => Published(prev[t])
        /\ cur[t] \in Op => Published(cur[t])
        /\ prev[t] \in Op \cup {Head} /\ cur[t] \in Op \cup {Tail}
    BY <1>1, ThreadTypes DEF LocalInv
  <1> USE <1>7 DEF InSearch, InDelete
  <1>9. ASSUME NEW p \in Op \cup {Head}, NEW k, NEW c \in Op \cup {Tail}, NEW l \in PcLabels,
               p \in Op => Published(p), c \in Op => Published(c),
               p # Head => Value(p) < Key(t),
               VisitAt(t, l, k, c) \/ (LeftAt(t, l, k, c) /\ (c # Tail => Key(t) <= Value(c))),
               prev' = [prev EXCEPT ![t] = p], prevNext' = [prevNext EXCEPT ![t] = k],
               cur' = [cur EXCEPT ![t] = c], pc' = [pc EXCEPT ![t] = l],
               pc[t] # "insertCas", pc[t] # "return"
        PROVE  LocalInv(t)'
    <2>1. prev'[t] = p /\ prevNext'[t] = k /\ cur'[t] = c /\ pc'[t] = l
      BY <1>1, <1>9 DEF TypeOK
    <2>2. (p \in Op => Published(p)') /\ (c \in Op => Published(c)')
      BY <1>5, <1>9
    <2>3. \A o : Value(o)' = Value(o)
      BY <1>1 DEF Value
    <2>4. l \in {"scan", "unlink", "check", "return", "insertCas", "mark"}
      BY <1>9 DEF VisitAt, LeftAt, FoundAt
    <2>5. l \in {"scan", "check", "mark"} => c \in Op
      BY <1>9 DEF VisitAt, LeftAt, FoundAt
    <2>6. l \in {"unlink", "check", "insertCas", "mark"} /\ c # Tail => Key(t) <= Value(c)
      BY <1>9 DEF VisitAt, LeftAt, FoundAt
    <2>7. l \in {"check", "insertCas"} => k.node = c
      BY <1>9 DEF VisitAt, LeftAt, FoundAt
    <2>8. l = "insertCas" => Kind(t) = "insert" /\ c = Tail
      BY <1>9 DEF VisitAt, LeftAt, FoundAt
    <2>9. QED
      BY <1>1, <1>3, <1>6, <1>9, <2>1, <2>2, <2>3, <2>4, <2>5, <2>6, <2>7, <2>8
         DEF LocalInv, Published, Value
  <1>10. CASE Start(t)
    <2>1. PICK l \in PcLabels : pc' = [pc EXCEPT ![t] = l] /\ VisitAt(t, l, next[Head], next[Head].node)
      BY <1>2, <1>10, VisitExit DEF Start
    <2>2. next[Head].node \in Op \cup {Tail} /\ (next[Head].node \in Op => Published(next[Head].node))
      BY Follow
    <2>3. QED
      BY <1>9, <1>10, <2>1, <2>2 DEF Start
  <1>11. CASE Skip(t)
    <2>1. PICK l \in PcLabels : /\ pc' = [pc EXCEPT ![t] = l]
                                /\ VisitAt(t, l, prevNext[t], next[cur[t]].node)
      BY <1>2, <1>11, VisitExit DEF Skip
    <2>2. pc[t] = "skip" /\ cur[t] \in Op /\ Published(cur[t])
      BY <1>1, <1>8, <1>11 DEF Skip, LocalInv
    <2>3. /\ next[cur[t]].node \in Op \cup {Tail}
          /\ next[cur[t]].node \in Op => Published(next[cur[t]].node)
      BY <2>2, Follow
    <2>4. prev' = [prev EXCEPT ![t] = prev[t]] /\ prevNext' = [prevNext EXCEPT ![t] = prevNext[t]]
      BY <1>1, <1>11 DEF Skip, TypeOK
    <2>5. prev[t] # Head => Value(prev[t]) < Key(t)
      BY <1>1, <2>2 DEF LocalInv
    <2>6. cur' = [cur EXCEPT ![t] = next[cur[t]].node]
      BY <1>11 DEF Skip
    <2>7. QED
      BY <1>8, <1>9, <2>1, <2>2, <2>3, <2>4, <2>5, <2>6
  <1>12. CASE Advance(t)
    <2> DEFINE p == next[cur[t]]
    <2>1. PICK l \in PcLabels : pc' = [pc EXCEPT ![t] = l] /\ VisitAt(t, l, p, p.node)
      BY <1>2, <1>12, VisitExit DEF Advance
    <2>2. pc[t] = "advance" /\ cur[t] \in Op /\ Published(cur[t]) /\ Value(cur[t]) < Key(t)
      BY <1>1, <1>8, <1>12 DEF Advance, LocalInv
    <2>3. p.node \in Op \cup {Tail} /\ (p.node \in Op => Published(p.node))
      BY <2>2, Follow
    <2>4. /\ prev' = [prev EXCEPT ![t] = cur[t]] /\ prevNext' = [prevNext EXCEPT ![t] = p]
          /\ cur' = [cur EXCEPT ![t] = p.node]
      BY <1>12 DEF Advance
    <2>5. QED
      BY <1>9, <2>1, <2>2, <2>3, <2>4
  <1>13. CASE Scan(t)
    <2>1. pc[t] = "scan" /\ cur[t] \in Op /\ Published(cur[t])
          /\ (prev[t] # Head => Value(prev[t]) < Key(t))
      BY <1>1, <1>8, <1>13 DEF Scan, LocalInv
    <2>2. UNCHANGED <<prev, prevNext, cur, rightNext, next>>
      BY <1>13 DEF Scan, locals
    <2>3. CASE LeaveLoop(t, prevNext[t], cur[t]) /\ Key(t) <= Value(cur[t])
      <3>1. PICK l \in PcLabels : pc' = [pc EXCEPT ![t] = l] /\ LeftAt(t, l, prevNext[t], cur[t])
        BY <1>2, <2>3, LeaveExit
      <3>2. /\ prev' = [prev EXCEPT ![t] = prev[t]] /\ cur' = [cur EXCEPT ![t] = cur[t]]
            /\ prevNext' = [prevNext EXCEPT ![t] = prevNext[t]]
        BY <1>1, <2>2 DEF TypeOK
      <3>3. QED
        BY <1>8, <1>9, <2>1, <2>3, <3>1, <3>2
    <2>4. CASE Goto(t, "skip") \/ (Goto(t, "advance") /\ ~(Key(t) <= Value(cur[t])))
      <3>1. pc'[t] \in {"skip", "advance"} /\ (pc'[t] = "advance" => Value(cur[t]) < Key(t))
        BY <1>1, <1>4, <1>5, <2>1, <2>4 DEF Goto, TypeOK
      <3>2. QED
        BY <1>1, <1>3, <1>5, <1>6, <1>8, <2>1, <2>2, <3>1 DEF LocalInv, Published, Value
    <2>5. QED
      BY <1>13, <2>3, <2>4 DEF Scan
  <1>14. CASE Unlink(t)
    <2>1. pc[t] = "unlink" /\ (prev[t] # Head => Value(prev[t]) < Key(t))
          /\ (cur[t] # Tail => Key(t) <= Value(cur[t])) /\ UNCHANGED <<prev, cur, rightNext>>
      BY <1>1, <1>14 DEF Unlink, LocalInv
    <2>2. CASE next[prev[t]] = prevNext[t]
      <3> DEFINE p == Packet(cur[t], prevNext[t].deleting, prevNext[t])
      <3>1. PICK l \in PcLabels : pc' = [pc EXCEPT ![t] = l] /\ LeftAt(t, l, p, cur[t])
        BY <1>2, <1>14, <2>2, LeaveExit DEF Unlink
      <3>2. /\ prev' = [prev EXCEPT ![t] = prev[t]] /\ cur' = [cur EXCEPT ![t] = cur[t]]
            /\ prevNext' = [prevNext EXCEPT ![t] = p]
        BY <1>1, <1>14, <2>1, <2>2 DEF Unlink, TypeOK
      <3>3. QED
        BY <1>8, <1>9, <2>1, <3>1, <3>2
    <2>3. CASE next[prev[t]] # prevNext[t]
      <3>1. pc'[t] = "start" /\ UNCHANGED <<prev, cur>>
        BY <1>1, <1>14, <2>3 DEF Unlink, Goto, TypeOK
      <3>2. QED
        BY <1>3, <1>5, <1>6, <1>8, <2>1, <3>1 DEF LocalInv, Published
    <2>4. QED
      BY <2>2, <2>3
  <1>15. CASE Check(t)
    <2>1. pc[t] = "check" /\ cur[t] \in Op /\ Key(t) <= Value(cur[t]) /\ prevNext[t].node = cur[t]
          /\ (prev[t] # Head => Value(prev[t]) < Key(t))
      BY <1>1, <1>15 DEF Check, LocalInv
    <2>2. UNCHANGED <<prev, prevNext, cur, rightNext, next>>
      BY <1>15 DEF Check, locals
    <2>3. PICK l \in PcLabels : pc' = [pc EXCEPT ![t] = l] /\ (l = "start" \/ FoundAt(t, l, cur[t]))
      BY <1>2, <1>15, FoundExit DEF Check, Goto, PcLabels
    <2>4. pc'[t] = l
      BY <1>1, <2>3 DEF TypeOK
    <2>5. l \in {"start", "return", "insertCas", "mark"}
          /\ (l = "insertCas" => Kind(t) = "insert" /\ Value(cur[t]) # Key(t))
      BY <2>1, <2>3 DEF FoundAt
    <2>6. QED
      BY <1>1, <1>3, <1>5, <1>6, <1>8, <2>1, <2>2, <2>4, <2>5 DEF LocalInv, Published, Value
  <1>16. CASE InsertCas(t)
    <2>1. UNCHANGED <<prev, prevNext, cur, rightNext>> /\ pc[t] = "insertCas"
      BY <1>16 DEF InsertCas, locals
    <2>2. pc'[t] \in {"return", "start"}
      BY <1>1, <1>16 DEF InsertCas, Goto, TypeOK
    <2>3. pc'[t] = "start" => ~Published(Current(t))'
      <3>1. pc'[t] = "start" => next' = next
        BY <1>1, <1>16 DEF InsertCas, Goto, TypeOK
      <3>2. QED
        BY <1>1, <1>3, <2>1, <3>1 DEF LocalInv, Published
    <2>4. QED
      BY <1>3, <1>5, <1>8, <2>1, <2>2, <2>3 DEF LocalInv, Published
  <1>17. CASE Mark(t) \/ Successor(t)
    <2>1. /\ cur[t] \in Op /\ Published(cur[t]) /\ Key(t) <= Value(cur[t])
          /\ prev[t] # Head => Value(prev[t]) < Key(t)
          /\ pc[t] \in {"mark", "successor"}
      BY <1>1, <1>8, <1>17 DEF Mark, Successor, LocalInv
    <2>2. /\ UNCHANGED <<prev, prevNext, cur, next>> /\ rightNext'[t] = next[cur[t]]
          /\ pc'[t] \in {"start", "markCas", "unlinkRight"}
      BY <1>1, <1>17 DEF Mark, Successor, Goto, TypeOK
    <2>3. next[cur[t]].node # Tail =>
            /\ next[cur[t]].node \in Op /\ Published(next[cur[t]].node)
            /\ Value(cur[t]) < Value(next[cur[t]].node)
      BY <2>1, Follow
    <2>4. QED
      BY <1>1, <1>3, <1>5, <1>6, <1>8, <2>1, <2>2, <2>3 DEF LocalInv, Published, Value
  <1>18. CASE MarkCas(t) \/ UnlinkRight(t)
    <2>1. /\ cur[t] \in Op /\ Published(cur[t]) /\ Key(t) <= Value(cur[t])
          /\ prev[t] # Head => Value(prev[t]) < Key(t)
          /\ pc[t] \in {"markCas", "unlinkRight"}
      BY <1>1, <1>8, <1>18 DEF MarkCas, UnlinkRight, LocalInv
    <2>2. UNCHANGED <<prev, prevNext, cur, rightNext>> /\ pc'[t] \in {"start", "successor", "return"}
      BY <1>1, <1>18 DEF MarkCas, UnlinkRight, Goto, TypeOK, locals
    <2>3. QED
      BY <1>1, <1>3, <1>5, <1>6, <1>8, <2>1, <2>2 DEF LocalInv, Published, Value
  <1>19. CASE Return(t)
    <2>1. UNCHANGED <<prev, prevNext, cur, rightNext>> /\ pc'[t] = "idle"
      BY <1>1, <1>19 DEF Return, Goto, TypeOK, locals
    <2>2. QED
      BY <1>5, <1>8, <2>1 DEF LocalInv, Published
  <1>20. QED
    BY <1>10, <1>11, <1>12, <1>13, <1>14, <1>15, <1>16, <1>17, <1>18, <1>19 DEF Step

\* The types after a step of a call.
LEMMA TypeStep ==
    ASSUME IInv, NEW t \in Thread, Step(t)
    PROVE  TypeOK'
  <1>1. TypeOK /\ LocalInv(t) /\ UNCHANGED <<call, calls>> /\ pc[t] # "idle"
        /\ next' \in [Op \cup {Head} -> NodePacket \cup {NoPacket}]
    BY Frame DEF IInv, Step, Start, Scan, Skip, Advance, Unlink, Check, InsertCas, Mark, MarkCas,
       Successor, UnlinkRight, Return
  <1>2. /\ Current(t) \in Op /\ Head \notin Op /\ Tail \notin Op /\ Head # Tail
        /\ Node = Op \cup {Head, Tail}
    BY <1>1, ThreadTypes, Constants DEF Node
  <1>3. Published(Head) /\ (cur[t] \in Op => Published(cur[t])) /\ cur[t] \in Op \cup {Tail}
        /\ prev[t] \in Op \cup {Head} /\ prevNext[t] \in NodePacket
    BY <1>1, ThreadTypes DEF LocalInv, IInv, CallInv, Published
  <1>4. \A n \in Op \cup {Head} : Published(n) =>
          next[n] \in NodePacket /\ next[n].node \in Node \ {Head}
    BY <1>2, Follow
  <1>5. ResultKept(t) => result' \in [Op -> BOOLEAN \cup {NoCall}]
    BY <1>1, <1>2 DEF TypeOK, ResultKept
  <1>6. ASSUME NEW l \in PcLabels, pc' = [pc EXCEPT ![t] = l]
        PROVE  pc' \in [Thread -> PcLabels]
    BY <1>1, <1>6 DEF TypeOK
  <1>7. CASE Start(t)
    <2>1. ResultKept(t) /\ \E l \in PcLabels : pc' = [pc EXCEPT ![t] = l]
      BY <1>1, <1>7, VisitExit DEF Start
    <2>2. QED
      BY <1>1, <1>2, <1>3, <1>4, <1>5, <1>6, <1>7, <2>1 DEF Start, TypeOK
  <1>8. CASE Skip(t) \/ Advance(t)
    <2>1. ResultKept(t) /\ \E l \in PcLabels : pc' = [pc EXCEPT ![t] = l]
      BY <1>1, <1>8, VisitExit DEF Skip, Advance
    <2>2. cur[t] \in Op /\ Published(cur[t])
      BY <1>1, <1>3, <1>8 DEF Skip, Advance, LocalInv
    <2>3. QED
      BY <1>1, <1>2, <1>4, <1>5, <1>6, <1>8, <2>1, <2>2 DEF Skip, Advance, TypeOK
  <1>9. CASE Scan(t) \/ Check(t)
    <2>1. ResultKept(t) /\ \E l \in PcLabels : pc' = [pc EXCEPT ![t] = l]
      BY <1>1, <1>9, LeaveExit, FoundExit DEF Scan, Check, Goto, PcLabels, ResultKept
    <2>2. QED
      BY <1>1, <1>5, <1>6, <1>9, <2>1 DEF Scan, Check, TypeOK, locals
  <1>10. CASE Unlink(t)
    <2>1. ResultKept(t) /\ \E l \in PcLabels : pc' = [pc EXCEPT ![t] = l]
      BY <1>1, <1>10, LeaveExit DEF Unlink, Goto, PcLabels, ResultKept
    <2>2. Packet(cur[t], prevNext[t].deleting, prevNext[t]) \in NodePacket
      <3>1. prevNext[t].deleting \in BOOLEAN /\ cur[t] \in Node
        BY <1>2, <1>3 DEF NodePacket
      <3>2. QED
        BY <1>3, <3>1, PacketType
    <2>3. QED
      BY <1>1, <1>5, <1>6, <1>10, <2>1, <2>2 DEF Unlink, TypeOK
  <1>11. CASE InsertCas(t) \/ MarkCas(t)
    BY <1>1, <1>2, <1>11 DEF InsertCas, MarkCas, Decide, Goto, TypeOK, PcLabels, locals
  <1>12. CASE Mark(t) \/ Successor(t)
    <2>1. cur[t] \in Op /\ Published(cur[t])
      BY <1>1, <1>3, <1>12 DEF Mark, Successor, LocalInv, InDelete
    <2>2. QED
      BY <1>1, <1>4, <1>12, <2>1 DEF Mark, Successor, Goto, TypeOK, PcLabels, history
  <1>13. CASE UnlinkRight(t) \/ Return(t)
    BY <1>1, <1>13 DEF UnlinkRight, Return, Goto, TypeOK, PcLabels, history, locals
  <1>14. QED
    BY <1>7, <1>8, <1>9, <1>10, <1>11, <1>12, <1>13 DEF Step

\* A new call begins outside the list: nothing it is named by was published.
LEMMA BeginStep ==
    ASSUME IInv, NEW t \in Thread, NEW kind \in {"insert", "delete"}, NEW key \in Keys,
           Begin(t, kind, key)
    PROVE  IInv'
  <1> DEFINE new == <<t, calls[t] + 1>>
  <1>1. /\ TypeOK /\ CallInv /\ Ascending /\ calls[t] \in 0 .. MaxOps /\ pc[t] = "idle"
        /\ calls[t] < MaxOps
    BY ThreadTypes DEF IInv, Begin
  <1>2. calls[t] + 1 \in 1 .. MaxOps /\ new \in Op
    <2>1. calls[t] + 1 \in 1 .. MaxOps
      BY <1>1, Constants
    <2>2. QED
      BY <2>1, OpFacts
  <1>3. call[new] = NoCall
    <2>1. ~(calls[t] + 1 <= calls[t])
      BY <1>1, Constants
    <2>2. QED
      BY <1>1, <1>2, <2>1 DEF CallInv
  <1>4. /\ call' = [call EXCEPT ![new] = [kind |-> kind, key |-> key]]
        /\ calls' = [calls EXCEPT ![t] = calls[t] + 1]
        /\ pc' = [pc EXCEPT ![t] = "start"]
        /\ cleanup' = [cleanup EXCEPT ![t] = FALSE]
        /\ UNCHANGED <<next, result, prev, prevNext, cur, rightNext>>
    BY DEF Begin, Goto
  <1>5. /\ call'[new] = [kind |-> kind, key |-> key] /\ call'[new] # NoCall
        /\ \A o \in Op : o # new => call'[o] = call[o]
        /\ calls'[t] = calls[t] + 1 /\ pc'[t] = "start"
        /\ \A s \in Thread : s # t => calls'[s] = calls[s] /\ pc'[s] = pc[s]
    BY <1>1, <1>2, <1>4, Constants DEF TypeOK
  <1>6. \A o \in Op : Published(o) => Value(o)' = Value(o) /\ o # new
    BY <1>1, <1>3, <1>5 DEF CallInv, Made, Value
  <1>7. \A o \in Op \cup {Head} : Published(o)' <=> Published(o)
    BY <1>4 DEF Published
  <1>8. TypeOK'
    <2>1. calls' \in [Thread -> 0 .. MaxOps]
      <3>1. calls[t] + 1 \in 0 .. MaxOps
        BY <1>2
      <3>2. QED
        BY <1>1, <1>4, <3>1 DEF TypeOK
    <2>2. call' \in [Op -> [kind : {"insert", "delete"}, key : Keys] \cup {NoCall}]
      BY <1>1, <1>4 DEF TypeOK
    <2>3. QED
      BY <1>1, <1>4, <2>1, <2>2 DEF TypeOK, PcLabels
  <1>9. CallInv'
    <2>1. ASSUME NEW s \in Thread, NEW k \in 1 .. MaxOps, call'[<<s, k>>] # NoCall
          PROVE  k <= calls'[s]
      <3>1. CASE s = t
        <4>1. k = calls[t] + 1 \/ k <= calls[t]
          <5>1. k # calls[t] + 1 => <<s, k>> # new
            OBVIOUS
          <5>2. <<s, k>> \in Op
            BY OpFacts
          <5>3. QED
            BY <1>1, <1>5, <2>1, <3>1, <5>1, <5>2 DEF CallInv
        <4>2. QED
          BY <1>1, <1>5, <3>1, <4>1, Constants
      <3>2. CASE s # t
        <4>1. <<s, k>> # new /\ <<s, k>> \in Op
          BY <3>2, OpFacts
        <4>2. QED
          BY <1>1, <1>5, <2>1, <3>2, <4>1 DEF CallInv
      <3>3. QED
        BY <3>1, <3>2
    <2>2. \A o \in Op : Published(o) => Made(o)'
      BY <1>1, <1>5, <1>6 DEF CallInv, Made
    <2>3. QED
      BY <1>1, <1>4, <1>7, <2>1, <2>2 DEF CallInv
  <1>10. Ascending'
    BY <1>1, <1>4, <1>6, <1>7 DEF Ascending
  <1>11. ASSUME NEW s \in Thread
         PROVE  LocalInv(s)'
    <2>1. LocalInv(s) /\ prev[s] \in Op \cup {Head} /\ cur[s] \in Op \cup {Tail}
      BY ThreadTypes DEF IInv
    <2>2. CASE s = t
      <3>1. Current(s)' = new
        BY <1>5, <2>2 DEF Current
      <3>2. new \in Op /\ call'[new] # NoCall /\ next'[new] = NoPacket
        BY <1>1, <1>2, <1>3, <1>4, <1>5 DEF Made, CallInv, Published
      <3>3. Made(Current(t))' /\ ~Published(Current(t))'
        <4>1. Current(t)' = new
          BY <2>2, <3>1
        <4>2. Made(Current(t))' <=> (Current(t)' \in Op /\ call'[Current(t)'] # NoCall)
          BY DEF Made
        <4>3. Published(Current(t))' <=> next'[Current(t)'] # NoPacket
          BY DEF Published
        <4>4. QED
          BY <3>2, <4>1, <4>2, <4>3
      <3>4. pc'[t] = "start" /\ UNCHANGED <<next, prev, cur>>
        BY <1>4, <1>5
      <3>5. QED
        BY <2>1, <2>2, <3>3, <3>4 DEF LocalInv, InSearch, InDelete, Published
    <2>3. CASE s # t
      <3>1. Current(s)' = Current(s) /\ Current(s) # new /\ (pc[s] # "idle" => Made(Current(s)))
        BY <1>5, <2>1, <2>3 DEF Current, LocalInv
      <3>2. pc[s] # "idle" => Key(s)' = Key(s) /\ Kind(s)' = Kind(s) /\ Made(Current(s))'
        BY <1>5, <3>1 DEF Key, Kind, Made
      <3>3. prev[s] \in Op => Value(prev[s])' = Value(prev[s])
        BY <1>4, <1>6, <2>1 DEF LocalInv, Value
      <3>4. cur[s] \in Op => Value(cur[s])' = Value(cur[s])
        BY <1>4, <1>6, <2>1 DEF LocalInv, Value
      <3>5. /\ rightNext[s].node \in Op /\ Published(rightNext[s].node) =>
               Value(rightNext[s].node)' = Value(rightNext[s].node)
        BY <1>4, <1>6 DEF Value
      <3>6. UNCHANGED <<pc[s], prev[s], prevNext[s], cur[s], rightNext[s]>>
        BY <1>4, <1>5, <2>3
      <3>7. QED
        BY <1>4, <1>7, <2>1, <3>1, <3>2, <3>3, <3>4, <3>5, <3>6, Constants
           DEF LocalInv, Published, InSearch, InDelete
    <2>4. QED
      BY <2>2, <2>3
  <1>12. QED
    BY <1>8, <1>9, <1>10, <1>11 DEF IInv

\* Every step keeps the invariant.
LEMMA Inductive == IInv /\ [Next]_vars => IInv'
  <1> SUFFICES ASSUME IInv, [Next]_vars PROVE IInv'
    OBVIOUS
  <1>1. ASSUME NEW t \in Thread, Step(t)
        PROVE  IInv'
    <2>1. CallInv'
      <3>1. UNCHANGED <<call, calls>> /\ next'[Head] # NoPacket
            /\ \A o \in Op : Published(o)' /\ ~Published(o) => o = Current(t) /\ pc[t] # "idle"
        BY <1>1, Frame
      <3>2. pc[t] # "idle" => Made(Current(t))
        BY DEF IInv, LocalInv
      <3>3. QED
        BY <3>1, <3>2 DEF CallInv, IInv, Made
    <2>2. TypeOK' /\ Ascending' /\ \A s \in Thread : LocalInv(s)'
      BY <1>1, TypeStep, Frame, OwnStep, OtherStep
    <2>3. QED
      BY <2>1, <2>2 DEF IInv
  <1>2. CASE UNCHANGED vars
    BY <1>2 DEF vars, IInv, TypeOK, CallInv, Made, Ascending, Published, LocalInv, Value, Key, Kind,
       Current
  <1>3. QED
    BY <1>1, <1>2, BeginStep DEF Next

\* The invariant holds when the behaviour begins, whatever the list then holds.
LEMMA InitInv == Init => IInv
  <1> SUFFICES ASSUME Init PROVE IInv
    OBVIOUS
  <1>1. Size \in Nat /\ Initial \in [1 .. Size -> Keys] /\ Keys \subseteq Int
        /\ \A i \in 1 .. Size - 1 : Initial[i] < Initial[i + 1]
    BY ListAssumption DEF ListAssumption
  <1>2. /\ \A o \in Earlier : o[1] = Maker /\ o[2] \in 1 .. Size /\ o \in Op /\ o # Head
        /\ \A i \in 1 .. Size : <<Maker, i>> \in Earlier
        /\ \A t \in Thread, k \in 1 .. MaxOps : <<t, k>> \notin Earlier /\ <<t, k>> \in Op
        /\ Earlier \subseteq Op
    BY Constants DEF Earlier, Op
  <1>3. \A i \in 1 .. Size + 1 : /\ InitialPacket(i) \in NodePacket
                                 /\ InitialPacket(i).node = IF i <= Size THEN <<Maker, i>> ELSE Tail
                                 /\ InitialPacket(i) # NoPacket
    <2>1. \A i \in 1 .. Size + 1 : InitialPacket(i) \in NodePacket
      BY <1>1, <1>2 DEF InitialPacket, NodePacket, Node
    <2>2. QED
      BY <2>1, Constants DEF InitialPacket
  <1>4. 1 \in 1 .. Size + 1 /\ \A o \in Earlier : o[2] + 1 \in 1 .. Size + 1
    BY <1>1, <1>2
  <1>5. /\ next[Head] = InitialPacket(1)
        /\ \A o \in Earlier : next[o] = InitialPacket(o[2] + 1) /\ Value(o) = Initial[o[2]]
                              /\ call[o] # NoCall
        /\ \A o \in Op \ Earlier : next[o] = NoPacket /\ call[o] = NoCall
    <2>1. Head \notin Op
      BY Constants
    <2>2. \A o \in Earlier : Initial[o[2]] \in Keys
      BY <1>1, <1>2
    <2>3. \A o \in Earlier : [kind |-> "insert", key |-> Initial[o[2]]] # NoCall
      BY <2>2, Constants
    <2>4. QED
      BY <1>2, <2>1, <2>3 DEF Init, Value
  <1>a. next[Head] # NoPacket /\ \A o \in Earlier : next[o] # NoPacket
    <2>1. next[Head] # NoPacket
      BY <1>3, <1>4, <1>5
    <2>2. ASSUME NEW o \in Earlier
          PROVE  next[o] # NoPacket
      <3>1. o[2] + 1 \in 1 .. Size + 1
        BY <1>4
      <3>2. InitialPacket(o[2] + 1) # NoPacket
        BY <1>3, <3>1
      <3>3. next[o] = InitialPacket(o[2] + 1)
        BY <1>5
      <3>4. QED
        BY <3>2, <3>3
    <2>3. QED
      BY <2>1, <2>2
  <1>6. \A o \in Op : Published(o) <=> o \in Earlier
    BY <1>5, <1>a DEF Published
  <1>7. TypeOK
    <2>1. next \in [Op \cup {Head} -> NodePacket \cup {NoPacket}]
      BY <1>3, <1>4, <1>5 DEF Init
    <2>2. call \in [Op -> [kind : {"insert", "delete"}, key : Keys] \cup {NoCall}]
      BY <1>1, <1>2 DEF Init
    <2>3. next[Head] \in NodePacket
      BY <1>3, <1>4, <1>5
    <2>4. Head \in Node \ {Tail} /\ Tail \in Node \ {Head} /\ 0 \in 0 .. MaxOps
      BY Constants DEF Node
    <2>5. QED
      BY <2>1, <2>2, <2>3, <2>4 DEF Init, TypeOK, PcLabels
  <1>8. CallInv
    BY <1>2, <1>3, <1>4, <1>5, <1>6 DEF CallInv, Made
  <1>9. Ascending
    <2>1. Head \notin Op
      BY Constants
    <2>2. ASSUME NEW o \in Earlier, next[o].node # Tail
          PROVE  next[o].node \in Earlier /\ Value(o) < Value(next[o].node)
      <3>0. /\ next[o].node = IF o[2] + 1 <= Size THEN <<Maker, o[2] + 1>> ELSE Tail
            /\ o[2] \in 1 .. Size
        <4>1. o[2] + 1 \in 1 .. Size + 1 /\ next[o] = InitialPacket(o[2] + 1)
          BY <1>4, <1>5
        <4>2. QED
          BY <1>2, <1>3, <4>1
      <3>1. o[2] \in 1 .. Size /\ o[2] + 1 <= Size /\ next[o].node = <<Maker, o[2] + 1>>
        BY <2>2, <3>0
      <3>2. o[2] \in 1 .. Size - 1 /\ o[2] + 1 \in 1 .. Size
        BY <1>1, <3>1
      <3>3. next[o].node \in Earlier /\ Value(next[o].node) = Initial[o[2] + 1]
        BY <1>2, <1>5, <3>1, <3>2
      <3>4. QED
        BY <1>1, <1>5, <3>2, <3>3
    <2>3. next[Head].node # Tail => next[Head].node \in Earlier
      <3>1. next[Head].node = IF 1 <= Size THEN <<Maker, 1>> ELSE Tail
        BY <1>3, <1>4, <1>5
      <3>2. 1 <= Size => 1 \in 1 .. Size
        BY <1>1
      <3>3. QED
        BY <1>2, <3>1, <3>2
    <2>4. QED
      BY <1>2, <1>6, <2>1, <2>2, <2>3 DEF Ascending
  <1>10. ASSUME NEW t \in Thread
         PROVE  LocalInv(t)
    <2>1. pc[t] = "idle" /\ prev[t] = Head /\ cur[t] = Tail
      BY DEF Init
    <2>2. QED
      BY <2>1, Constants DEF LocalInv, InSearch, InDelete
  <1>11. QED
    BY <1>7, <1>8, <1>9, <1>10 DEF IInv

\* The inductive invariant holds throughout every behaviour.
THEOREM Invariant == Spec => []IInv
  <1>1. QED
    BY InitInv, Inductive, PTL DEF Spec

\* Every variable keeps its type: no search reads a field of the tail or of a
\* node that is not published.
THEOREM TypeCorrect == Spec => []TypeOK
  <1>1. IInv => TypeOK
    BY DEF IInv
  <1>2. QED
    BY <1>1, Invariant, PTL

\* Whatever the interleaving of inserts, deletes and the unlinking of searches,
\* every chain of nodes ascends.
THEOREM ChainsAscend == Spec => []Ascending
  <1>1. IInv => Ascending
    BY DEF IInv
  <1>2. QED
    BY <1>1, Invariant, PTL

\* A node stays deleted, whoever writes its field afterwards.
THEOREM MarksStay == Spec => DeletedOnce
  <1>1. ASSUME IInv, [Next]_vars
        PROVE  \A n \in Op : Published(n) /\ next[n].deleting => next'[n].deleting
    <2>1. ASSUME NEW t \in Thread, Step(t)
          PROVE  \A n \in Op : Published(n) /\ next[n].deleting => next'[n].deleting
      BY <1>1, <2>1, Frame
    <2>2. CASE UNCHANGED next
      BY <2>2
    <2>3. QED
      BY <1>1, <2>1, <2>2 DEF Next, Begin, vars
  <1>2. QED
    BY <1>1, Invariant, PTL DEF Spec, DeletedOnce

-----------------------------------------------------------------------------
(* Deletes never outnumber inserts: a delete that answers TRUE has marked  *)
(* a node of its own, and a node is published by one insert.               *)

\* The deletes of k that succeeded, the nodes of k that are marked, and those
\* that were published.
Removals(k) == {o \in Op : result[o] = TRUE /\ call[o] = [kind |-> "delete", key |-> k]}
MarkedNodes(k) == {o \in Op : Published(o) /\ Value(o) = k /\ next[o].deleting}
Nodes(k) == {o \in Op : Published(o) /\ Value(o) = k}

\* As many deletes succeeded as nodes are marked.
Counted(k) ==
    /\ IsFiniteSet(Removals(k))
    /\ IsFiniteSet(Nodes(k))
    /\ Cardinality(Removals(k)) = Cardinality(MarkedNodes(k))

\* A delete is still undecided when it marks, and marks a node of its element.
Choosing(t) ==
    /\ pc[t] \in {"mark", "markCas"} => Kind(t) = "delete" /\ Value(cur[t]) = Key(t)
    /\ pc[t] = "markCas" => ~rightNext[t].deleting
    /\ pc[t] \in {"insertCas", "mark", "markCas"} => ~cleanup[t]
    /\ pc[t] \notin {"idle", "return", "successor", "unlinkRight"} /\ ~cleanup[t] =>
         result[Current(t)] # TRUE

Undecided == \A o \in Op : ~Made(o) => result[o] = NoCall

CountInv ==
    /\ IInv
    /\ Undecided
    /\ \A t \in Thread : Choosing(t)
    /\ \A k \in Keys : Counted(k)

-----------------------------------------------------------------------------
(* Where the search leaves to.                                             *)

\* A call that found its element, or not, is decided at most once, and goes on
\* to mark only a node of its element.
Exit(t, right) ==
    /\ \/ result' = result
       \/ ~cleanup[t] /\ result' = [result EXCEPT ![Current(t)] = FALSE]
    /\ \E l \in PcLabels \ {"markCas", "successor", "unlinkRight"} :
          /\ pc' = [pc EXCEPT ![t] = l]
          /\ l \in {"insertCas", "mark"} => ~cleanup[t]
          /\ l = "mark" => Kind(t) = "delete" /\ Value(right) = Key(t)
          /\ l # "return" => result' = result

LEMMA FoundExits ==
    ASSUME IInv, NEW t \in Thread, pc[t] # "idle", NEW right, Found(t, right)
    PROVE  Exit(t, right)
  <1> DEFINE hit == right # Tail /\ Value(right) = Key(t)
  <1>1. Kind(t) \in {"insert", "delete"}
    BY ThreadTypes
  <1>2. CASE cleanup[t] /\ Goto(t, "return") /\ UNCHANGED result
    BY <1>2 DEF Goto, PcLabels, Exit
  <1>3. CASE ~cleanup[t] /\ Decide(t, FALSE) /\ Goto(t, "return")
    BY <1>3 DEF Goto, PcLabels, Exit, Decide
  <1>4. CASE /\ ~cleanup[t]
             /\ hit # (Kind(t) = "insert")
             /\ Goto(t, IF Kind(t) = "insert" THEN "insertCas" ELSE "mark")
             /\ UNCHANGED result
    <2>1. CASE Kind(t) = "insert"
      BY <1>4, <2>1 DEF Goto, PcLabels, Exit
    <2>2. CASE Kind(t) = "delete"
      <3>1. hit
        BY <1>4, <2>2
      <3>2. QED
        BY <1>4, <2>2, <3>1 DEF Goto, PcLabels, Exit
    <2>3. QED
      BY <1>1, <2>1, <2>2
  <1>5. QED
    BY <1>2, <1>3, <1>4 DEF Found

LEMMA LeaveExits ==
    ASSUME IInv, NEW t \in Thread, pc[t] # "idle", NEW packet, NEW right,
           LeaveLoop(t, packet, right)
    PROVE  Exit(t, right)
  <1>1. CASE (Goto(t, "unlink") \/ Goto(t, "check")) /\ UNCHANGED result
    BY <1>1 DEF Goto, PcLabels, Exit
  <1>2. CASE Found(t, right)
    BY <1>2, FoundExits
  <1>3. QED
    BY <1>1, <1>2 DEF LeaveLoop

LEMMA VisitExits ==
    ASSUME IInv, NEW t \in Thread, pc[t] # "idle", NEW packet, NEW n, Visit(t, packet, n)
    PROVE  Exit(t, n)
  <1>1. CASE n = Tail
    BY <1>1, LeaveExits DEF Visit
  <1>2. CASE n # Tail
    BY <1>2 DEF Visit, Goto, PcLabels, Exit
  <1>3. QED
    BY <1>1, <1>2

\* A step of the search.
Searches(t) == Start(t) \/ Scan(t) \/ Skip(t) \/ Advance(t) \/ Unlink(t) \/ Check(t)

LEMMA SearchExit ==
    ASSUME IInv, NEW t \in Thread, Searches(t)
    PROVE  Exit(t, cur'[t])
  <1>1. TypeOK /\ pc[t] # "idle"
    BY DEF IInv, Searches, Start, Scan, Skip, Advance, Unlink, Check
  <1>2. CASE Start(t) \/ Skip(t) \/ Advance(t)
    <2>1. PICK packet, n : Visit(t, packet, n) /\ cur'[t] = n
      BY <1>1, <1>2 DEF Start, Skip, Advance, TypeOK
    <2>2. QED
      BY <1>1, <2>1, VisitExits
  <1>3. CASE Scan(t) \/ Unlink(t) \/ Check(t)
    <2>1. cur'[t] = cur[t]
      BY <1>1, <1>3 DEF Scan, Unlink, Check, locals
    <2>2. \/ \E packet : LeaveLoop(t, packet, cur[t])
          \/ Found(t, cur[t])
          \/ (Goto(t, "start") \/ Goto(t, "skip") \/ Goto(t, "advance")) /\ UNCHANGED result
      BY <1>3 DEF Scan, Unlink, Check
    <2>3. CASE (Goto(t, "start") \/ Goto(t, "skip") \/ Goto(t, "advance")) /\ UNCHANGED result
      BY <2>3 DEF Goto, PcLabels, Exit
    <2>4. QED
      BY <1>1, <2>1, <2>2, <2>3, LeaveExits, FoundExits
  <1>4. QED
    BY <1>2, <1>3 DEF Searches

-----------------------------------------------------------------------------
(* What a thread knows when it marks.                                      *)

LEMMA OwnChoice ==
    ASSUME CountInv, NEW t \in Thread, Step(t)
    PROVE  Choosing(t)'
  <1>1. IInv /\ TypeOK /\ LocalInv(t) /\ Choosing(t) /\ UNCHANGED <<call, calls>>
    BY Frame DEF CountInv, IInv
  <1>2. Current(t)' = Current(t) /\ Key(t)' = Key(t) /\ Kind(t)' = Kind(t)
        /\ \A o : Value(o)' = Value(o)
    BY <1>1 DEF Current, Key, Kind, Value
  <1>3. pc[t] # "idle" => Current(t) \in Op
    BY <1>1, ThreadTypes
  <1>4. CASE Searches(t)
    <2>1. PICK l \in PcLabels \ {"markCas", "successor", "unlinkRight"} :
              /\ pc' = [pc EXCEPT ![t] = l]
              /\ l \in {"insertCas", "mark"} => ~cleanup[t]
              /\ l = "mark" => Kind(t) = "delete" /\ Value(cur'[t]) = Key(t)
              /\ l # "return" => result' = result
      BY <1>1, <1>4, SearchExit DEF Exit
    <2>2. pc'[t] = l /\ cleanup' = cleanup
          /\ pc[t] \notin {"idle", "return", "successor", "unlinkRight"}
      BY <1>1, <1>4, <2>1 DEF TypeOK, Searches, Start, Scan, Skip, Advance, Unlink, Check, locals
    <2>3. QED
      BY <1>1, <1>2, <2>1, <2>2 DEF Choosing
  <1>5. CASE InsertCas(t)
    <2>1. /\ pc'[t] = "return" \/ (pc'[t] = "start" /\ result' = result)
          /\ cleanup' = cleanup /\ pc[t] = "insertCas"
      BY <1>1, <1>5 DEF InsertCas, Goto, TypeOK, locals
    <2>2. QED
      BY <1>1, <1>2, <2>1 DEF Choosing
  <1>6. CASE Mark(t)
    <2>1. /\ pc[t] = "mark" /\ rightNext'[t] = next[cur[t]] /\ cur' = cur
          /\ pc'[t] = IF next[cur[t]].deleting THEN "start" ELSE "markCas"
          /\ cleanup' = cleanup /\ result' = result
      BY <1>1, <1>6 DEF Mark, Goto, TypeOK, history
    <2>2. QED
      BY <1>1, <1>2, <2>1 DEF Choosing
  <1>7. CASE MarkCas(t)
    <2>1. /\ pc'[t] = "successor" \/ (pc'[t] = "start" /\ result' = result)
          /\ cleanup' = cleanup /\ pc[t] = "markCas"
      BY <1>1, <1>7 DEF MarkCas, Goto, TypeOK, locals
    <2>2. QED
      BY <1>1, <1>2, <2>1 DEF Choosing
  <1>8. CASE Successor(t) \/ UnlinkRight(t) \/ Return(t)
    <2>1. pc'[t] \in {"unlinkRight", "return", "idle"} \/ (pc'[t] = "start" /\ cleanup'[t])
      BY <1>1, <1>8 DEF Successor, UnlinkRight, Return, Goto, TypeOK
    <2>2. QED
      BY <2>1 DEF Choosing
  <1>9. QED
    BY <1>4, <1>5, <1>6, <1>7, <1>8 DEF Step, Searches

\* How a step changes the results: it decides the call of its thread, with TRUE
\* only if it publishes or marks a node.
LEMMA Decision ==
    ASSUME CountInv, NEW t \in Thread, Step(t)
    PROVE  \/ result' = result
           \/ /\ result' = [result EXCEPT ![Current(t)] = FALSE]
              /\ result[Current(t)] # TRUE
              /\ Current(t) \in Op
           \/ /\ result' = [result EXCEPT ![Current(t)] = TRUE]
              /\ InsertCas(t) \/ MarkCas(t)
              /\ next[cur[t]] = rightNext[t] \/ InsertCas(t)
              /\ Current(t) \in Op
  <1>1. IInv /\ Choosing(t)
    BY DEF CountInv
  <1>2. pc[t] # "idle" => Current(t) \in Op
    BY <1>1, ThreadTypes
  <1>3. CASE Searches(t)
    <2>1. pc[t] \notin {"idle", "return", "successor", "unlinkRight"}
      BY <1>3 DEF Searches, Start, Scan, Skip, Advance, Unlink, Check
    <2>2. QED
      BY <1>1, <1>2, <1>3, <2>1, SearchExit DEF Exit, Choosing
  <1>4. CASE InsertCas(t) \/ MarkCas(t)
    BY <1>2, <1>4 DEF InsertCas, MarkCas, Decide
  <1>5. CASE Mark(t) \/ Successor(t) \/ UnlinkRight(t) \/ Return(t)
    BY <1>5 DEF Mark, Successor, UnlinkRight, Return, history
  <1>6. QED
    BY <1>3, <1>4, <1>5 DEF Step, Searches

\* A step decides no call but that of its thread.
LEMMA OthersResult ==
    ASSUME CountInv, NEW t \in Thread, Step(t), NEW o \in Op, o # Current(t)
    PROVE  result'[o] = result[o]
  <1>1. CountInv /\ Step(t) /\ o \in Op /\ o # Current(t)
    OBVIOUS
  <1>2. result \in [Op -> BOOLEAN \cup {NoCall}]
    BY <1>1 DEF CountInv, IInv, TypeOK
  <1>3. \/ result' = result
        \/ result' = [result EXCEPT ![Current(t)] = FALSE]
        \/ result' = [result EXCEPT ![Current(t)] = TRUE]
    BY ONLY <1>1, Decision
  <1>4. QED
    BY ONLY <1>1, <1>2, <1>3

LEMMA OtherChoice ==
    ASSUME CountInv, NEW t \in Thread, Step(t), NEW s \in Thread, s # t
    PROVE  Choosing(s)'
  <1>1. IInv /\ TypeOK /\ Choosing(s) /\ UNCHANGED <<call, calls>>
        /\ UNCHANGED <<pc[s], cur[s], rightNext[s]>>
    BY Frame DEF CountInv, IInv
  <1>2. cleanup'[s] = cleanup[s]
    BY <1>1 DEF TypeOK, Step, Start, Scan, Skip, Advance, Unlink, Check, InsertCas, Mark, MarkCas,
       Successor, UnlinkRight, Return, locals
  <1>3. Current(s)' = Current(s) /\ Current(s) # Current(t) /\ Key(s)' = Key(s)
        /\ Kind(s)' = Kind(s) /\ \A o : Value(o)' = Value(o)
    BY <1>1 DEF Current, Key, Kind, Value
  <1>4. pc[s] # "idle" => result'[Current(s)] = result[Current(s)]
    <2>1. pc[s] # "idle" => Current(s) \in Op
      BY <1>1, ThreadTypes
    <2>2. Current(s) # Current(t)
      BY <1>3
    <2>3. QED
      BY <2>1, <2>2, OthersResult
  <1>5. QED
    BY <1>1, <1>2, <1>3, <1>4 DEF Choosing

-----------------------------------------------------------------------------
(* The counts.                                                             *)

\* Only the CAS of delete marks a node.
LEMMA MarksSame ==
    ASSUME IInv, NEW t \in Thread, Step(t), MarkCas(t) => next' = next, NEW k
    PROVE  MarkedNodes(k)' = MarkedNodes(k)
  <1>1. /\ TypeOK /\ UNCHANGED call
        /\ \A o \in Op : Published(o) => Published(o)' /\ next[o] \in NodePacket
        /\ prev[t] \in Op \cup {Head} /\ cur[t] \in Op \cup {Tail}
        /\ prevNext[t] \in NodePacket /\ rightNext[t] \in NodePacket
        /\ next[Head] # NoPacket /\ Head \notin Op
        /\ pc[t] # "idle" => Current(t) \in Op
    BY Frame, ThreadTypes, Constants DEF IInv, CallInv
  <1>2. \A o \in Op : Value(o)' = Value(o)
    BY <1>1 DEF Value
  <1>3. SUFFICES ASSUME NEW o \in Op
                 PROVE  (Published(o) /\ next[o].deleting)' <=> (Published(o) /\ next[o].deleting)
    BY <1>2 DEF MarkedNodes
  <1>4. CASE next' = next
    BY <1>4 DEF Published
  <1>5. CASE Unlink(t) \/ UnlinkRight(t)
    <2>1. CASE next' = next
      BY <1>4, <2>1
    <2>2. CASE next' # next
      <3>1. PICK n : n \in {cur[t], rightNext[t].node}
                     /\ next' = [next EXCEPT ![prev[t]] = Packet(n, prevNext[t].deleting, prevNext[t])]
                     /\ next[prev[t]] = prevNext[t]
        BY <1>5, <2>2 DEF Unlink, UnlinkRight
      <3>2. n \in Node /\ prevNext[t].deleting \in BOOLEAN
        BY <1>1, <3>1 DEF NodePacket, Node
      <3>3. Packet(n, prevNext[t].deleting, prevNext[t]).deleting = prevNext[t].deleting
            /\ Packet(n, prevNext[t].deleting, prevNext[t]) \in NodePacket
        BY <1>1, <3>2, PacketType
      <3>4. next'[o] = IF o = prev[t] THEN Packet(n, prevNext[t].deleting, prevNext[t]) ELSE next[o]
        BY <1>1, <3>1 DEF TypeOK
      <3>5. CASE o = prev[t]
        <4>1. next[o] = prevNext[t] /\ next[o] # NoPacket
          BY <1>1, <3>1, <3>5, Constants
        <4>2. next'[o] # NoPacket /\ next'[o].deleting = prevNext[t].deleting
          BY <3>3, <3>4, <3>5, Constants
        <4>3. QED
          BY <4>1, <4>2 DEF Published
      <3>6. CASE o # prev[t]
        BY <3>4, <3>6 DEF Published
      <3>7. QED
        BY <3>5, <3>6
    <2>3. QED
      BY <2>1, <2>2
  <1>6. CASE InsertCas(t) /\ next' # next
    <2> DEFINE p == Packet(Current(t), prevNext[t].deleting, prevNext[t])
               r == [node |-> prevNext[t].node, deleting |-> FALSE, stamp |-> 0]
    <2>1. /\ next' = [next EXCEPT ![Current(t)] = r, ![prev[t]] = p]
          /\ next[prev[t]] = prevNext[t] /\ pc[t] = "insertCas"
      BY <1>6 DEF InsertCas
    <2>2. Current(t) \in Op /\ ~Published(Current(t))
      BY <1>1, <2>1 DEF IInv, LocalInv
    <2>3. prevNext[t].deleting \in BOOLEAN /\ Current(t) \in Node /\ prevNext[t].node \in Node
      BY <1>1, <2>2 DEF NodePacket, Node
    <2>4. p \in NodePacket /\ p.deleting = prevNext[t].deleting /\ p # NoPacket
      BY <1>1, <2>3, PacketType, Constants
    <2>5. ~r.deleting
      OBVIOUS
    <2>6. next'[o] = IF o = prev[t] THEN p ELSE IF o = Current(t) THEN r ELSE next[o]
      BY <1>1, <2>1, <2>2 DEF TypeOK
    <2>7. CASE o = prev[t]
      <3>1. next[o] = prevNext[t] /\ next[o] # NoPacket
        BY <1>1, <2>1, <2>7, Constants
      <3>2. next'[o] # NoPacket /\ next'[o].deleting = prevNext[t].deleting
        BY <2>4, <2>6, <2>7
      <3>3. QED
        BY <3>1, <3>2 DEF Published
    <2>8. CASE o # prev[t] /\ o = Current(t)
      BY <2>2, <2>5, <2>6, <2>8
    <2>9. CASE o # prev[t] /\ o # Current(t)
      BY <2>6, <2>9 DEF Published
    <2>10. QED
      BY <2>7, <2>8, <2>9
  <1>7. Unlink(t) \/ UnlinkRight(t) \/ InsertCas(t) \/ next' = next
    BY DEF Step, Start, Scan, Skip, Advance, Check, Mark, Successor, Return
  <1>8. QED
    BY <1>4, <1>5, <1>6, <1>7

\* The published nodes of an element stay finite in number.
LEMMA NodesFinite ==
    ASSUME IInv, NEW t \in Thread, Step(t), NEW k, IsFiniteSet(Nodes(k))
    PROVE  IsFiniteSet(Nodes(k)') /\ Nodes(k) \subseteq Nodes(k)'
  <1>1. /\ UNCHANGED call
        /\ \A o \in Op : Published(o) => Published(o)'
        /\ \A o \in Op : Published(o)' /\ ~Published(o) => o = Current(t)
    BY Frame
  <1>2. \A o \in Op : Value(o)' = Value(o)
    BY <1>1 DEF Value
  <1>3. IsFiniteSet(Nodes(k) \cup {Current(t)})
    BY FS_AddElement
  <1>4. Nodes(k)' \in SUBSET (Nodes(k) \cup {Current(t)})
    BY <1>1, <1>2 DEF Nodes
  <1>5. IsFiniteSet(Nodes(k)')
    BY <1>3, <1>4, FS_Subset
  <1>6. QED
    BY <1>1, <1>2, <1>5 DEF Nodes

\* A delete that succeeds is counted with the node it marked.
LEMMA CountStep ==
    ASSUME CountInv, NEW t \in Thread, Step(t), NEW k \in Keys
    PROVE  Counted(k)'
  <1>1. /\ IInv /\ TypeOK /\ Choosing(t) /\ LocalInv(t) /\ Counted(k) /\ UNCHANGED call
        /\ IsFiniteSet(Nodes(k)')
    BY Frame, NodesFinite DEF CountInv, IInv, Counted
  <1>2. CASE MarkCas(t) /\ next' # next
    <2> DEFINE o == Current(t)
    <2>1. /\ pc[t] = "markCas" /\ next[cur[t]] = rightNext[t] /\ ~next[cur[t]].deleting
          /\ next' = [next EXCEPT ![cur[t]] = Packet(rightNext[t].node, TRUE, rightNext[t])]
          /\ result' = [result EXCEPT ![o] = TRUE]
      BY <1>1, <1>2 DEF MarkCas, Decide, Choosing
    <2>2. /\ o \in Op /\ result[o] # TRUE /\ Kind(t) = "delete" /\ Value(cur[t]) = Key(t)
          /\ cur[t] \in Op /\ Published(cur[t]) /\ rightNext[t] \in NodePacket
      BY <1>1, <2>1, ThreadTypes DEF Choosing, LocalInv, InDelete
    <2>3. call[o] \in [kind : {"insert", "delete"}, key : Keys]
      <3>1. Made(o)
        BY <1>1, <2>1 DEF LocalInv
      <3>2. QED
        BY <1>1, <3>1 DEF Made, TypeOK
    <2>4. call[o] = [kind |-> "delete", key |-> Key(t)]
      BY <2>2, <2>3 DEF Kind, Key
    <2>5. Removals(k)' = IF k = Key(t) THEN Removals(k) \cup {o} ELSE Removals(k)
      <3>1. call[o] = [kind |-> "delete", key |-> k] <=> k = Key(t)
        BY <2>4
      <3>2. QED
        BY <1>1, <2>1, <2>2, <3>1 DEF Removals, TypeOK
    <2>6. \A n \in Op : next'[n] = IF n = cur[t] THEN Packet(rightNext[t].node, TRUE, rightNext[t])
                                   ELSE next[n]
      BY <1>1, <2>1 DEF TypeOK
    <2>7. Packet(rightNext[t].node, TRUE, rightNext[t]) \in NodePacket
          /\ Packet(rightNext[t].node, TRUE, rightNext[t]).deleting
      <3>1. rightNext[t].node \in Node
        BY <2>2 DEF NodePacket
      <3>2. QED
        BY <2>2, <3>1, PacketType
    <2>8. MarkedNodes(k)' = IF k = Key(t) THEN MarkedNodes(k) \cup {cur[t]} ELSE MarkedNodes(k)
      <3>1. \A n \in Op : Value(n)' = Value(n)
        BY <1>1 DEF Value
      <3>2. \A n \in Op : (Published(n) /\ next[n].deleting)'
                          <=> (n = cur[t] \/ (Published(n) /\ next[n].deleting))
        BY <2>2, <2>6, <2>7, Constants DEF Published
      <3>3. QED
        BY <2>2, <3>1, <3>2 DEF MarkedNodes
    <2>9. o \notin Removals(k) /\ cur[t] \notin MarkedNodes(k)
      BY <2>1, <2>2 DEF Removals, MarkedNodes
    <2>10. IsFiniteSet(Removals(k)) /\ IsFiniteSet(MarkedNodes(k))
      <3>1. MarkedNodes(k) \in SUBSET Nodes(k)
        BY DEF MarkedNodes, Nodes
      <3>2. QED
        BY <1>1, <3>1, FS_Subset DEF Counted
    <2>11. CASE k = Key(t)
      <3>1. IsFiniteSet(Removals(k)') /\ Cardinality(Removals(k)') = Cardinality(Removals(k)) + 1
        BY <2>5, <2>9, <2>10, <2>11, FS_AddElement
      <3>2. Cardinality(MarkedNodes(k)') = Cardinality(MarkedNodes(k)) + 1
        BY <2>8, <2>9, <2>10, <2>11, FS_AddElement
      <3>3. QED
        BY <1>1, <3>1, <3>2 DEF Counted
    <2>12. CASE k # Key(t)
      BY <1>1, <2>5, <2>8, <2>12 DEF Counted
    <2>13. QED
      BY <2>11, <2>12
  <1>3. CASE MarkCas(t) => next' = next
    <2>1. MarkedNodes(k)' = MarkedNodes(k)
      BY <1>1, <1>3, MarksSame
    <2>2. Removals(k)' = Removals(k)
      <3>1. CASE result' = result
        BY <1>1, <3>1 DEF Removals
      <3>2. CASE result' = [result EXCEPT ![Current(t)] = FALSE] /\ result[Current(t)] # TRUE
        BY <1>1, <3>2 DEF Removals, TypeOK
      <3>3. CASE InsertCas(t) /\ result' = [result EXCEPT ![Current(t)] = TRUE]
        <4>1. call[Current(t)].kind = "insert"
          BY <1>1, <3>3 DEF InsertCas, LocalInv, Kind
        <4>2. call[Current(t)] # [kind |-> "delete", key |-> k]
          BY <4>1
        <4>3. QED
          BY <1>1, <3>3, <4>2 DEF Removals, TypeOK
      <3>4. MarkCas(t) => result' = result
        <4>1. MarkCas(t) /\ next[cur[t]] = rightNext[t] => FALSE
          <5>1. SUFFICES ASSUME MarkCas(t), next[cur[t]] = rightNext[t] PROVE FALSE
            OBVIOUS
          <5>2. /\ cur[t] \in Op /\ rightNext[t] \in NodePacket /\ ~rightNext[t].deleting
            BY <1>1, <5>1, ThreadTypes DEF MarkCas, Choosing, LocalInv, InDelete
          <5>3. next'[cur[t]] = Packet(rightNext[t].node, TRUE, rightNext[t])
            BY <1>1, <5>1, <5>2 DEF MarkCas, TypeOK
          <5>4. Packet(rightNext[t].node, TRUE, rightNext[t]).deleting
            BY DEF Packet
          <5>5. QED
            BY <1>3, <5>1, <5>2, <5>3, <5>4
        <4>2. QED
          BY <4>1 DEF MarkCas
      <3>5. QED
        BY <3>1, <3>2, <3>3, <3>4, Decision
    <2>3. QED
      BY <1>1, <2>1, <2>2 DEF Counted
  <1>4. QED
    BY <1>2, <1>3

-----------------------------------------------------------------------------
(* The invariant.                                                          *)

\* A call that is not made is not decided.
LEMMA UndecidedStep ==
    ASSUME CountInv, NEW t \in Thread, Step(t)
    PROVE  Undecided'
  <1>1. TypeOK /\ UNCHANGED call /\ (pc[t] # "idle" => Made(Current(t)))
    BY Frame DEF CountInv, IInv, LocalInv
  <1>2. pc[t] # "idle"
    BY DEF Step, Start, Scan, Skip, Advance, Unlink, Check, InsertCas, Mark, MarkCas, Successor,
       UnlinkRight, Return
  <1>3. \A o \in Op : o # Current(t) => result'[o] = result[o]
    BY OthersResult
  <1>4. QED
    BY <1>1, <1>2, <1>3 DEF Undecided, Made, CountInv

\* A new call is undecided, and its element has no more nodes than before.
LEMMA BeginCount ==
    ASSUME CountInv, NEW t \in Thread, NEW kind \in {"insert", "delete"}, NEW key \in Keys,
           Begin(t, kind, key)
    PROVE  Undecided' /\ (\A s \in Thread : Choosing(s)') /\ \A k \in Keys : Counted(k)'
  <1> DEFINE new == <<t, calls[t] + 1>>
  <1>1. /\ IInv /\ TypeOK /\ CallInv /\ calls[t] \in 0 .. MaxOps /\ calls[t] < MaxOps
        /\ MaxOps \in Nat /\ NoCall # TRUE
    BY ThreadTypes, ListAssumption DEF CountInv, IInv, Begin, ListAssumption
  <1>2. new \in Op /\ calls[t] + 1 \in 1 .. MaxOps
    <2>1. calls[t] + 1 \in 1 .. MaxOps
      BY <1>1
    <2>2. QED
      BY <2>1, OpFacts
  <1>3. call[new] = NoCall
    <2>1. ~(calls[t] + 1 <= calls[t])
      BY <1>1
    <2>2. QED
      BY <1>1, <1>2, <2>1 DEF CallInv
  <1>4. ~Made(new) /\ result[new] = NoCall /\ ~Published(new)
    BY <1>1, <1>2, <1>3 DEF Made, CountInv, Undecided, CallInv
  <1>5. /\ call' = [call EXCEPT ![new] = [kind |-> kind, key |-> key]]
        /\ calls' = [calls EXCEPT ![t] = calls[t] + 1]
        /\ pc' = [pc EXCEPT ![t] = "start"]
        /\ cleanup' = [cleanup EXCEPT ![t] = FALSE]
        /\ UNCHANGED <<next, result, prev, prevNext, cur, rightNext>>
    BY DEF Begin, Goto
  <1>6. \A o \in Op : o # new => call'[o] = call[o]
    BY <1>1, <1>2, <1>5 DEF TypeOK
  <1>7. Undecided'
    BY <1>1, <1>4, <1>5, <1>6 DEF Undecided, Made, CountInv
  <1>8. ASSUME NEW s \in Thread
        PROVE  Choosing(s)'
    <2>1. CASE s = t
      <3>1. pc'[s] = "start" /\ Current(s)' = new
        BY <1>1, <1>5, <2>1 DEF TypeOK, Current
      <3>2. result'[Current(s)'] # TRUE
        BY <1>1, <1>4, <1>5, <3>1
      <3>3. QED
        BY <3>1, <3>2 DEF Choosing
    <2>2. CASE s # t
      <3>1. /\ Current(s)' = Current(s) /\ Current(s) # new
            /\ UNCHANGED <<pc[s], cleanup[s], cur[s], rightNext[s]>>
        BY <1>1, <1>5, <2>2 DEF TypeOK, Current
      <3>2. pc[s] # "idle" => Current(s) \in Op
        BY <1>1, ThreadTypes
      <3>3. pc[s] # "idle" => Key(s)' = Key(s) /\ Kind(s)' = Kind(s)
        BY <1>6, <3>1, <3>2 DEF Key, Kind
      <3>4. pc[s] \in {"mark", "markCas"} => Value(cur[s])' = Value(cur[s])
        <4>1. pc[s] \in {"mark", "markCas"} => cur[s] \in Op /\ Published(cur[s])
          BY <1>1 DEF IInv, LocalInv, InDelete
        <4>2. QED
          BY <1>4, <1>6, <3>1, <4>1 DEF Value
      <3>5. QED
        BY <1>5, <3>1, <3>3, <3>4 DEF Choosing, CountInv
    <2>3. QED
      BY <2>1, <2>2
  <1>9. ASSUME NEW k \in Keys
        PROVE  Counted(k)'
    <2>1. Removals(k)' = Removals(k)
      BY <1>1, <1>4, <1>5, <1>6 DEF Removals
    <2>2. \A o \in Op : Published(o) => Value(o)' = Value(o)
      BY <1>4, <1>6 DEF Value
    <2>3. \A o \in Op : Published(o)' <=> Published(o)
      BY <1>5 DEF Published
    <2>4. MarkedNodes(k)' = MarkedNodes(k) /\ Nodes(k)' = Nodes(k)
      BY <1>5, <2>2, <2>3 DEF MarkedNodes, Nodes
    <2>5. QED
      BY <2>1, <2>4 DEF CountInv, Counted
  <1>10. QED
    BY <1>7, <1>8, <1>9

LEMMA CountInductive == CountInv /\ [Next]_vars => CountInv'
  <1> SUFFICES ASSUME CountInv, [Next]_vars PROVE CountInv'
    OBVIOUS
  <1>1. IInv'
    BY Inductive DEF CountInv
  <1>2. ASSUME NEW t \in Thread, Step(t)
        PROVE  CountInv'
    <2>1. \A s \in Thread : Choosing(s)'
      BY <1>2, OwnChoice, OtherChoice
    <2>2. QED
      BY <1>1, <1>2, <2>1, UndecidedStep, CountStep DEF CountInv
  <1>3. ASSUME NEW t \in Thread, NEW kind \in {"insert", "delete"}, NEW key \in Keys,
               Begin(t, kind, key)
        PROVE  CountInv'
    BY <1>1, <1>3, BeginCount DEF CountInv
  <1>4. CASE UNCHANGED vars
    <2>1. \A t \in Thread : Choosing(t)'
      BY <1>4 DEF vars, CountInv, Choosing, Current, Key, Kind, Value
    <2>2. \A k \in Keys : Counted(k)'
      BY <1>4 DEF vars, CountInv, Counted, Removals, MarkedNodes, Nodes, Published, Value
    <2>3. QED
      BY <1>1, <1>4, <2>1, <2>2 DEF vars, CountInv, Undecided, Made
  <1>5. QED
    BY <1>2, <1>3, <1>4 DEF Next

LEMMA CountInit == Init => CountInv
  <1> SUFFICES ASSUME Init PROVE CountInv
    OBVIOUS
  <1>1. /\ Size \in Nat /\ Earlier \subseteq Op /\ Initial \in [1 .. Size -> Keys]
        /\ \A o \in Earlier : o[2] \in 1 .. Size
        /\ \A k \in Keys, i \in 1 .. Size : [kind |-> "insert", key |-> Initial[i]] # NoCall
    BY ListAssumption DEF ListAssumption, Earlier, Op
  <1>2. \A o \in Op : call[o] = IF o \in Earlier
                                  THEN [kind |-> "insert", key |-> Initial[o[2]]] ELSE NoCall
    BY DEF Init
  <1>3. \A o \in Op : result[o] = IF o \in Earlier THEN TRUE ELSE NoCall
    BY DEF Init
  <1>4. Undecided
    BY <1>1, <1>2, <1>3 DEF Undecided, Made
  <1>5. \A t \in Thread : Choosing(t)
    BY DEF Init, Choosing
  <1>6. ASSUME NEW k \in Keys
        PROVE  Counted(k)
    <2>1. Removals(k) = {}
      <3>1. \A o \in Op : call[o] # [kind |-> "delete", key |-> k]
        <4>1. NoCall # [kind |-> "delete", key |-> k]
          BY Constants
        <4>2. \A v : [kind |-> "insert", key |-> v] # [kind |-> "delete", key |-> k]
          <5>1. \A v : [kind |-> "insert", key |-> v].kind # [kind |-> "delete", key |-> k].kind
            OBVIOUS
          <5>2. QED
            BY <5>1
        <4>3. QED
          BY <1>2, <4>1, <4>2
      <3>2. QED
        BY <3>1 DEF Removals
    <2>2. \A o \in Op : Published(o) => o \in Earlier /\ ~next[o].deleting
      BY Constants DEF Init, Published, InitialPacket
    <2>3. MarkedNodes(k) = {}
      BY <2>2 DEF MarkedNodes
    <2>4. IsFiniteSet(Earlier)
      <3>1. IsFiniteSet({Maker})
        BY FS_Singleton
      <3>2. IsFiniteSet(1 .. Size)
        <4>1. 1 \in Int /\ Size \in Int
          BY <1>1
        <4>2. QED
          BY <4>1, FS_Interval
      <3>3. QED
        BY <3>1, <3>2, FS_Product DEF Earlier
    <2>5. Nodes(k) \in SUBSET Earlier
      BY <2>2 DEF Nodes
    <2>6. IsFiniteSet(Nodes(k))
      BY <2>4, <2>5, FS_Subset
    <2>7. QED
      BY <2>1, <2>3, <2>6, FS_EmptySet DEF Counted
  <1>7. QED
    BY <1>4, <1>5, <1>6, InitInv DEF CountInv

\* However inserts, deletes and the unlinking of searches interleave, no element
\* is deleted with success more often than a node was published for it: of two
\* deletes that find the same node only one answers TRUE.
THEOREM NotDeletedTwice == Spec => []Balance
  <1>1. CountInv => Balance
    <2> SUFFICES ASSUME CountInv, NEW k \in Keys
                 PROVE  Cardinality(Removals(k)) <= Cardinality(Nodes(k))
      BY DEF Balance, Removals, Nodes
    <2>1. IsFiniteSet(Nodes(k)) /\ Cardinality(Removals(k)) = Cardinality(MarkedNodes(k))
      BY DEF CountInv, Counted
    <2>2. MarkedNodes(k) \in SUBSET Nodes(k)
      BY DEF MarkedNodes, Nodes
    <2>3. QED
      BY <2>1, <2>2, FS_Subset
  <1>2. QED
    BY <1>1, CountInit, CountInductive, PTL DEF Spec

-----------------------------------------------------------------------------
(* What the refusals of insert have seen.                                  *)

\* In a call seen holds the truth of this moment; a call of insert is decided
\* with FALSE only where it ends, and then has seen its element.
SeenInv(t) ==
    /\ pc[t] # "idle" => (Key(t) \in Members) \in seen[t]
    /\ pc[t] \notin {"idle", "return"} /\ Kind(t) = "insert" => result[Current(t)] # FALSE
    /\ Refused(t, "insert") => TRUE \in seen[t]

RefusalInv == CountInv /\ \A t \in Thread : SeenInv(t)

\* A call of insert that is refused stands on an undeleted node of its element.
LEMMA RefusedThere ==
    ASSUME CountInv, NEW t \in Thread, Step(t), Kind(t) = "insert",
           result[Current(t)] # FALSE, result'[Current(t)] = FALSE
    PROVE  Check(t) /\ Key(t) \in Members /\ next' = next
  <1>1. IInv /\ TypeOK /\ LocalInv(t) /\ Choosing(t)
    BY DEF CountInv, IInv
  <1>2. CASE Check(t)
    <2>1. ~next[cur[t]].deleting /\ Found(t, cur[t]) /\ pc[t] = "check" /\ next' = next
      BY <1>2 DEF Check
    <2>2. cur[t] \in Op /\ Published(cur[t])
      BY <1>1, <2>1 DEF LocalInv
    <2>3. Value(cur[t]) = Key(t)
      BY <2>1 DEF Found
    <2>4. QED
      BY <1>2, <2>1, <2>2, <2>3 DEF Members
  <1>3. ASSUME NEW packet, LeaveLoop(t, packet, Tail) PROVE FALSE
    BY <1>3 DEF LeaveLoop, Found
  <1>4. ASSUME NEW packet, NEW n, LeaveLoop(t, packet, n) PROVE FALSE
    BY <1>3, <1>4 DEF LeaveLoop
  <1>5. CASE Start(t) \/ Scan(t) \/ Skip(t) \/ Advance(t) \/ Unlink(t)
    BY <1>4, <1>5 DEF Start, Scan, Skip, Advance, Unlink, Visit
  <1>6. CASE InsertCas(t) \/ MarkCas(t)
    <2>1. Current(t) \in Op
      BY <1>1, <1>6, ThreadTypes DEF InsertCas, MarkCas
    <2>2. QED
      BY <1>1, <1>6, <2>1 DEF InsertCas, MarkCas, Decide, TypeOK
  <1>7. CASE Mark(t) \/ Successor(t) \/ UnlinkRight(t) \/ Return(t)
    BY <1>7 DEF Mark, Successor, UnlinkRight, Return, history
  <1>8. QED
    BY <1>2, <1>5, <1>6, <1>7 DEF Step

\* A call of insert goes on only while it is undecided.
LEMMA GoesOnUndecided ==
    ASSUME CountInv, NEW t \in Thread, Step(t), pc'[t] \notin {"idle", "return"},
           pc[t] \notin {"idle", "return"} => result[Current(t)] # FALSE
    PROVE  result'[Current(t)] # FALSE
  <1>1. IInv /\ TypeOK
    BY DEF CountInv, IInv
  <1>2. pc[t] \notin {"idle", "return"} /\ result[Current(t)] # FALSE /\ Current(t) \in Op
    BY <1>1, ThreadTypes DEF Step, Start, Scan, Skip, Advance, Unlink, Check, InsertCas, Mark, MarkCas,
       Successor, UnlinkRight, Return, Goto, TypeOK
  <1>3. CASE Searches(t)
    <2>1. PICK l \in PcLabels \ {"markCas", "successor", "unlinkRight"} :
              /\ pc' = [pc EXCEPT ![t] = l]
              /\ l # "return" => result' = result
      BY <1>1, <1>3, SearchExit DEF Exit
    <2>2. QED
      BY <1>1, <1>2, <2>1 DEF TypeOK
  <1>4. CASE InsertCas(t) \/ MarkCas(t)
    BY <1>1, <1>2, <1>4 DEF InsertCas, MarkCas, Decide, TypeOK
  <1>5. CASE Mark(t) \/ Successor(t) \/ UnlinkRight(t) \/ Return(t)
    BY <1>2, <1>5 DEF Mark, Successor, UnlinkRight, Return, history
  <1>6. QED
    BY <1>3, <1>4, <1>5 DEF Step, Searches

LEMMA SeenStep ==
    ASSUME RefusalInv, Observe, NEW t \in Thread,
           Step(t) \/ (\E kind \in {"insert", "delete"}, key \in Keys : Begin(t, kind, key)),
           NEW s \in Thread
    PROVE  SeenInv(s)'
  <1>1. /\ IInv /\ TypeOK /\ CountInv /\ SeenInv(s) /\ NoCall \notin BOOLEAN
        /\ pc[s] # "idle" => Current(s) \in Op
    BY ThreadTypes, ListAssumption DEF RefusalInv, CountInv, IInv, ListAssumption
  <1>2. /\ pc'[s] # "idle" => (Key(s) \in Members)' \in seen'[s]
        /\ pc'[s] # "idle" => seen[s] \subseteq seen'[s]
    BY DEF Observe
  <1>3. CASE Step(t) /\ s = t
    <2>1. Current(t)' = Current(t) /\ Key(t)' = Key(t) /\ Kind(t)' = Kind(t)
          /\ \A o : Value(o)' = Value(o)
      BY <1>1, <1>3, Frame DEF Current, Key, Kind, Value
    <2>2. pc'[t] \notin {"idle", "return"} /\ Kind(t) = "insert" => result'[Current(t)] # FALSE
      BY <1>1, <1>3, GoesOnUndecided DEF SeenInv
    <2>3. ASSUME Refused(t, "insert")' PROVE TRUE \in seen'[t]
      <3>1. Kind(t) = "insert" /\ result'[Current(t)] = FALSE /\ pc'[t] = "return"
        BY <2>1, <2>3 DEF Refused
      <3>2. CASE result[Current(t)] = FALSE
        <4>1. pc[t] # "idle" /\ pc[t] # "return" => FALSE
          BY <1>1, <1>3, <3>1, <3>2 DEF SeenInv
        <4>2. pc[t] # "idle"
          BY <1>3 DEF Step, Start, Scan, Skip, Advance, Unlink, Check, InsertCas, Mark, MarkCas,
             Successor, UnlinkRight, Return
        <4>3. TRUE \in seen[t]
          BY <1>1, <1>3, <3>1, <3>2, <4>1, <4>2 DEF SeenInv, Refused
        <4>4. QED
          BY <1>2, <1>3, <3>1, <4>3
      <3>3. CASE result[Current(t)] # FALSE
        <4>1. Key(t) \in Members /\ next' = next
          BY <1>1, <1>3, <3>1, <3>3, RefusedThere
        <4>2. Members' = Members
          BY <2>1, <4>1 DEF Members, Published
        <4>3. (Key(t) \in Members)'
          BY <2>1, <4>1, <4>2
        <4>4. QED
          BY <1>2, <1>3, <3>1, <4>3
      <3>4. QED
        BY <3>2, <3>3
    <2>4. QED
      BY <1>2, <1>3, <2>1, <2>2, <2>3 DEF SeenInv
  <1>4. CASE Step(t) /\ s # t
    <2>1. UNCHANGED <<call, calls>> /\ pc'[s] = pc[s]
      BY <1>1, <1>4, Frame
    <2>2. Current(s)' = Current(s) /\ Current(s) # Current(t) /\ Kind(s)' = Kind(s)
      BY <1>4, <2>1 DEF Current, Kind
    <2>3. pc[s] # "idle" => result'[Current(s)] = result[Current(s)]
      BY <1>1, <1>4, <2>2, OthersResult
    <2>4. QED
      BY <1>1, <1>2, <2>1, <2>2, <2>3 DEF SeenInv, Refused
  <1>5. CASE s # t /\ \E kind \in {"insert", "delete"}, key \in Keys : Begin(t, kind, key)
    <2>1. /\ pc'[s] = pc[s] /\ calls'[s] = calls[s] /\ result' = result
          /\ \A k : call'[<<s, k>>] = call[<<s, k>>]
      BY <1>1, <1>5 DEF Begin, Goto, TypeOK
    <2>2. Current(s)' = Current(s) /\ Kind(s)' = Kind(s)
      BY <2>1 DEF Current, Kind
    <2>3. QED
      BY <1>1, <1>2, <2>1, <2>2 DEF SeenInv, Refused
  <1>6. CASE s = t /\ \E kind \in {"insert", "delete"}, key \in Keys : Begin(t, kind, key)
    <2>1. pc'[t] = "start" /\ calls'[t] = calls[t] + 1 /\ result' = result /\ calls[t] < MaxOps
          /\ calls[t] \in 0 .. MaxOps /\ MaxOps \in Nat
      BY <1>1, <1>6, Constants DEF Begin, Goto, TypeOK
    <2>2. <<t, calls[t] + 1>> \in Op /\ ~(calls[t] + 1 <= calls[t]) /\ calls[t] + 1 \in 1 .. MaxOps
      <3>1. ~(calls[t] + 1 <= calls[t]) /\ calls[t] + 1 \in 1 .. MaxOps
        BY <2>1
      <3>2. QED
        BY <3>1, OpFacts
    <2>3. call[<<t, calls[t] + 1>>] = NoCall
      BY <1>1, <2>2 DEF IInv, CallInv
    <2>4. result[<<t, calls[t] + 1>>] = NoCall
      BY <1>1, <2>2, <2>3 DEF CountInv, Undecided, Made
    <2>5. result'[Current(t)'] # FALSE
      BY <1>1, <2>1, <2>4 DEF Current
    <2>6. QED
      BY <1>2, <1>6, <2>1, <2>5 DEF SeenInv, Refused
  <1>7. QED
    BY <1>3, <1>4, <1>5, <1>6

\* With the history variable the list takes the steps of the list.
LEMMA ResultsStep == [RNext]_<<vars, seen>> => [Next]_vars
  BY DEF RNext, RStep, Next, Step

LEMMA RefusalInductive == RefusalInv /\ [RNext]_<<vars, seen>> => RefusalInv'
  <1> SUFFICES ASSUME RefusalInv, [RNext]_<<vars, seen>> PROVE RefusalInv'
    OBVIOUS
  <1>1. CountInv'
    BY ResultsStep, CountInductive DEF RefusalInv
  <1>2. CASE UNCHANGED <<vars, seen>>
    BY <1>1, <1>2 DEF vars, RefusalInv, SeenInv, Refused, Key, Kind, Current, Members, Published, Value
  <1>3. CASE RNext
    <2>1. PICK t \in Thread :
              /\ Observe
              /\ Step(t) \/ (\E kind \in {"insert", "delete"}, key \in Keys : Begin(t, kind, key))
      BY <1>3 DEF RNext, RStep, Step
    <2>2. QED
      BY <1>1, <2>1, SeenStep DEF RefusalInv
  <1>4. QED
    BY <1>2, <1>3

\* An insert answers FALSE only if its element was in the set at some time
\* between its call and its return, though it may be gone when the call ends:
\* what linearizability asks of a refusal.
THEOREM RefusalsSeen == RSpec => []InsertRefusal
  <1>1. RInit => RefusalInv
    BY CountInit DEF RInit, RefusalInv, Init, SeenInv, Refused
  <1>2. RefusalInv => InsertRefusal
    BY DEF RefusalInv, SeenInv, InsertRefusal
  <1>3. QED
    BY <1>1, <1>2, RefusalInductive, PTL DEF RSpec

=============================================================================
