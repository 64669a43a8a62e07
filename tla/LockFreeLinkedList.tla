------------------------- MODULE LockFreeLinkedList -------------------------
(***************************************************************************)
(* The sorted set of LockFreeLinkedList.java, one action per access to a   *)
(* "next" field.                                                           *)
(*                                                                         *)
(* A node is named by the insert call that made it.  Java compares and     *)
(* swaps references to NodePacket: "stamp" numbers the packets one "next"  *)
(* field has held, so that equal stamps of one field mean one object.  A   *)
(* node has no packet (NoPacket) until the CAS that publishes it: before,  *)
(* nobody but its maker can read it.                                       *)
(***************************************************************************)
EXTENDS Integers, FiniteSets

CONSTANTS
    Thread,    \* the threads that use the list
    MaxOps,    \* bound: calls one thread makes in a behaviour
    Keys,      \* the elements, ordered as integers
    Size,      \* how many elements are in the list when the behaviour begins
    Initial,   \* those elements, ascending
    Maker,     \* the thread that inserted them
    Head,      \* the head node
    Tail,      \* the tail node
    NoPacket,  \* the next field of a node that is not published
    NoCall     \* a call that has not been made

\* The calls made before the behaviour begins, and those of the threads.
Earlier == {Maker} \X (1 .. Size)
Op == Earlier \cup (Thread \X (1 .. MaxOps))

Node == Op \cup {Head, Tail}

NodePacket == [node : Node, deleting : BOOLEAN, stamp : Nat]

ASSUME ListAssumption ==
    /\ MaxOps \in Nat
    /\ Keys \subseteq Int
    /\ Size \in Nat
    /\ Initial \in [1 .. Size -> Keys]
    /\ \A i \in 1 .. Size - 1 : Initial[i] < Initial[i + 1]
    /\ Maker \notin Thread
    /\ Head # Tail
    /\ Head \notin Op /\ Tail \notin Op
    /\ NoPacket \notin NodePacket
    /\ NoCall \notin [kind : {"insert", "delete"}, key : Keys] /\ NoCall \notin BOOLEAN

VARIABLES
    next,      \* next[n]: the packet in the next field of node n
    call,      \* call[o]: kind and element of call o
    result,    \* result[o]: what call o returns, once it is decided
    calls,     \* calls[t]: calls thread t has begun
    pc,        \* pc[t]: the next access of thread t
    cleanup,   \* cleanup[t]: t runs the search that ends delete
    prev,      \* locals of search, insert and delete: prev / left
    prevNext,  \*     prevNext / leftNext
    cur,       \*     curNode / rightNode / right
    rightNext  \*     rightNext, and then right.next

history == <<call, result, calls>>
locals == <<cleanup, prev, prevNext, cur, rightNext>>
vars == <<next, call, result, calls, pc, cleanup, prev, prevNext, cur, rightNext>>

Current(t) == <<t, calls[t]>>
Kind(t) == call[Current(t)].kind
Key(t) == call[Current(t)].key
Value(n) == call[n].key

Packet(n, d, old) == [node |-> n, deleting |-> d, stamp |-> old.stamp + 1]

\* The packet that points to the i-th initial node.
InitialPacket(i) == [node |-> IF i <= Size THEN <<Maker, i>> ELSE Tail,
                     deleting |-> FALSE, stamp |-> 0]

Init ==
    /\ next = [n \in Op \cup {Head} |->
                  IF n = Head THEN InitialPacket(1)
                  ELSE IF n \in Earlier THEN InitialPacket(n[2] + 1)
                  ELSE NoPacket]
    /\ call = [o \in Op |-> IF o \in Earlier THEN [kind |-> "insert", key |-> Initial[o[2]]]
                                             ELSE NoCall]
    /\ result = [o \in Op |-> IF o \in Earlier THEN TRUE ELSE NoCall]
    /\ calls = [t \in Thread |-> 0]
    /\ pc = [t \in Thread |-> "idle"]
    /\ cleanup = [t \in Thread |-> FALSE]
    /\ prev = [t \in Thread |-> Head]
    /\ prevNext = [t \in Thread |-> next[Head]]
    /\ cur = [t \in Thread |-> Tail]
    /\ rightNext = [t \in Thread |-> next[Head]]

-----------------------------------------------------------------------------

Goto(t, l) == pc' = [pc EXCEPT ![t] = l]

Decide(t, r) == result' = [result EXCEPT ![Current(t)] = r]

Begin(t, kind, key) ==
    /\ pc[t] = "idle"
    /\ calls[t] < MaxOps
    /\ calls' = [calls EXCEPT ![t] = @ + 1]
    /\ call' = [call EXCEPT ![<<t, calls[t] + 1>>] = [kind |-> kind, key |-> key]]
    /\ cleanup' = [cleanup EXCEPT ![t] = FALSE]
    /\ Goto(t, "start")
    /\ UNCHANGED <<next, result, prev, prevNext, cur, rightNext>>

Return(t) ==
    /\ pc[t] = "return"
    /\ Goto(t, "idle")
    /\ UNCHANGED <<next, history, locals>>

-----------------------------------------------------------------------------
(* search                                                                  *)

\* Mutant: any right node but the tail is taken for the element.
Found_NoCompare(t, right) ==
    LET hit == right # Tail
    IN  /\ IF cleanup[t] THEN UNCHANGED result /\ Goto(t, "return")
           ELSE IF hit = (Kind(t) = "insert") THEN Decide(t, FALSE) /\ Goto(t, "return")
           ELSE UNCHANGED result /\ Goto(t, IF Kind(t) = "insert" THEN "insertCas" ELSE "mark")

\* What the caller of search does with the right node it found.
Found(t, right) ==
    LET hit == right # Tail /\ Value(right) = Key(t)
    IN  \/ /\ cleanup[t]
           /\ Goto(t, "return")
           /\ UNCHANGED result
        \/ /\ ~cleanup[t]
           /\ hit = (Kind(t) = "insert")
           /\ Decide(t, FALSE)
           /\ Goto(t, "return")
        \/ /\ ~cleanup[t]
           /\ hit # (Kind(t) = "insert")
           /\ Goto(t, IF Kind(t) = "insert" THEN "insertCas" ELSE "mark")
           /\ UNCHANGED result

\* The inner loop is left with "right": it is returned at once if it is the
\* tail and adjacent, tested for deletion if it is adjacent, and the nodes
\* before it are unlinked otherwise.
LeaveLoop(t, packet, right) ==
    IF packet.node # right THEN Goto(t, "unlink") /\ UNCHANGED result
    ELSE IF right # Tail THEN Goto(t, "check") /\ UNCHANGED result
    ELSE Found(t, right)

\* The inner loop goes on with node n, or is left at the tail.
Visit(t, packet, n) ==
    IF n = Tail THEN LeaveLoop(t, packet, n) ELSE Goto(t, "scan") /\ UNCHANGED result

Start(t) ==
    /\ pc[t] = "start"
    /\ prev' = [prev EXCEPT ![t] = Head]
    /\ prevNext' = [prevNext EXCEPT ![t] = next[Head]]
    /\ cur' = [cur EXCEPT ![t] = next[Head].node]
    /\ Visit(t, next[Head], next[Head].node)
    /\ UNCHANGED <<next, call, calls, cleanup, rightNext>>

\* Mutant: the search stops only behind the element.
Scan_Strict(t) ==
    /\ pc[t] = "scan"
    /\ IF next[cur[t]].deleting THEN Goto(t, "skip") /\ UNCHANGED result
       ELSE IF Key(t) < Value(cur[t]) THEN LeaveLoop(t, prevNext[t], cur[t])
       ELSE Goto(t, "advance") /\ UNCHANGED result
    /\ UNCHANGED <<next, call, calls, locals>>

\* Mutant: nodes being deleted are not skipped.
Scan_NoSkip(t) ==
    /\ pc[t] = "scan"
    /\ IF Key(t) <= Value(cur[t]) THEN LeaveLoop(t, prevNext[t], cur[t])
       ELSE Goto(t, "advance") /\ UNCHANGED result
    /\ UNCHANGED <<next, call, calls, locals>>

Scan(t) ==
    /\ pc[t] = "scan"
    /\ IF next[cur[t]].deleting THEN Goto(t, "skip") /\ UNCHANGED result
       ELSE IF Key(t) <= Value(cur[t]) THEN LeaveLoop(t, prevNext[t], cur[t])
       ELSE Goto(t, "advance") /\ UNCHANGED result
    /\ UNCHANGED <<next, call, calls, locals>>

Skip(t) ==
    /\ pc[t] = "skip"
    /\ cur' = [cur EXCEPT ![t] = next[cur[t]].node]
    /\ Visit(t, prevNext[t], next[cur[t]].node)
    /\ UNCHANGED <<next, call, calls, cleanup, prev, prevNext, rightNext>>

\* Mutant: curNode moves on before it is kept as prev.
Advance_Swapped(t) ==
    LET packet == next[cur[t]]
    IN  /\ pc[t] = "advance"
        /\ prev' = [prev EXCEPT ![t] = packet.node]
        /\ prevNext' = [prevNext EXCEPT ![t] = packet]
        /\ cur' = [cur EXCEPT ![t] = packet.node]
        /\ Visit(t, packet, packet.node)
        /\ UNCHANGED <<next, call, calls, cleanup, rightNext>>

\* curNode.next is read again, after the test of Scan.
Advance(t) ==
    LET packet == next[cur[t]]
    IN  /\ pc[t] = "advance"
        /\ prev' = [prev EXCEPT ![t] = cur[t]]
        /\ prevNext' = [prevNext EXCEPT ![t] = packet]
        /\ cur' = [cur EXCEPT ![t] = packet.node]
        /\ Visit(t, packet, packet.node)
        /\ UNCHANGED <<next, call, calls, cleanup, rightNext>>

Unlink(t) ==
    /\ pc[t] = "unlink"
    /\ IF next[prev[t]] = prevNext[t]
          THEN LET packet == Packet(cur[t], prevNext[t].deleting, prevNext[t])
               IN  /\ next' = [next EXCEPT ![prev[t]] = packet]
                   /\ prevNext' = [prevNext EXCEPT ![t] = packet]
                   /\ LeaveLoop(t, packet, cur[t])
          ELSE Goto(t, "start") /\ UNCHANGED <<next, prevNext, result>>
    /\ UNCHANGED <<call, calls, cleanup, prev, cur, rightNext>>

Check(t) ==
    /\ pc[t] = "check"
    /\ IF next[cur[t]].deleting THEN Goto(t, "start") /\ UNCHANGED result ELSE Found(t, cur[t])
    /\ UNCHANGED <<next, call, calls, locals>>

-----------------------------------------------------------------------------
(* insert                                                                  *)

\* Mutant: the CAS of insert writes an unmarked packet.
InsertCas_Unmarks(t) ==
    /\ pc[t] = "insertCas"
    /\ IF next[prev[t]] = prevNext[t]
          THEN /\ next' = [next EXCEPT
                   ![Current(t)] = [node |-> prevNext[t].node, deleting |-> FALSE, stamp |-> 0],
                   ![prev[t]] = Packet(Current(t), FALSE, prevNext[t])]
               /\ Decide(t, TRUE)
               /\ Goto(t, "return")
          ELSE Goto(t, "start") /\ UNCHANGED <<next, result>>
    /\ UNCHANGED <<call, calls, locals>>

\* The packet of the new node is written before the CAS that publishes both.
InsertCas(t) ==
    /\ pc[t] = "insertCas"
    /\ IF next[prev[t]] = prevNext[t]
          THEN /\ next' = [next EXCEPT
                   ![Current(t)] = [node |-> prevNext[t].node, deleting |-> FALSE, stamp |-> 0],
                   ![prev[t]] = Packet(Current(t), prevNext[t].deleting, prevNext[t])]
               /\ Decide(t, TRUE)
               /\ Goto(t, "return")
          ELSE Goto(t, "start") /\ UNCHANGED <<next, result>>
    /\ UNCHANGED <<call, calls, locals>>

-----------------------------------------------------------------------------
(* delete                                                                  *)

\* Mutant: the mark of another delete is not noticed.
Mark_NoTest(t) ==
    /\ pc[t] = "mark"
    /\ rightNext' = [rightNext EXCEPT ![t] = next[cur[t]]]
    /\ Goto(t, "markCas")
    /\ UNCHANGED <<next, history, cleanup, prev, prevNext, cur>>

Mark(t) ==
    /\ pc[t] = "mark"
    /\ rightNext' = [rightNext EXCEPT ![t] = next[cur[t]]]
    /\ Goto(t, IF next[cur[t]].deleting THEN "start" ELSE "markCas")
    /\ UNCHANGED <<next, history, cleanup, prev, prevNext, cur>>

MarkCas(t) ==
    /\ pc[t] = "markCas"
    /\ IF next[cur[t]] = rightNext[t]
          THEN /\ next' = [next EXCEPT ![cur[t]] = Packet(rightNext[t].node, TRUE, rightNext[t])]
               /\ Decide(t, TRUE)
               /\ Goto(t, "successor")
          ELSE Goto(t, "start") /\ UNCHANGED <<next, result>>
    /\ UNCHANGED <<call, calls, locals>>

\* right.next is read again before the CAS that unlinks right.
Successor(t) ==
    /\ pc[t] = "successor"
    /\ rightNext' = [rightNext EXCEPT ![t] = next[cur[t]]]
    /\ Goto(t, "unlinkRight")
    /\ UNCHANGED <<next, history, cleanup, prev, prevNext, cur>>

UnlinkRight(t) ==
    /\ pc[t] = "unlinkRight"
    /\ IF next[prev[t]] = prevNext[t]
          THEN /\ next' = [next EXCEPT
                   ![prev[t]] = Packet(rightNext[t].node, prevNext[t].deleting, prevNext[t])]
               /\ Goto(t, "return")
               /\ UNCHANGED cleanup
          ELSE /\ cleanup' = [cleanup EXCEPT ![t] = TRUE]
               /\ Goto(t, "start")
               /\ UNCHANGED next
    /\ UNCHANGED <<history, prev, prevNext, cur, rightNext>>

-----------------------------------------------------------------------------

Step(t) ==
    \/ Start(t) \/ Scan(t) \/ Skip(t) \/ Advance(t) \/ Unlink(t) \/ Check(t)
    \/ InsertCas(t) \/ Mark(t) \/ MarkCas(t) \/ Successor(t) \/ UnlinkRight(t) \/ Return(t)

Next ==
    \E t \in Thread :
        \/ \E kind \in {"insert", "delete"}, key \in Keys : Begin(t, kind, key)
        \/ Step(t)

Spec == Init /\ [][Next]_vars

\* The scheduler runs every thread; a call is not obliged to happen.
FairSpec == Spec /\ \A t \in Thread : WF_vars(Step(t))

-----------------------------------------------------------------------------

PcLabels == {"idle", "return", "start", "scan", "skip", "advance", "unlink", "check",
             "insertCas", "mark", "markCas", "successor", "unlinkRight"}

\* The type of every variable.
TypeOK ==
    /\ next \in [Op \cup {Head} -> NodePacket \cup {NoPacket}]
    /\ call \in [Op -> [kind : {"insert", "delete"}, key : Keys] \cup {NoCall}]
    /\ result \in [Op -> BOOLEAN \cup {NoCall}]
    /\ calls \in [Thread -> 0 .. MaxOps]
    /\ pc \in [Thread -> PcLabels]
    /\ cleanup \in [Thread -> BOOLEAN]
    /\ prev \in [Thread -> Node \ {Tail}]
    /\ prevNext \in [Thread -> NodePacket]
    /\ cur \in [Thread -> Node \ {Head}]
    /\ rightNext \in [Thread -> NodePacket]

Published(n) == next[n] # NoPacket

\* The set the list stands for: the elements of published, undeleted nodes.
Members == {Value(n) : n \in {m \in Op : Published(m) /\ ~next[m].deleting}}

\* Every published node, reachable or already unlinked, points to a published
\* node with a greater element or to the tail: whatever searches unlink, a chain
\* that a search is following ascends and ends.
Ascending ==
    \A n \in Op \cup {Head} : Published(n) /\ next[n].node # Tail =>
        LET m == next[n].node
        IN  m \in Op /\ Published(m) /\ (n # Head => Value(n) < Value(m))

\* A node is deleted for good: the mark stays through the CAS of others on the
\* marked field, which keep unlinking and inserting behind the node.
DeletedOnce ==
    [][\A n \in Op : Published(n) /\ next[n].deleting => next'[n].deleting]_vars

\* For each element, deletes that succeeded never outnumber the inserts.
Balance ==
    \A k \in Keys :
        Cardinality({o \in Op : result[o] = TRUE /\ call[o] = [kind |-> "delete", key |-> k]})
        <= Cardinality({o \in Op : Published(o) /\ Value(o) = k})

\* Under fair scheduling every call returns.
Completes == \A t \in Thread : pc[t] # "idle" ~> pc[t] = "idle"

=============================================================================
