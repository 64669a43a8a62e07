----------------------- MODULE WaitFreeQueueFastPath -----------------------
(***************************************************************************)
(* The wait-free queue of WaitFreeQueueFastPath.java, one action per       *)
(* access to a shared field.                                               *)
(*                                                                         *)
(* The k-th call of thread t is <<t, k>>; it names the node an add puts in *)
(* the list and the descriptor (OpDescAdd, OpDescPoll) the call announces. *)
(* Heads and PNodes are compared by what they hold: HeadForward shows that *)
(* a head never comes back, and a PNode only notes later nodes (Claimed),  *)
(* so that equal contents mean one object.                                 *)
(***************************************************************************)
EXTENDS Integers, Sequences

CONSTANTS
    Thread,        \* the threads that use the queue
    MaxCalls,      \* bound: calls one thread makes in a behaviour
    MAXFAILURES,   \* rounds of the fast path
    HELPINGDELAY,  \* calls between two looks at another thread
    Dummy,         \* the node the queue is made with
    NoNode,        \* null, for a node
    NoOp,          \* null, for a descriptor
    None,          \* the answer of a call that is not decided
    Empty          \* the null that poll returns

Op == UNION {{t} \X (1 .. MaxCalls[t]) : t \in Thread}
Node == Op \cup {Dummy}
PNode == [node : Node \cup {NoNode}, pending : {0, 1}]
NodeHead == [node : Node, opDesc : Op \cup {NoOp}]

ASSUME QueueConstants ==
    /\ MaxCalls \in [Thread -> Nat]
    /\ MAXFAILURES \in Nat \ {0}
    /\ HELPINGDELAY \in Nat
    /\ {Dummy, NoNode, NoOp, None, Empty} \cap (Thread \X Nat) = {}
    /\ Dummy # NoNode /\ None # Empty
    /\ NoOp \notin PNode

VARIABLES
    next,       \* next[n]: the next field of node n
    head,       \* the NodeHead
    tail,
    state,      \* state[t]: the descriptor thread t announced last
    desc,       \* desc[o]: the pending state of descriptor o, or NoOp
    tids,       \* the threads in the order they drew their index
    curTid,     \* curTid[t], willHelp[t], nextCheck[t]: the HelpRecord of t;
    willHelp,   \*     a phase of one thread stands for one descriptor
    nextCheck,
    kind,       \* kind[o]: "add" or "poll"
    calls,      \* calls[t]: calls thread t has begun
    result,     \* result[o]: what poll o returns, once a fast path took it
    pc,         \* pc[t]: the next access of thread t
    role,       \* role[t]: "fast", or whose descriptor t works on: "help", "self"
    target,     \* target[t]: that descriptor
    trials,     \* trials[t]: failed rounds of the fast path
    frame       \* frame[t]: the locals of one round of a loop

shared == <<next, head, tail, state, desc, tids>>
record == <<curTid, willHelp, nextCheck>>
history == <<kind, calls, result>>
control == <<role, target, trials>>
vars == <<next, head, tail, state, desc, tids, curTid, willHelp, nextCheck,
          kind, calls, result, pc, role, target, trials, frame>>

Current(t) == <<t, calls[t]>>
Adding(t) == kind[Current(t)] = "add"

\* The locals of a round: the NodeHead, last, next and the PNode read.
Frame == [localHead : NodeHead, first : Node, last : Node, next : Node \cup {NoNode},
          pNode : PNode, done : BOOLEAN]
Blank == [localHead |-> [node |-> Dummy, opDesc |-> NoOp], first |-> Dummy,
          last |-> Dummy, next |-> NoNode, pNode |-> [node |-> NoNode, pending |-> 0], done |-> FALSE]

Init ==
    /\ next = [n \in Node |-> NoNode]
    /\ head = [node |-> Dummy, opDesc |-> NoOp]
    /\ tail = Dummy
    /\ state = [t \in Thread |-> NoOp]
    /\ desc = [o \in Op |-> NoOp]
    /\ tids = << >>
    /\ curTid = [t \in Thread |-> -1]
    /\ willHelp = [t \in Thread |-> NoOp]
    /\ nextCheck = [t \in Thread |-> 0]
    /\ kind = [o \in Op |-> "add"]
    /\ calls = [t \in Thread |-> 0]
    /\ result = [o \in Op |-> None]
    /\ pc = [t \in Thread |-> "idle"]
    /\ role = [t \in Thread |-> "fast"]
    /\ target = [t \in Thread |-> NoOp]
    /\ trials = [t \in Thread |-> 0]
    /\ frame = [t \in Thread |-> Blank]

-----------------------------------------------------------------------------

Goto(t, l) == pc' = [pc EXCEPT ![t] = l]
Forget(t) == frame' = [frame EXCEPT ![t] = Blank]

\* casNext, casTail, casHead and casPNode.
CasNext(n, m) == next' = IF next[n] = NoNode THEN [next EXCEPT ![n] = m] ELSE next
CasTail(n, m) == tail' = IF tail = n THEN m ELSE tail
CasHead(n, o, m, p) ==
    head' = IF head = [node |-> n, opDesc |-> o] THEN [node |-> m, opDesc |-> p] ELSE head
CasPNode(o, p, n, b) ==
    desc' = IF desc[o] = p THEN [desc EXCEPT ![o] = [node |-> n, pending |-> b]] ELSE desc

\* Where each loop begins.
FastLoop(t) == IF Adding(t) THEN "addTail" ELSE "pollHead"
HelpLoop(t) == IF kind[target[t]] = "add" THEN "enqPending" ELSE "deqPNode"

\* helpEnq or helpDeq returns: to helpIfNeeded, or to the announced call.
Helped(t) == IF role[t] = "help" THEN "resetTid" ELSE "return"

\* A round is over: of the loop of a helper, or of the fast path.
Again(t) ==
    /\ Forget(t)
    /\ IF role[t] # "fast" THEN Goto(t, HelpLoop(t)) /\ UNCHANGED trials
       ELSE IF trials[t] + 1 < MAXFAILURES
               THEN Goto(t, FastLoop(t)) /\ trials' = [trials EXCEPT ![t] = @ + 1]
       ELSE Goto(t, "announce") /\ trials' = [trials EXCEPT ![t] = 0]

-----------------------------------------------------------------------------
(* helpIfNeeded                                                            *)

Begin(t, k) ==
    /\ pc[t] = "idle"
    /\ calls[t] < MaxCalls[t]
    /\ calls' = [calls EXCEPT ![t] = @ + 1]
    /\ kind' = [kind EXCEPT ![<<t, calls[t] + 1>>] = k]
    /\ role' = [role EXCEPT ![t] = "help"]
    /\ Goto(t, IF curTid[t] = -1 THEN "register" ELSE "help")
    /\ UNCHANGED <<shared, record, result, target, trials, frame>>

\* tidGenerator.getAndIncrement(), and then a new HelpRecord.
Register(t) ==
    /\ pc[t] = "register"
    /\ tids' = Append(tids, t)
    /\ role' = [role EXCEPT ![t] = "new"]
    /\ Goto(t, "resetTid")
    /\ UNCHANGED <<next, head, tail, state, desc, record, history, target, trials, frame>>

Help(t) ==
    LET o == state[tids[curTid[t] + 1]]
        due == nextCheck[t] = 0
    IN  /\ pc[t] = "help"
        /\ nextCheck' = [nextCheck EXCEPT ![t] = @ - 1]
        /\ IF due /\ o # NoOp /\ o = willHelp[t] /\ desc[o].pending = 1
              THEN /\ target' = [target EXCEPT ![t] = o]
                   /\ Goto(t, IF kind[o] = "add" THEN "enqPending" ELSE "deqPNode")
                   /\ UNCHANGED role
              ELSE /\ Goto(t, IF due THEN "resetTid" ELSE FastLoop(t))
                   /\ role' = [role EXCEPT ![t] = IF due THEN "help" ELSE "fast"]
                   /\ UNCHANGED target
        /\ UNCHANGED <<shared, curTid, willHelp, history, trials, frame>>

\* Mutant: a HelpRecord that never moves on to the next thread.
ResetTid_Stuck(t) ==
    /\ pc[t] = "resetTid"
    /\ curTid' = [curTid EXCEPT ![t] = IF @ = -1 THEN Len(tids) - 1 ELSE @]
    /\ target' = [target EXCEPT ![t] = NoOp]
    /\ Goto(t, "resetPhase")
    /\ UNCHANGED <<shared, willHelp, nextCheck, history, role, trials, frame>>

ResetTid(t) ==
    /\ pc[t] = "resetTid"
    /\ curTid' = [curTid EXCEPT ![t] = (@ + 1) % Len(tids)]
    /\ target' = [target EXCEPT ![t] = NoOp]
    /\ Goto(t, "resetPhase")
    /\ UNCHANGED <<shared, willHelp, nextCheck, history, role, trials, frame>>

\* A HelpRecord that is new is then looked at like any other.
ResetPhase(t) ==
    /\ pc[t] = "resetPhase"
    /\ willHelp' = [willHelp EXCEPT ![t] = state[tids[curTid[t] + 1]]]
    /\ nextCheck' = [nextCheck EXCEPT ![t] = HELPINGDELAY]
    /\ Goto(t, IF role[t] = "new" THEN "help" ELSE FastLoop(t))
    /\ role' = [role EXCEPT ![t] = IF role[t] = "new" THEN "help" ELSE "fast"]
    /\ UNCHANGED <<shared, curTid, history, target, trials, frame>>

-----------------------------------------------------------------------------
(* add                                                                     *)

AddTail(t) ==
    /\ pc[t] = "addTail"
    /\ frame' = [frame EXCEPT ![t].last = tail]
    /\ Goto(t, "addNext")
    /\ UNCHANGED <<shared, record, history, control>>

AddNext(t) ==
    /\ pc[t] = "addNext"
    /\ frame' = [frame EXCEPT ![t].next = next[frame[t].last]]
    /\ Goto(t, "addCheck")
    /\ UNCHANGED <<shared, record, history, control>>

\* fixTail: a node of the fast path is passed at once, an announced one only
\* by helpFinishEnq.
FixTail(t, n) ==
    /\ Goto(t, IF desc[n] = NoOp THEN "fixTail" ELSE "finTail")
    /\ UNCHANGED trials

AddCheck(t) ==
    /\ pc[t] = "addCheck"
    /\ IF frame[t].last # tail THEN Again(t)
       ELSE /\ UNCHANGED frame
            /\ IF frame[t].next = NoNode THEN Goto(t, "addCas") /\ UNCHANGED trials
               ELSE FixTail(t, frame[t].next)
    /\ UNCHANGED <<shared, record, history, role, target>>

AddCas(t) ==
    /\ pc[t] = "addCas"
    /\ CasNext(frame[t].last, Current(t))
    /\ IF next[frame[t].last] = NoNode THEN Goto(t, "addSwing") /\ UNCHANGED <<trials, frame>>
       ELSE Again(t)
    /\ UNCHANGED <<head, tail, state, desc, tids, record, history, role, target>>

AddSwing(t) ==
    /\ pc[t] = "addSwing"
    /\ CasTail(frame[t].last, Current(t))
    /\ Goto(t, "return")
    /\ UNCHANGED <<next, head, state, desc, tids, record, history, control, frame>>

FixTailCas(t) ==
    /\ pc[t] = "fixTail"
    /\ CasTail(frame[t].last, frame[t].next)
    /\ Again(t)
    /\ UNCHANGED <<next, head, state, desc, tids, record, history, role, target>>

-----------------------------------------------------------------------------
(* wfEnq and wfDeq                                                         *)

Announce(t) ==
    /\ pc[t] = "announce"
    /\ desc' = [desc EXCEPT ![Current(t)] =
                   [node |-> IF Adding(t) THEN Current(t) ELSE NoNode, pending |-> 1]]
    /\ state' = [state EXCEPT ![t] = Current(t)]
    /\ role' = [role EXCEPT ![t] = "self"]
    /\ target' = [target EXCEPT ![t] = Current(t)]
    /\ Goto(t, IF Adding(t) THEN "enqPending" ELSE "deqPNode")
    /\ UNCHANGED <<next, head, tail, tids, record, history, trials, frame>>

\* The answer of a poll that was announced: what follows the node its
\* descriptor ended with.
Answer(o) ==
    IF desc[o].node = NoNode THEN Empty ELSE next[desc[o].node]

Return(t) ==
    /\ pc[t] = "return"
    /\ result' = IF role[t] = "self" /\ ~Adding(t)
                    THEN [result EXCEPT ![Current(t)] = Answer(Current(t))] ELSE result
    /\ trials' = [trials EXCEPT ![t] = 0]
    /\ target' = [target EXCEPT ![t] = NoOp]
    /\ role' = [role EXCEPT ![t] = "fast"]
    /\ Forget(t)
    /\ Goto(t, "idle")
    /\ UNCHANGED <<shared, record, kind, calls>>

-----------------------------------------------------------------------------
(* helpEnq                                                                 *)

EnqPending(t) ==
    /\ pc[t] = "enqPending"
    /\ Goto(t, IF desc[target[t]].pending = 1 THEN "enqTail" ELSE Helped(t))
    /\ UNCHANGED <<shared, record, history, control, frame>>

EnqTail(t) ==
    /\ pc[t] = "enqTail"
    /\ frame' = [frame EXCEPT ![t].last = tail]
    /\ Goto(t, "enqNext")
    /\ UNCHANGED <<shared, record, history, control>>

EnqNext(t) ==
    /\ pc[t] = "enqNext"
    /\ frame' = [frame EXCEPT ![t].next = next[frame[t].last]]
    /\ Goto(t, "enqCheck")
    /\ UNCHANGED <<shared, record, history, control>>

EnqCheck(t) ==
    /\ pc[t] = "enqCheck"
    /\ IF frame[t].last # tail THEN Again(t)
       ELSE /\ Goto(t, IF frame[t].next = NoNode THEN "enqStill" ELSE "finTail")
            /\ UNCHANGED <<trials, frame>>
    /\ UNCHANGED <<shared, record, history, role, target>>

\* Mutant: pending is not read again after tail.
EnqStill_Skip(t) ==
    /\ pc[t] = "enqStill"
    /\ Goto(t, "enqCas")
    /\ UNCHANGED <<shared, record, history, control, frame>>

\* pending is read again after tail.
EnqStill(t) ==
    /\ pc[t] = "enqStill"
    /\ IF desc[target[t]].pending = 1 THEN Goto(t, "enqCas") /\ UNCHANGED <<trials, frame>>
       ELSE Again(t)
    /\ UNCHANGED <<shared, record, history, role, target>>

EnqCas(t) ==
    /\ pc[t] = "enqCas"
    /\ CasNext(frame[t].last, target[t])
    /\ IF next[frame[t].last] = NoNode
          THEN /\ Goto(t, "finTail")
               /\ frame' = [frame EXCEPT ![t].done = TRUE]
               /\ UNCHANGED trials
          ELSE Again(t)
    /\ UNCHANGED <<head, tail, state, desc, tids, record, history, role, target>>

-----------------------------------------------------------------------------
(* helpFinishEnq                                                           *)

\* helpFinishEnq returns: helpEnq returns too if it came from its own CAS.
Finished(t) ==
    IF frame[t].done THEN Goto(t, Helped(t)) /\ Forget(t) /\ UNCHANGED trials ELSE Again(t)

FinTail(t) ==
    /\ pc[t] = "finTail"
    /\ frame' = [frame EXCEPT ![t].last = tail]
    /\ Goto(t, "finNext")
    /\ UNCHANGED <<shared, record, history, control>>

FinNext(t) ==
    LET n == next[frame[t].last]
    IN  /\ pc[t] = "finNext"
        /\ IF n = NoNode THEN Finished(t)
           ELSE /\ frame' = [frame EXCEPT ![t].next = n]
                /\ Goto(t, IF desc[n] = NoOp THEN "finCas" ELSE "finCheck")
                /\ UNCHANGED trials
        /\ UNCHANGED <<shared, record, history, role, target>>

FinCheck(t) ==
    /\ pc[t] = "finCheck"
    /\ IF frame[t].last = tail THEN Goto(t, "finPending") /\ UNCHANGED <<trials, frame>>
       ELSE Finished(t)
    /\ UNCHANGED <<shared, record, history, role, target>>

FinPending(t) ==
    /\ pc[t] = "finPending"
    /\ desc' = [desc EXCEPT ![frame[t].next].pending = 0]
    /\ Goto(t, "finCas")
    /\ UNCHANGED <<next, head, tail, state, tids, record, history, control, frame>>

\* Mutant: only a node of the fast path is passed.
FinCas_NoSwing(t) ==
    /\ pc[t] = "finCas"
    /\ IF desc[frame[t].next] = NoOp THEN CasTail(frame[t].last, frame[t].next)
                                     ELSE UNCHANGED tail
    /\ Finished(t)
    /\ UNCHANGED <<next, head, state, desc, tids, record, history, role, target>>

FinCas(t) ==
    /\ pc[t] = "finCas"
    /\ CasTail(frame[t].last, frame[t].next)
    /\ Finished(t)
    /\ UNCHANGED <<next, head, state, desc, tids, record, history, role, target>>

-----------------------------------------------------------------------------
(* poll                                                                    *)

PollHead(t) ==
    /\ pc[t] = "pollHead"
    /\ frame' = [frame EXCEPT ![t].localHead = head]
    /\ Goto(t, "pollTail")
    /\ UNCHANGED <<shared, record, history, control>>

PollTail(t) ==
    /\ pc[t] = "pollTail"
    /\ frame' = [frame EXCEPT ![t].last = tail]
    /\ Goto(t, "pollNext")
    /\ UNCHANGED <<shared, record, history, control>>

\* Mutant: the head is read again after the tail.
PollNext_FreshHead(t) ==
    /\ pc[t] = "pollNext"
    /\ frame' = [frame EXCEPT ![t].localHead = head, ![t].next = next[head.node]]
    /\ Goto(t, "pollCheck")
    /\ UNCHANGED <<shared, record, history, control>>

PollNext(t) ==
    /\ pc[t] = "pollNext"
    /\ frame' = [frame EXCEPT ![t].next = next[frame[t].localHead.node]]
    /\ Goto(t, "pollCheck")
    /\ UNCHANGED <<shared, record, history, control>>

PollCheck(t) ==
    LET f == frame[t]
        atEnd == f.localHead.node = f.last
    IN  /\ pc[t] = "pollCheck"
        /\ \/ /\ f.localHead # head
              /\ Again(t)
              /\ UNCHANGED result
           \/ /\ f.localHead = head /\ atEnd /\ f.next = NoNode
              /\ result' = [result EXCEPT ![Current(t)] = Empty]
              /\ Goto(t, "return")
              /\ UNCHANGED <<trials, frame>>
           \/ /\ f.localHead = head /\ atEnd /\ f.next # NoNode
              /\ FixTail(t, f.next)
              /\ UNCHANGED <<result, frame>>
           \/ /\ f.localHead = head /\ ~atEnd
              /\ Goto(t, IF f.localHead.opDesc = NoOp THEN "pollCas" ELSE "finHead")
              /\ UNCHANGED <<result, trials, frame>>
        /\ UNCHANGED <<shared, record, kind, calls, role, target>>

PollCas(t) ==
    LET first == frame[t].localHead.node
    IN  /\ pc[t] = "pollCas"
        /\ CasHead(first, NoOp, frame[t].next, NoOp)
        /\ IF head = [node |-> first, opDesc |-> NoOp]
              THEN /\ result' = [result EXCEPT ![Current(t)] = frame[t].next]
                   /\ Goto(t, "return")
                   /\ UNCHANGED <<trials, frame>>
              ELSE Again(t) /\ UNCHANGED result
        /\ UNCHANGED <<next, tail, state, desc, tids, record, kind, calls, role, target>>

-----------------------------------------------------------------------------
(* helpDeq                                                                 *)

DeqPNode(t) ==
    LET p == desc[target[t]]
    IN  /\ pc[t] = "deqPNode"
        /\ IF p.pending = 1
              THEN frame' = [frame EXCEPT ![t].pNode = p] /\ Goto(t, "deqHead")
              ELSE Goto(t, Helped(t)) /\ UNCHANGED frame
        /\ UNCHANGED <<shared, record, history, control>>

DeqHead(t) ==
    /\ pc[t] = "deqHead"
    /\ frame' = [frame EXCEPT ![t].localHead = head, ![t].first = head.node]
    /\ Goto(t, "deqTail")
    /\ UNCHANGED <<shared, record, history, control>>

DeqTail(t) ==
    /\ pc[t] = "deqTail"
    /\ frame' = [frame EXCEPT ![t].last = tail]
    /\ Goto(t, "deqNext")
    /\ UNCHANGED <<shared, record, history, control>>

DeqNext(t) ==
    /\ pc[t] = "deqNext"
    /\ frame' = [frame EXCEPT ![t].next = next[frame[t].localHead.node]]
    /\ Goto(t, "deqCheck")
    /\ UNCHANGED <<shared, record, history, control>>

\* "localHead == head" is tested twice in a row on the way to the claim; the
\* second test is the one that matters.
DeqCheckIf(t, claim) ==
    LET f == frame[t]
    IN  /\ pc[t] = "deqCheck"
        /\ IF f.localHead # head THEN Again(t)
           ELSE /\ Goto(t, IF f.first = f.last
                              THEN IF f.next = NoNode THEN "deqEmpty" ELSE "finTail"
                           ELSE IF f.localHead.opDesc # NoOp THEN "finHead"
                           ELSE IF claim THEN "deqClaim"
                           ELSE "deqStill")
                /\ UNCHANGED <<trials, frame>>
        /\ UNCHANGED <<shared, record, history, role, target>>

\* Mutant: the descriptor goes into the head before it notes a node.
DeqCheck_NoClaim(t) == DeqCheckIf(t, FALSE)

DeqCheck(t) == DeqCheckIf(t, frame[t].first # frame[t].pNode.node)

DeqEmpty(t) ==
    /\ pc[t] = "deqEmpty"
    /\ IF frame[t].last = tail THEN Goto(t, "deqNull") /\ UNCHANGED <<trials, frame>>
       ELSE Again(t)
    /\ UNCHANGED <<shared, record, history, role, target>>

DeqNull(t) ==
    /\ pc[t] = "deqNull"
    /\ CasPNode(target[t], frame[t].pNode, NoNode, 0)
    /\ IF desc[target[t]] = frame[t].pNode
          THEN Goto(t, Helped(t)) /\ Forget(t) /\ UNCHANGED trials
          ELSE Again(t)
    /\ UNCHANGED <<next, head, tail, state, tids, record, history, role, target>>

\* The descriptor notes the node it is going to take the successor of.
DeqClaim(t) ==
    /\ pc[t] = "deqClaim"
    /\ CasPNode(target[t], frame[t].pNode, frame[t].localHead.node, 1)
    /\ Goto(t, "deqReread")
    /\ UNCHANGED <<next, head, tail, state, tids, record, history, control, frame>>

\* Another helper may have claimed a later node: first is read again.
DeqReread(t) ==
    LET p == desc[target[t]]
    IN  /\ pc[t] = "deqReread"
        /\ IF p.pending = 1
              THEN /\ frame' = [frame EXCEPT ![t].pNode = p, ![t].first = p.node]
                   /\ Goto(t, "deqStill")
              ELSE Goto(t, Helped(t)) /\ Forget(t)
        /\ UNCHANGED <<shared, record, history, control>>

DeqStill(t) ==
    /\ pc[t] = "deqStill"
    /\ Goto(t, IF frame[t].localHead = head THEN "deqCas" ELSE "finHead")
    /\ UNCHANGED <<shared, record, history, control, frame>>

\* Mutant: the CAS compares the node of the head and not its descriptor.
DeqCas_AnyDesc(t) ==
    /\ pc[t] = "deqCas"
    /\ CasHead(frame[t].first, head.opDesc, frame[t].first, target[t])
    /\ Goto(t, "finHead")
    /\ UNCHANGED <<next, tail, state, desc, tids, record, history, control, frame>>

\* The descriptor is put into the head: the front element is its.
DeqCas(t) ==
    /\ pc[t] = "deqCas"
    /\ CasHead(frame[t].first, NoOp, frame[t].first, target[t])
    /\ Goto(t, "finHead")
    /\ UNCHANGED <<next, tail, state, desc, tids, record, history, control, frame>>

-----------------------------------------------------------------------------
(* helpFinishDeq                                                           *)

FinHead(t) ==
    /\ pc[t] = "finHead"
    /\ IF head.opDesc = NoOp THEN Again(t)
       ELSE /\ frame' = [frame EXCEPT ![t].localHead = head]
            /\ Goto(t, "finHeadNext")
            /\ UNCHANGED trials
    /\ UNCHANGED <<shared, record, history, role, target>>

FinHeadNext(t) ==
    /\ pc[t] = "finHeadNext"
    /\ frame' = [frame EXCEPT ![t].next = next[frame[t].localHead.node]]
    /\ Goto(t, "finRead")
    /\ UNCHANGED <<shared, record, history, control>>

\* Mutant: the head moves on and the descriptor stays pending.
FinRead_LeavePending(t) ==
    /\ pc[t] = "finRead"
    /\ Goto(t, "finDeq")
    /\ UNCHANGED <<shared, record, history, control, frame>>

FinRead(t) ==
    LET p == desc[frame[t].localHead.opDesc]
    IN  /\ pc[t] = "finRead"
        /\ frame' = [frame EXCEPT ![t].pNode = p]
        /\ Goto(t, IF p.pending = 1 THEN "finDone" ELSE "finDeq")
        /\ UNCHANGED <<shared, record, history, control>>

FinDone(t) ==
    /\ pc[t] = "finDone"
    /\ CasPNode(frame[t].localHead.opDesc, frame[t].pNode, frame[t].pNode.node, 0)
    /\ Goto(t, "finDeq")
    /\ UNCHANGED <<next, head, tail, state, tids, record, history, control, frame>>

\* The test of "localHead == head" before casHead is part of what casHead tests.
FinDeq(t) ==
    LET f == frame[t]
    IN  /\ pc[t] = "finDeq"
        /\ IF f.next # NoNode
              THEN CasHead(f.localHead.node, f.localHead.opDesc, f.next, NoOp)
              ELSE UNCHANGED head
        /\ Again(t)
        /\ UNCHANGED <<next, tail, state, desc, tids, record, history, role, target>>

-----------------------------------------------------------------------------

Step(t) ==
    \/ Register(t) \/ Help(t) \/ ResetTid(t) \/ ResetPhase(t) \/ Announce(t) \/ Return(t)
    \/ AddTail(t) \/ AddNext(t) \/ AddCheck(t) \/ AddCas(t) \/ AddSwing(t) \/ FixTailCas(t)
    \/ EnqPending(t) \/ EnqTail(t) \/ EnqNext(t) \/ EnqCheck(t) \/ EnqStill(t) \/ EnqCas(t)
    \/ FinTail(t) \/ FinNext(t) \/ FinCheck(t) \/ FinPending(t) \/ FinCas(t)
    \/ PollHead(t) \/ PollTail(t) \/ PollNext(t) \/ PollCheck(t) \/ PollCas(t)
    \/ DeqPNode(t) \/ DeqHead(t) \/ DeqTail(t) \/ DeqNext(t) \/ DeqCheck(t)
    \/ DeqEmpty(t) \/ DeqNull(t) \/ DeqClaim(t) \/ DeqReread(t) \/ DeqStill(t) \/ DeqCas(t)
    \/ FinHead(t) \/ FinHeadNext(t) \/ FinRead(t) \/ FinDone(t) \/ FinDeq(t)

Next == \E t \in Thread : (\E k \in {"add", "poll"} : Begin(t, k)) \/ Step(t)

Spec == Init /\ [][Next]_vars

-----------------------------------------------------------------------------

PcLabels == {"idle", "register", "help", "resetTid", "resetPhase", "announce", "return",
             "addTail", "addNext", "addCheck", "addCas", "addSwing", "fixTail",
             "enqPending", "enqTail", "enqNext", "enqCheck", "enqStill", "enqCas",
             "finTail", "finNext", "finCheck", "finPending", "finCas",
             "pollHead", "pollTail", "pollNext", "pollCheck", "pollCas",
             "deqPNode", "deqHead", "deqTail", "deqNext", "deqCheck", "deqEmpty",
             "deqNull", "deqClaim", "deqReread", "deqStill", "deqCas",
             "finHead", "finHeadNext", "finRead", "finDone", "finDeq"}

\* The type of every variable.
TypeOK ==
    /\ next \in [Node -> Op \cup {NoNode}]
    /\ head \in NodeHead
    /\ tail \in Node
    /\ state \in [Thread -> Op \cup {NoOp}]
    /\ desc \in [Op -> PNode \cup {NoOp}]
    /\ tids \in Seq(Thread)
    /\ curTid \in [Thread -> -1 .. Len(tids) - 1]
    /\ willHelp \in [Thread -> Op \cup {NoOp}]
    /\ nextCheck \in [Thread -> -1 .. HELPINGDELAY]
    /\ kind \in [Op -> {"add", "poll"}]
    /\ calls \in [Thread -> Nat]
    /\ result \in [Op -> Op \cup {None, Empty}]
    /\ pc \in [Thread -> PcLabels]
    /\ role \in [Thread -> {"new", "help", "fast", "self"}]
    /\ target \in [Thread -> Op \cup {NoOp}]
    /\ trials \in [Thread -> 0 .. MAXFAILURES - 1]
    /\ frame \in [Thread -> Frame]

\* No node is linked twice, though several helpers try to link it: one that
\* reads pending after tail is too late for a node the tail has passed.
LinkedOnce ==
    \A m, n \in Node : next[m] = next[n] /\ next[m] # NoNode => m = n

\* While a descriptor is in the head it is tied to that head's node: no late
\* helper turns it to another node, or to the answer "empty".
Claimed == head.opDesc # NoOp => desc[head.opDesc].node = head.node

\* A head that holds no descriptor takes one in or moves on by one node, and one
\* that holds a descriptor moves on: no head comes back, whoever moves it.
HeadForward ==
    [][head' # head =>
          \/ head.opDesc = NoOp /\ head'.node = head.node /\ next[head.node] # NoNode
          \/ head'.opDesc = NoOp /\ head'.node = next[head.node]]_vars

=============================================================================
