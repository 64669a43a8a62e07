-------------------------- MODULE WaitFreeCounter --------------------------
(***************************************************************************)
(* The wait-free counter of WaitFreeGetAndIncrement.java, one action per   *)
(* access to shared memory.                                                *)
(*                                                                         *)
(* A ValueObj is a record.  Java compares and swaps references, and the    *)
(* collector never reuses one that is still held, so "stamp" stands for    *)
(* the identity of the object: it is the number of the successful CAS that *)
(* published it.  An object whose CAS fails is garbage at once and needs   *)
(* no identity.  The ThreadObj a thread announces for its k-th call is     *)
(* named by the call, <<t, k>>; the null reference is NoThread.            *)
(*                                                                         *)
(* Two calls of Thread.yield() after a failed CAS and the bigYields loop   *)
(* before the slow path change no state and are left out.                  *)
(***************************************************************************)
EXTENDS Integers

CONSTANTS
    N,          \* number of threads (N in the code)
    MaxFast,    \* attempts on the fast path before announcing (MAX)
    MaxOps,     \* bound: calls one thread makes in a behaviour
    Adds,       \* the amounts a caller may pass as "add"
    NoTicket,   \* the result of a call that has not decided it
    NoThread,   \* the null ThreadObj reference
    NoValue     \* the null ValueObj reference

ASSUME WaitFreeAssumption ==
    /\ N \in Nat \ {0}
    /\ MaxFast \in Nat \ {0}
    /\ MaxOps \in Nat
    /\ Adds \subseteq Nat
    /\ NoTicket \notin Nat
    /\ NoThread \notin (0 .. N-1) \X (1 .. MaxOps)
    /\ NoValue \notin [value : Nat, thr : ((0 .. N-1) \X (1 .. MaxOps)) \cup {NoThread},
                       stamp : Nat]

Thread == 0 .. N-1

\* The calls of a behaviour, and so the ThreadObj instances.
Op == Thread \X (1 .. MaxOps)

ValueObj == [value : Nat, thr : Op \cup {NoThread}, stamp : Nat]

VARIABLES
    valueObj,    \* the shared reference (valueObj)
    threadObjs,  \* threadObjs[t]: number of the call t announces, 0 for null
    tobj,        \* tobj[o]: the valueObj field of ThreadObj o
    req,         \* req[o]: the "add" argument of call o (the add field of o)
    index,       \* index[t]: states[t].index modulo N, the next thread to help
    calls,       \* calls[t]: calls thread t has begun
    pc,          \* pc[t]: the next access of thread t
    role,        \* why t runs help(): "fast" not at all, "assist", "self"
    back,        \* where helpTransfer/helpValueTransfer returns to
    count,       \* count[t]: fast attempts left
    cur,         \* cur[t]: the local valueObj_
    helpIndex,   \* helpIndex[t]: the parameter of help()
    helpObj,     \* helpObj[t]: the local helpObj of help()
    result       \* result[o]: the value call o returns

shared == <<valueObj, threadObjs, tobj>>
locals == <<role, back, count, cur, helpIndex, helpObj, index>>
history == <<req, calls, result>>
vars == <<valueObj, threadObjs, tobj, req, index, calls, pc, role, back, count,
          cur, helpIndex, helpObj, result>>

Current(t) == <<t, calls[t]>>

Goto(t, l) == pc' = [pc EXCEPT ![t] = l]

\* A fresh ValueObj, published by the CAS that replaces the current one.
Fresh(v, o) == [value |-> v, thr |-> o, stamp |-> valueObj.stamp + 1]

Init ==
    /\ valueObj = [value |-> 0, thr |-> NoThread, stamp |-> 0]
    /\ threadObjs = [t \in Thread |-> 0]
    /\ tobj = [o \in Op |-> NoValue]
    /\ req = [o \in Op |-> 0]
    /\ index = [t \in Thread |-> 0]
    /\ calls = [t \in Thread |-> 0]
    /\ pc = [t \in Thread |-> "idle"]
    /\ role = [t \in Thread |-> "fast"]
    /\ back = [t \in Thread |-> "fast"]
    /\ count = [t \in Thread |-> 0]
    /\ cur = [t \in Thread |-> valueObj]
    /\ helpIndex = [t \in Thread |-> 0]
    /\ helpObj = [t \in Thread |-> NoThread]
    /\ result = [o \in Op |-> NoTicket]

-----------------------------------------------------------------------------
(* getAndIncrement: the fast path.                                         *)

Invoke(t, a) ==
    /\ pc[t] = "idle"
    /\ calls[t] < MaxOps
    /\ calls' = [calls EXCEPT ![t] = @ + 1]
    /\ req' = [req EXCEPT ![<<t, calls[t] + 1>>] = a]
    /\ count' = [count EXCEPT ![t] = MaxFast]
    /\ role' = [role EXCEPT ![t] = "fast"]
    /\ Goto(t, "fastRead")
    /\ UNCHANGED <<shared, index, back, cur, helpIndex, helpObj, result>>

FastRead(t) ==
    /\ pc[t] = "fastRead"
    /\ cur' = [cur EXCEPT ![t] = valueObj]
    /\ IF valueObj.thr = NoThread
          THEN Goto(t, "fastCas") /\ UNCHANGED back
          ELSE Goto(t, "xferTest") /\ back' = [back EXCEPT ![t] = "fast"]
    /\ UNCHANGED <<shared, history, role, count, helpIndex, helpObj, index>>

\* Mutant: the attempts are counted one too far.
Attempted_OffByOne(t) ==
    /\ count' = [count EXCEPT ![t] = @ - 1]
    /\ Goto(t, IF count[t] = 0 THEN "announce" ELSE "fastRead")

\* The end of one attempt: "if(--count == 0) break;".
Attempted(t) ==
    /\ count' = [count EXCEPT ![t] = @ - 1]
    /\ Goto(t, IF count[t] = 1 THEN "announce" ELSE "fastRead")

\* The CAS of the fast path, when it succeeds exactly if "hit".  On success the
\* call is decided; STEPS = 0, so every success goes on to help one thread.
FastCasIf(t, hit) ==
    /\ pc[t] = "fastCas"
    /\ IF hit
          THEN /\ valueObj' = Fresh(cur[t].value + req[Current(t)], NoThread)
               /\ result' = [result EXCEPT ![Current(t)] = cur[t].value]
               /\ role' = [role EXCEPT ![t] = "assist"]
               /\ helpIndex' = [helpIndex EXCEPT ![t] = index[t]]
               /\ Goto(t, "helpGet")
               /\ UNCHANGED count
          ELSE /\ Attempted(t)
               /\ UNCHANGED <<valueObj, result, role, helpIndex>>
    /\ UNCHANGED <<threadObjs, tobj, req, calls, back, cur, helpObj, index>>

\* Mutant: a call that succeeds on the fast path helps nobody.
FastCas_NoHelp(t) ==
    /\ pc[t] = "fastCas"
    /\ IF valueObj = cur[t]
          THEN /\ valueObj' = Fresh(cur[t].value + req[Current(t)], NoThread)
               /\ result' = [result EXCEPT ![Current(t)] = cur[t].value]
               /\ Goto(t, "return")
               /\ UNCHANGED count
          ELSE Attempted(t) /\ UNCHANGED <<valueObj, result>>
    /\ UNCHANGED <<threadObjs, tobj, req, calls, role, back, cur, helpIndex, helpObj, index>>

FastCas(t) == FastCasIf(t, valueObj = cur[t])

-----------------------------------------------------------------------------
(* getAndIncrement: the slow path.                                         *)

Announce(t) ==
    /\ pc[t] = "announce"
    /\ threadObjs' = [threadObjs EXCEPT ![t] = calls[t]]
    /\ role' = [role EXCEPT ![t] = "self"]
    /\ helpIndex' = [helpIndex EXCEPT ![t] = t]
    /\ Goto(t, "helpGet")
    /\ UNCHANGED <<valueObj, tobj, history, back, count, cur, helpObj, index>>

Retract(t) ==
    /\ pc[t] = "retract"
    /\ threadObjs' = [threadObjs EXCEPT ![t] = 0]
    /\ result' = [result EXCEPT ![Current(t)] = cur[t].value]
    /\ Goto(t, "return")
    /\ UNCHANGED <<valueObj, tobj, req, calls, locals>>

Return(t) ==
    /\ pc[t] = "return"
    /\ Goto(t, "idle")
    /\ UNCHANGED <<shared, history, locals>>

-----------------------------------------------------------------------------
(* help(helpIndex)                                                         *)

\* help returns to its caller: an assisting call moves on to the next index.
HelpDone(t) ==
    IF role[t] = "assist"
       THEN Goto(t, "return") /\ index' = [index EXCEPT ![t] = (@ + 1) % N]
       ELSE Goto(t, "retract") /\ UNCHANGED index

HelpGet(t) ==
    /\ pc[t] = "helpGet"
    /\ IF threadObjs[helpIndex[t]] = 0
          THEN HelpDone(t) /\ UNCHANGED helpObj
          ELSE /\ helpObj' = [helpObj EXCEPT ![t] = <<helpIndex[t], threadObjs[helpIndex[t]]>>]
               /\ Goto(t, "helpRead")
               /\ UNCHANGED index
    /\ UNCHANGED <<shared, history, role, back, count, cur, helpIndex>>

HelpRead(t) ==
    /\ pc[t] = "helpRead"
    /\ cur' = [cur EXCEPT ![t] = valueObj]
    /\ Goto(t, "helpTest")
    /\ UNCHANGED <<shared, history, role, back, count, helpIndex, helpObj, index>>

\* The loop condition, read after valueObj_ was (the comment of the code
\* insists on that order), and the test of valueObj_.threadObj.
HelpTest(t) ==
    /\ pc[t] = "helpTest"
    /\ IF tobj[helpObj[t]] # NoValue
          THEN Goto(t, "helpTake") /\ UNCHANGED back
          ELSE IF cur[t].thr = NoThread
                  THEN Goto(t, "helpCas") /\ UNCHANGED back
                  ELSE Goto(t, "xferTest") /\ back' = [back EXCEPT ![t] = "help"]
    /\ UNCHANGED <<shared, history, role, count, cur, helpIndex, helpObj, index>>

\* Step 1 of the comment: the CAS from v, a ValueObj with no ThreadObj, anchors
\* its value to helpObj.
HelpCasFrom(t, v) ==
    /\ pc[t] = "helpCas"
    /\ IF valueObj = v /\ v.thr = NoThread
          THEN /\ valueObj' = Fresh(v.value, helpObj[t])
               /\ cur' = [cur EXCEPT ![t] = valueObj']
               /\ back' = [back EXCEPT ![t] = "help"]
               /\ Goto(t, "xferTest")
          ELSE /\ Goto(t, "helpRead")
               /\ UNCHANGED <<valueObj, cur, back>>
    /\ UNCHANGED <<threadObjs, tobj, history, role, count, helpIndex, helpObj, index>>

\* Mutant: valueObj_ is read after the loop condition and not before it.
HelpCas_LateRead(t) == HelpCasFrom(t, valueObj)

HelpCas(t) == HelpCasFrom(t, cur[t])

HelpTake(t) ==
    /\ pc[t] = "helpTake"
    /\ cur' = [cur EXCEPT ![t] = tobj[helpObj[t]]]
    /\ back' = [back EXCEPT ![t] = "final"]
    /\ Goto(t, "valTest")
    /\ UNCHANGED <<shared, history, role, count, helpIndex, helpObj, index>>

-----------------------------------------------------------------------------
(* helpTransfer and helpValueTransfer                                      *)

\* Mutant: step 3 without step 2.
XferTest_SkipStep2(t) ==
    /\ pc[t] = "xferTest"
    /\ Goto(t, "valTest")
    /\ UNCHANGED <<shared, history, locals>>

XferTest(t) ==
    /\ pc[t] = "xferTest"
    /\ Goto(t, IF tobj[cur[t].thr] = NoValue THEN "xferCas" ELSE "valTest")
    /\ UNCHANGED <<shared, history, locals>>

\* Step 2: hand the anchored value to the ThreadObj, once.
XferCas(t) ==
    /\ pc[t] = "xferCas"
    /\ tobj' = [tobj EXCEPT ![cur[t].thr] = IF @ = NoValue THEN cur[t] ELSE @]
    /\ Goto(t, "valTest")
    /\ UNCHANGED <<valueObj, threadObjs, history, locals>>

\* Where helpValueTransfer returns to, by its caller.
Transferred(t) ==
    \/ /\ back[t] = "fast"
       /\ Attempted(t)
       /\ UNCHANGED index
    \/ /\ back[t] = "help"
       /\ Goto(t, "helpRead")
       /\ UNCHANGED <<count, index>>
    \/ /\ back[t] = "final"
       /\ HelpDone(t)
       /\ UNCHANGED count

\* Mutant: step 3 is left to others.
ValTest_SkipStep3(t) ==
    /\ pc[t] = "valTest"
    /\ Transferred(t)
    /\ UNCHANGED <<shared, history, role, back, cur, helpIndex, helpObj>>

ValTest(t) ==
    /\ pc[t] = "valTest"
    /\ IF valueObj = cur[t]
          THEN Goto(t, "valCas") /\ UNCHANGED <<count, index>>
          ELSE Transferred(t)
    /\ UNCHANGED <<shared, history, role, back, cur, helpIndex, helpObj>>

\* Step 3: raise the value and drop the ThreadObj.
ValCas(t) ==
    /\ pc[t] = "valCas"
    /\ valueObj' = IF valueObj = cur[t]
                      THEN Fresh(cur[t].value + req[cur[t].thr], NoThread)
                      ELSE valueObj
    /\ Transferred(t)
    /\ UNCHANGED <<threadObjs, tobj, history, role, back, cur, helpIndex, helpObj>>

-----------------------------------------------------------------------------

Step(t) ==
    \/ FastRead(t) \/ FastCas(t) \/ Announce(t) \/ Retract(t) \/ Return(t)
    \/ HelpGet(t) \/ HelpRead(t) \/ HelpTest(t) \/ HelpCas(t) \/ HelpTake(t)
    \/ XferTest(t) \/ XferCas(t) \/ ValTest(t) \/ ValCas(t)

Next == \E t \in Thread : (\E a \in Adds : Invoke(t, a)) \/ Step(t)

Spec == Init /\ [][Next]_vars

-----------------------------------------------------------------------------

PcLabels == {"idle", "fastRead", "fastCas", "announce", "retract", "return",
             "helpGet", "helpRead", "helpTest", "helpCas", "helpTake",
             "xferTest", "xferCas", "valTest", "valCas"}

\* The type of every variable of the counter.
TypeOK ==
    /\ valueObj \in ValueObj
    /\ threadObjs \in [Thread -> 0 .. MaxOps]
    /\ tobj \in [Op -> ValueObj \cup {NoValue}]
    /\ req \in [Op -> Nat]
    /\ index \in [Thread -> Thread]
    /\ calls \in [Thread -> 0 .. MaxOps]
    /\ pc \in [Thread -> PcLabels]
    /\ role \in [Thread -> {"fast", "assist", "self"}]
    /\ back \in [Thread -> {"fast", "help", "final"}]
    /\ count \in [Thread -> 0 .. MaxFast]
    /\ cur \in [Thread -> ValueObj]
    /\ helpIndex \in [Thread -> Thread]
    /\ helpObj \in [Thread -> Op \cup {NoThread}]
    /\ result \in [Op -> Nat \cup {NoTicket}]

\* The three steps of the comment in order: an anchored ValueObj leaves the
\* shared reference only once its ThreadObj holds exactly that object, and
\* the reference then moves to the value raised by the add of that call.
StepOrder ==
    [][valueObj.thr # NoThread /\ valueObj' # valueObj =>
         /\ tobj[valueObj.thr] = valueObj
         /\ valueObj'.thr = NoThread
         /\ valueObj'.value = valueObj.value + req[valueObj.thr]]_vars

\* A helper that is late never anchors a value to a call that already has
\* one, nor to a call whose thread has gone on to another.
NoLateAnchor ==
    [][valueObj'.thr # NoThread /\ valueObj' # valueObj =>
         LET o == valueObj'.thr
         IN  tobj[o] = NoValue /\ result[o] = NoTicket /\ threadObjs[o[1]] = o[2]]_vars

\* Under fair scheduling every call returns.
Completes == \A t \in Thread : pc[t] # "idle" ~> pc[t] = "idle"

-----------------------------------------------------------------------------
(* The counter implements FetchAndAdd.  A call takes effect when its value *)
(* is anchored to it (slow path) or when its CAS succeeds (fast path).     *)

ticketOf ==
    [o \in Op |->
        IF result[o] # NoTicket THEN result[o]
        ELSE IF tobj[o] # NoValue THEN tobj[o].value
        ELSE IF valueObj.thr = o THEN valueObj.value
        ELSE NoTicket]

totalOf == IF valueObj.thr = NoThread THEN valueObj.value
           ELSE valueObj.value + req[valueObj.thr]

inCallOf == [t \in Thread |-> pc[t] # "idle"]

FA == INSTANCE FetchAndAdd WITH total <- totalOf, inCall <- inCallOf, ticket <- ticketOf

FASpec == FA!Spec

\* No counter value is handed to two calls.
TicketsDisjoint == FA!TicketsDisjoint

=============================================================================
