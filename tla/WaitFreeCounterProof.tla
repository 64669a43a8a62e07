------------------------ MODULE WaitFreeCounterProof ------------------------
(***************************************************************************)
(* The counter implements FetchAndAdd, for every number of threads, every  *)
(* number of fast attempts and every number of calls; and a call is        *)
(* delayed by calls of the fast path as little as WaitFreeBound says.      *)
(***************************************************************************)
EXTENDS WaitFreeBound, TLAPS

\* v has been published by the shared reference: it is still there or an older
\* object is, and an anchored object that was replaced is held by its ThreadObj.
Seen(v) ==
    /\ v.stamp <= valueObj.stamp
    /\ v.stamp = valueObj.stamp => v = valueObj
    /\ v.thr # NoThread => v = valueObj \/ tobj[v.thr] = v

\* A ThreadObj holds an object anchored to it, and never a second one.
ObjInv ==
    /\ \A t \in Thread : Seen(cur[t])
    /\ \A o \in Op : tobj[o] # NoValue => tobj[o].thr = o /\ Seen(tobj[o])
    /\ valueObj.thr # NoThread => tobj[valueObj.thr] \in {NoValue, valueObj}

\* What thread t knows of its local valueObj_ at each point.
CurInv(t) ==
    /\ pc[t] \in {"fastCas", "helpCas"} => cur[t].thr = NoThread
    /\ Xfering(t) => cur[t].thr # NoThread
    /\ pc[t] \in {"valTest", "valCas"} => tobj[cur[t].thr] # NoValue
    /\ pc[t] = "helpCas" /\ cur[t] = valueObj => tobj[helpObj[t]] = NoValue

\* Thread t has left the loop of help() and not yet returned from it.
Leaving(t) == pc[t] = "helpTake" \/ (Xfering(t) /\ back[t] = "final")

\* Where thread t is, by the reason it runs.
RoleInv(t) ==
    /\ pc[t] \in {"fastRead", "fastCas", "announce"} => role[t] = "fast"
    /\ Xfering(t) /\ back[t] = "fast" => role[t] = "fast"
    /\ pc[t] = "helpGet" \/ InLoop(t) \/ Leaving(t) => role[t] \in {"assist", "self"}
    /\ pc[t] \in {"xferTest", "xferCas"} => back[t] # "final"
    /\ pc[t] = "retract" => role[t] = "self"
    /\ pc[t] \in {"fastRead", "fastCas"} \/ (Xfering(t) /\ back[t] = "fast") => count[t] # 0
    /\ pc[t] # "idle" => calls[t] # 0

\* Call o is announced and its thread is before the end of the loop.
Pending(o) ==
    /\ o = Current(o[1])
    /\ role[o[1]] = "self"
    /\ pc[o[1]] = "helpGet" \/ InLoop(o[1])

\* A call being helped is still pending until it has its value.
HelpInv(t) ==
    /\ InLoop(t) \/ Leaving(t) => helpObj[t] \in Op
    /\ InLoop(t) /\ tobj[helpObj[t]] = NoValue => Pending(helpObj[t])
    /\ Leaving(t) => tobj[helpObj[t]] # NoValue
    /\ pc[t] = "helpGet" /\ role[t] = "self" => helpIndex[t] = t
    /\ (InLoop(t) \/ Leaving(t)) /\ role[t] = "self" => helpObj[t] = Current(t)
    /\ pc[t] \in {"valTest", "valCas"} /\ back[t] = "final" => cur[t] = tobj[helpObj[t]]

\* The announcement stands from Announce to Retract.
AnnounceInv(t) ==
    /\ threadObjs[t] # 0 =>
         /\ threadObjs[t] = calls[t]
         /\ role[t] = "self"
         /\ pc[t] \in {"helpGet", "retract"} \/ InLoop(t) \/ Leaving(t)
    /\ role[t] = "self" /\ (pc[t] = "helpGet" \/ InLoop(t)) => threadObjs[t] = calls[t]
    /\ pc[t] = "retract" =>
         /\ tobj[Current(t)] # NoValue
         /\ cur[t] = tobj[Current(t)]

\* A value belongs only to a call that was made, and a call of the fast path
\* gets none from the slow one.
CallInv ==
    \A o \in Op : tobj[o] # NoValue \/ valueObj.thr = o =>
        /\ o[2] <= calls[o[1]]
        /\ o[2] = calls[o[1]] => role[o[1]] = "self"

\* A call has a result from the step that decides it on the fast path, or from
\* Retract, to the end.
ResultInv ==
    /\ \A o \in Op : result[o] # NoTicket =>
         /\ o[2] <= calls[o[1]]
         /\ o[2] = calls[o[1]] => pc[o[1]] \in {"idle", "return"} \/ role[o[1]] = "assist"
    /\ \A t \in Thread :
         pc[t] = "return" \/ (pc[t] # "idle" /\ role[t] = "assist") =>
             result[Current(t)] # NoTicket

IInv ==
    /\ TypeOK
    /\ ObjInv
    /\ \A t \in Thread : CurInv(t) /\ RoleInv(t) /\ HelpInv(t) /\ AnnounceInv(t)
    /\ CallInv
    /\ ResultInv

-----------------------------------------------------------------------------

\* A call is a thread and a number; every such pair is a call.
LEMMA OpFacts ==
    /\ \A o \in Op : o[1] \in Thread /\ o[2] \in 1 .. MaxOps /\ o = <<o[1], o[2]>>
    /\ \A t \in Thread, k \in 1 .. MaxOps : <<t, k>> \in Op
  BY DEF Op

\* The arithmetic part of the assumption on the constants.
LEMMA Bounds ==
    /\ N \in Nat \ {0} /\ MaxFast \in Nat \ {0} /\ MaxOps \in Nat
    /\ Adds \subseteq Nat
    /\ NoTicket \notin Nat
  BY WaitFreeAssumption DEF WaitFreeAssumption

\* The null references are no objects.
LEMMA Nulls == NoThread \notin Op /\ NoValue \notin ValueObj
  BY WaitFreeAssumption DEF WaitFreeAssumption, Op, ValueObj, Thread

\* helpIndex stays an index of states[] when it wraps around.
LEMMA NextIndex ==
    \A i \in Thread : (i + 1) % N \in Thread
  BY Bounds DEF Thread

\* The type of the state, spelt out for one thread.
LEMMA ThreadTypes ==
    ASSUME TypeOK, NEW t \in Thread
    PROVE  /\ cur[t] \in ValueObj /\ cur[t].value \in Nat /\ cur[t].stamp \in Nat
           /\ cur[t].thr \in Op \cup {NoThread}
           /\ valueObj.value \in Nat /\ valueObj.stamp \in Nat
           /\ valueObj.thr \in Op \cup {NoThread}
           /\ calls[t] \in 0 .. MaxOps
           /\ calls[t] # 0 => Current(t) \in Op
  <1>1. calls[t] # 0 => Current(t) \in Op
    BY OpFacts, Bounds DEF TypeOK, Current
  <1>2. QED
    BY <1>1 DEF TypeOK, ValueObj

\* A new ValueObj built from a value and a call is a ValueObj.
LEMMA FreshType ==
    ASSUME TypeOK, NEW v \in Nat, NEW o \in Op \cup {NoThread}
    PROVE  Fresh(v, o) \in ValueObj
  BY DEF TypeOK, ValueObj, Fresh

\* Returning from helpValueTransfer keeps the types of what it changes.
LEMMA TransferredType ==
    ASSUME TypeOK, NEW t \in Thread, Transferred(t), back[t] = "fast" => count[t] # 0
    PROVE  /\ count' \in [Thread -> 0 .. MaxFast]
           /\ index' \in [Thread -> Thread]
           /\ pc' \in [Thread -> PcLabels]
  <1>0. /\ count \in [Thread -> 0 .. MaxFast] /\ index \in [Thread -> Thread]
        /\ pc \in [Thread -> PcLabels]
    BY DEF TypeOK
  <1>1. /\ {"announce", "fastRead", "helpRead", "return", "retract"} \subseteq PcLabels
        /\ back[t] \in {"fast", "help", "final"}
    BY DEF TypeOK, PcLabels
  <1>2. CASE back[t] = "fast"
    <2>1. count[t] - 1 \in 0 .. MaxFast
      <3>1. count[t] \in 0 .. MaxFast
        BY <1>0
      <3>2. QED
        BY <1>2, <3>1, Bounds
    <2>2. Attempted(t) /\ index' = index
      BY <1>2 DEF Transferred
    <2>3. count' \in [Thread -> 0 .. MaxFast]
      BY <1>0, <2>1, <2>2 DEF Attempted
    <2>4. pc' \in [Thread -> PcLabels]
      BY <1>0, <1>1, <2>2 DEF Attempted, Goto
    <2>5. QED
      BY <1>0, <2>2, <2>3, <2>4
  <1>3. CASE back[t] = "help"
    <2>1. Goto(t, "helpRead") /\ count' = count /\ index' = index
      BY <1>3 DEF Transferred
    <2>2. QED
      BY <1>0, <1>1, <2>1 DEF Goto
  <1>4. CASE back[t] = "final"
    <2>1. HelpDone(t) /\ count' = count
      BY <1>4 DEF Transferred
    <2>2. pc' \in [Thread -> PcLabels]
      BY <1>0, <1>1, <2>1 DEF HelpDone, Goto
    <2>3. index' \in [Thread -> Thread]
      <3>1. (index[t] + 1) % N \in Thread
        BY <1>0, NextIndex
      <3>2. index' = index \/ index' = [index EXCEPT ![t] = (@ + 1) % N]
        BY <2>1 DEF HelpDone
      <3>3. QED
        BY <1>0, <3>1, <3>2
    <2>4. QED
      BY <1>0, <2>1, <2>2, <2>3
  <1>5. QED
    BY <1>1, <1>2, <1>3, <1>4

\* No step leaves the types.
LEMMA TypeStep ==
    ASSUME IInv, [Next]_vars
    PROVE  TypeOK'
<1>0. TypeOK /\ (\A t \in Thread : CurInv(t) /\ RoleInv(t) /\ HelpInv(t))
  BY DEF IInv
<1> USE <1>0 DEF Goto, shared, locals, history
<1>1. ASSUME NEW t \in Thread, NEW a \in Adds, Invoke(t, a)
      PROVE  TypeOK'
  <2>1. calls[t] + 1 \in 0 .. MaxOps /\ a \in Nat
    <3>1. calls[t] \in 0 .. MaxOps /\ calls[t] < MaxOps
      BY <1>1 DEF Invoke, TypeOK
    <3>2. QED
      BY <3>1, Bounds
  <2>2. calls' \in [Thread -> 0 .. MaxOps] /\ req' \in [Op -> Nat]
    BY <1>1, <2>1 DEF Invoke, TypeOK
  <2>3. QED
    BY <1>1, <2>2, Bounds DEF Invoke, TypeOK, PcLabels
<1>2. ASSUME NEW t \in Thread, FastRead(t)
      PROVE  TypeOK'
  BY <1>2 DEF FastRead, TypeOK, PcLabels
<1>3. ASSUME NEW t \in Thread, FastCas(t)
      PROVE  TypeOK'
  <2>1. calls[t] # 0 /\ count[t] # 0
    BY <1>3 DEF FastCas, FastCasIf, RoleInv
  <2>2. cur[t].value + req[Current(t)] \in Nat /\ cur[t].value \in Nat
    BY <2>1, ThreadTypes DEF TypeOK
  <2>3. valueObj' \in ValueObj
    <3>1. Fresh(cur[t].value + req[Current(t)], NoThread) \in ValueObj
      BY <2>2, FreshType
    <3>2. QED
      BY <1>3, <3>1 DEF FastCas, FastCasIf, TypeOK
  <2>4. result' \in [Op -> Nat \cup {NoTicket}]
    BY <1>3, <2>2 DEF FastCas, FastCasIf, TypeOK
  <2>5. count' \in [Thread -> 0 .. MaxFast]
    BY <1>3, <2>1, Bounds DEF FastCas, FastCasIf, Attempted, TypeOK
  <2>6. QED
    BY <1>3, <2>3, <2>4, <2>5 DEF FastCas, FastCasIf, Attempted, TypeOK, PcLabels
<1>4. ASSUME NEW t \in Thread, Announce(t)
      PROVE  TypeOK'
  BY <1>4 DEF Announce, TypeOK, PcLabels
<1>5. ASSUME NEW t \in Thread, Retract(t)
      PROVE  TypeOK'
  <2>1. cur[t].value \in Nat
    BY ThreadTypes
  <2>2. 0 \in 0 .. MaxOps
    BY Bounds
  <2>3. result' \in [Op -> Nat \cup {NoTicket}]
    BY <1>5, <2>1 DEF Retract, TypeOK
  <2>4. QED
    BY <1>5, <2>2, <2>3 DEF Retract, TypeOK, PcLabels
<1>6. ASSUME NEW t \in Thread, Return(t)
      PROVE  TypeOK'
  BY <1>6 DEF Return, TypeOK, PcLabels
<1>7. ASSUME NEW t \in Thread, HelpGet(t)
      PROVE  TypeOK'
  <2>1. index' \in [Thread -> Thread]
    BY <1>7, NextIndex DEF HelpGet, HelpDone, TypeOK
  <2>2. helpObj' \in [Thread -> Op \cup {NoThread}]
    <3>1. CASE threadObjs[helpIndex[t]] = 0
      BY <1>7, <3>1 DEF HelpGet, TypeOK
    <3>2. CASE threadObjs[helpIndex[t]] # 0
      <4>1. threadObjs[helpIndex[t]] \in 1 .. MaxOps /\ helpIndex[t] \in Thread
        BY <3>2, Bounds DEF TypeOK
      <4>2. <<helpIndex[t], threadObjs[helpIndex[t]]>> \in Op
        BY <4>1, OpFacts
      <4>3. QED
        BY <1>7, <3>2, <4>2 DEF HelpGet, TypeOK
    <3>3. QED
      BY <3>1, <3>2
  <2>3. QED
    BY <1>7, <2>1, <2>2 DEF HelpGet, HelpDone, TypeOK, PcLabels
<1>8. ASSUME NEW t \in Thread, HelpRead(t)
      PROVE  TypeOK'
  BY <1>8 DEF HelpRead, TypeOK, PcLabels
<1>9. ASSUME NEW t \in Thread, HelpTest(t)
      PROVE  TypeOK'
  BY <1>9 DEF HelpTest, TypeOK, PcLabels
<1>10. ASSUME NEW t \in Thread, HelpCas(t)
      PROVE  TypeOK'
  <2>1. helpObj[t] \in Op
    BY <1>10 DEF HelpCas, HelpCasFrom, HelpInv, InLoop
  <2>2. Fresh(cur[t].value, helpObj[t]) \in ValueObj
    BY <2>1, FreshType, ThreadTypes
  <2>3. valueObj' \in ValueObj /\ cur' \in [Thread -> ValueObj]
    BY <1>10, <2>2 DEF HelpCas, HelpCasFrom, TypeOK
  <2>4. QED
    BY <1>10, <2>3 DEF HelpCas, HelpCasFrom, TypeOK, PcLabels
<1>11. ASSUME NEW t \in Thread, HelpTake(t)
      PROVE  TypeOK'
  <2>1. helpObj[t] \in Op /\ tobj[helpObj[t]] # NoValue
    BY <1>11 DEF HelpTake, HelpInv, Leaving
  <2>2. QED
    BY <1>11, <2>1 DEF HelpTake, TypeOK, PcLabels
<1>12. ASSUME NEW t \in Thread, XferTest(t)
      PROVE  TypeOK'
  BY <1>12 DEF XferTest, TypeOK, PcLabels
<1>13. ASSUME NEW t \in Thread, XferCas(t)
      PROVE  TypeOK'
  BY <1>13 DEF XferCas, TypeOK, PcLabels
<1>14. ASSUME NEW t \in Thread, ValTest(t)
      PROVE  TypeOK'
  <2>1. back[t] = "fast" => count[t] # 0
    BY <1>14 DEF ValTest, RoleInv, Xfering
  <2>2. CASE valueObj = cur[t]
    BY <1>14, <2>2 DEF ValTest, TypeOK, PcLabels
  <2>3. CASE valueObj # cur[t]
    <3>1. Transferred(t)
      BY <1>14, <2>3 DEF ValTest
    <3>2. QED
      BY <1>14, <2>1, <3>1, TransferredType DEF ValTest, TypeOK
  <2>4. QED
    BY <2>2, <2>3
<1>15. ASSUME NEW t \in Thread, ValCas(t)
      PROVE  TypeOK'
  <2>1. back[t] = "fast" => count[t] # 0
    BY <1>15 DEF ValCas, RoleInv, Xfering
  <2>2. valueObj' \in ValueObj
    <3>1. cur[t].thr \in Op
      BY <1>15, ThreadTypes DEF ValCas, CurInv, Xfering
    <3>2. cur[t].value + req[cur[t].thr] \in Nat
      BY <3>1, ThreadTypes DEF TypeOK
    <3>3. Fresh(cur[t].value + req[cur[t].thr], NoThread) \in ValueObj
      BY <3>2, FreshType
    <3>4. QED
      BY <1>15, <3>3 DEF ValCas, TypeOK
  <2>3. Transferred(t)
    BY <1>15 DEF ValCas
  <2>4. QED
    BY <1>15, <2>1, <2>2, <2>3, TransferredType DEF ValCas, TypeOK
<1>16. CASE UNCHANGED vars
  BY <1>16 DEF vars, TypeOK
<1>17. QED
  BY <1>1, <1>2, <1>3, <1>4, <1>5, <1>6, <1>7, <1>8, <1>9, <1>10, <1>11, <1>12,
     <1>13, <1>14, <1>15, <1>16 DEF Next, Step

\* The actions that touch neither the shared objects nor a local valueObj_.
Quiet(t) ==
    \/ Announce(t) \/ Retract(t) \/ Return(t) \/ HelpGet(t) \/ HelpTest(t)
    \/ XferTest(t) \/ ValTest(t)

\* An object is replaced by a fresh one only if it is not anchored or its
\* ThreadObj holds it: every object seen before is then an older one.
LEMMA SeenStep ==
    ASSUME TypeOK, ObjInv, UNCHANGED tobj,
           valueObj'.stamp = valueObj.stamp + 1,
           valueObj.thr # NoThread => tobj[valueObj.thr] = valueObj
    PROVE  \A v \in ValueObj : Seen(v) =>
              /\ v.stamp < valueObj'.stamp
              /\ v.thr # NoThread => tobj'[v.thr] = v
  <1>1. valueObj.stamp \in Nat
    BY DEF TypeOK, ValueObj
  <1>2. \A v \in ValueObj : v.stamp \in Nat
    BY DEF ValueObj
  <1>3. QED
    BY <1>1, <1>2 DEF Seen

\* No step breaks what is known of the published objects.
LEMMA ObjStep ==
    ASSUME IInv, [Next]_vars
    PROVE  ObjInv'
<1>0. TypeOK /\ ObjInv /\ \A t \in Thread : CurInv(t) /\ HelpInv(t)
  BY DEF IInv
<1>a. valueObj \in ValueObj /\ valueObj.stamp \in Nat /\ tobj \in [Op -> ValueObj \cup {NoValue}]
      /\ cur \in [Thread -> ValueObj]
  BY <1>0 DEF TypeOK, ValueObj
<1>b. Seen(valueObj)
  BY <1>a DEF Seen
<1>1. ASSUME UNCHANGED <<valueObj, tobj, cur>>
      PROVE  ObjInv'
  BY <1>0, <1>1 DEF ObjInv, Seen
<1>2. ASSUME NEW t \in Thread, UNCHANGED <<valueObj, tobj>>,
             cur' = [cur EXCEPT ![t] = valueObj]
      PROVE  ObjInv'
  BY <1>0, <1>a, <1>b, <1>2 DEF ObjInv, Seen
<1>3. ASSUME NEW t \in Thread, HelpTake(t)
      PROVE  ObjInv'
  <2>1. helpObj[t] \in Op /\ tobj[helpObj[t]] # NoValue
    BY <1>0, <1>3 DEF HelpTake, HelpInv, Leaving
  <2>2. UNCHANGED <<valueObj, tobj>> /\ cur' = [cur EXCEPT ![t] = tobj[helpObj[t]]]
    BY <1>3 DEF HelpTake, shared
  <2>3. QED
    BY <1>0, <1>a, <2>1, <2>2 DEF ObjInv, Seen
<1>4. ASSUME NEW v \in ValueObj, v = valueObj', v.stamp = valueObj.stamp + 1, UNCHANGED tobj,
             valueObj.thr # NoThread => tobj[valueObj.thr] = valueObj,
             v.thr # NoThread => v.thr \in Op /\ tobj[v.thr] = NoValue,
             \A t \in Thread : cur'[t] \in {cur[t], v}
      PROVE  ObjInv'
  <2>1. \A w \in ValueObj : Seen(w) =>
              /\ w.stamp < valueObj'.stamp
              /\ w.thr # NoThread => tobj'[w.thr] = w
    BY <1>0, <1>4, SeenStep
  <2>2. \A w \in ValueObj : Seen(w) => Seen(w)'
    <3>1. \A w \in ValueObj : w.stamp \in Nat
      BY DEF ValueObj
    <3>2. v.stamp \in Nat
      BY DEF ValueObj
    <3>3. QED
      BY <2>1, <3>1, <3>2, <1>4 DEF Seen
  <2>3. Seen(v)'
    BY <1>4 DEF Seen, ValueObj
  <2>4. \A t \in Thread : Seen(cur[t])'
    BY <2>2, <2>3, <1>0, <1>a, <1>4 DEF ObjInv
  <2>5. \A o \in Op : (tobj[o] # NoValue => tobj[o].thr = o /\ Seen(tobj[o]))'
    BY <2>2, <1>0, <1>a, <1>4 DEF ObjInv
  <2>6. QED
    BY <2>4, <2>5, <1>4 DEF ObjInv

<1>5. ASSUME NEW t \in Thread, XferCas(t)
      PROVE  ObjInv'
  <2> DEFINE o == cur[t].thr
  <2>1. o \in Op /\ cur[t] \in ValueObj /\ Seen(cur[t])
    BY <1>0, <1>5, ThreadTypes DEF XferCas, CurInv, Xfering, ObjInv
  <2>2. CASE tobj[o] # NoValue
    <3>1. tobj' = tobj
      BY <1>a, <1>5, <2>1, <2>2 DEF XferCas
    <3>2. QED
      BY <1>0, <1>5, <3>1 DEF XferCas, locals, ObjInv, Seen
  <2>3. CASE tobj[o] = NoValue
    <3>1. cur[t] = valueObj /\ valueObj.thr = o
      BY <2>1, <2>3, Nulls DEF Seen
    <3>2. tobj' = [tobj EXCEPT ![o] = valueObj] /\ UNCHANGED <<valueObj, cur>>
      BY <1>5, <2>3, <3>1 DEF XferCas, locals
    <3>3. \A w \in ValueObj : Seen(w) => Seen(w)'
      BY <1>a, <2>1, <2>3, <3>1, <3>2, Nulls DEF Seen
    <3>4. \A s \in Thread : Seen(cur[s])'
      BY <3>2, <3>3, <1>0, <1>a DEF ObjInv
    <3>5. Seen(valueObj)'
      BY <1>b, <3>3, <1>a, <3>2
    <3>6. \A p \in Op : (tobj[p] # NoValue => tobj[p].thr = p /\ Seen(tobj[p]))'
      BY <3>1, <3>2, <3>3, <3>5, <1>0, <1>a DEF ObjInv
    <3>7. (valueObj.thr # NoThread => tobj[valueObj.thr] \in {NoValue, valueObj})'
      BY <3>1, <3>2, <2>1, <1>a
    <3>8. QED
      BY <3>4, <3>6, <3>7 DEF ObjInv
  <2>4. QED
    BY <2>2, <2>3
<1>6. ASSUME NEW t \in Thread, FastCas(t)
      PROVE  ObjInv'
  <2>1. CASE valueObj = cur[t]
    <3>1. valueObj' = Fresh(cur[t].value + req[Current(t)], NoThread) /\ valueObj.thr = NoThread
      BY <1>0, <1>6, <2>1 DEF FastCas, FastCasIf, CurInv
    <3>2. valueObj' \in ValueObj /\ valueObj'.thr = NoThread /\ valueObj'.stamp = valueObj.stamp + 1
      BY <3>1, TypeStep DEF Fresh, TypeOK
    <3>3. QED
      BY <1>4, <3>1, <3>2, <1>6 DEF FastCas, FastCasIf
  <2>2. CASE valueObj # cur[t]
    BY <1>1, <1>6, <2>2 DEF FastCas, FastCasIf
  <2>3. QED
    BY <2>1, <2>2
<1>7. ASSUME NEW t \in Thread, HelpCas(t)
      PROVE  ObjInv'
  <2>1. CASE valueObj = cur[t]
    <3>1. /\ valueObj.thr = NoThread
          /\ helpObj[t] \in Op /\ tobj[helpObj[t]] = NoValue
      BY <1>0, <1>7, <2>1 DEF HelpCas, HelpCasFrom, CurInv, HelpInv, InLoop
    <3>2. valueObj' = Fresh(cur[t].value, helpObj[t]) /\ cur' = [cur EXCEPT ![t] = valueObj']
      BY <1>7, <2>1, <3>1 DEF HelpCas, HelpCasFrom
    <3>3. valueObj' \in ValueObj /\ valueObj'.thr = helpObj[t] /\ valueObj'.stamp = valueObj.stamp + 1
      BY <3>2, TypeStep DEF Fresh, TypeOK
    <3>4. \A s \in Thread : cur'[s] \in {cur[s], valueObj'}
      BY <1>a, <3>2
    <3>5. UNCHANGED tobj
      BY <1>7 DEF HelpCas, HelpCasFrom
    <3>6. QED
      BY <1>4, <3>1, <3>3, <3>4, <3>5
  <2>2. CASE valueObj # cur[t]
    BY <1>1, <1>7, <2>2 DEF HelpCas, HelpCasFrom
  <2>3. QED
    BY <2>1, <2>2
<1>8. ASSUME NEW t \in Thread, ValCas(t)
      PROVE  ObjInv'
  <2>1. CASE valueObj = cur[t]
    <3>1. valueObj' = Fresh(cur[t].value + req[cur[t].thr], NoThread)
      BY <1>8, <2>1 DEF ValCas
    <3>2. valueObj' \in ValueObj /\ valueObj'.thr = NoThread /\ valueObj'.stamp = valueObj.stamp + 1
      BY <3>1, TypeStep DEF Fresh, TypeOK
    <3>3. valueObj.thr # NoThread /\ tobj[valueObj.thr] = valueObj
      BY <1>0, <1>8, <2>1 DEF ValCas, CurInv, Xfering, ObjInv
    <3>4. QED
      BY <1>4, <3>2, <3>3, <1>8 DEF ValCas
  <2>2. CASE valueObj # cur[t]
    BY <1>1, <1>8, <2>2 DEF ValCas
  <2>3. QED
    BY <2>1, <2>2
<1>9. ASSUME NEW t \in Thread, FastRead(t) \/ HelpRead(t)
      PROVE  ObjInv'
  BY <1>2, <1>9 DEF FastRead, HelpRead, shared
<1>10. ASSUME NEW t \in Thread, Quiet(t)
      PROVE  ObjInv'
  BY <1>1, <1>10 DEF Quiet, Announce, Retract, Return, HelpGet, HelpTest, XferTest, ValTest,
     shared, locals
<1>11. ASSUME NEW t \in Thread, NEW a \in Adds, Invoke(t, a)
      PROVE  ObjInv'
  BY <1>1, <1>11 DEF Invoke, shared
<1>12. CASE UNCHANGED vars
  BY <1>1, <1>12 DEF vars
<1>13. QED
  BY <1>3, <1>5, <1>6, <1>7, <1>8, <1>9, <1>10, <1>11, <1>12 DEF Next, Step, Quiet

\* A step of one thread leaves the locals and the calls of the others alone.
LEMMA Frame ==
    ASSUME TypeOK, NEW t \in Thread, NEW s \in Thread, s # t,
           Step(t) \/ \E a \in Adds : Invoke(t, a)
    PROVE  /\ pc'[s] = pc[s] /\ cur'[s] = cur[s] /\ back'[s] = back[s]
           /\ role'[s] = role[s] /\ helpObj'[s] = helpObj[s] /\ count'[s] = count[s]
           /\ helpIndex'[s] = helpIndex[s] /\ calls'[s] = calls[s]
           /\ threadObjs'[s] = threadObjs[s]
           /\ \A k \in 1 .. MaxOps : result'[<<s, k>>] = result[<<s, k>>]
  <1> USE DEF TypeOK, Goto, shared, locals, history
  <1>2. CASE \E a \in Adds : Invoke(t, a)
    <2>1. PICK a \in Adds : Invoke(t, a)
      BY <1>2
    <2>2. QED
      BY <2>1 DEF Invoke
  <1>3. CASE FastRead(t) \/ Return(t) \/ HelpRead(t) \/ HelpTest(t) \/ HelpTake(t) \/ XferTest(t)
    BY <1>3 DEF FastRead, Return, HelpRead, HelpTest, HelpTake, XferTest
  <1>4. CASE FastCas(t)
    <2>1. \A k \in 1 .. MaxOps : result'[<<s, k>>] = result[<<s, k>>]
      BY <1>4, OpFacts DEF FastCas, FastCasIf, Current
    <2>2. QED
      BY <1>4, <2>1 DEF FastCas, FastCasIf, Attempted
  <1>5. CASE Announce(t)
    BY <1>5 DEF Announce
  <1>6. CASE Retract(t)
    <2>1. \A k \in 1 .. MaxOps : result'[<<s, k>>] = result[<<s, k>>]
      BY <1>6, OpFacts DEF Retract, Current
    <2>2. QED
      BY <1>6, <2>1 DEF Retract
  <1>7. CASE HelpGet(t)
    BY <1>7 DEF HelpGet, HelpDone
  <1>8. CASE HelpCas(t)
    BY <1>8 DEF HelpCas, HelpCasFrom
  <1>9. CASE XferCas(t)
    BY <1>9 DEF XferCas
  <1>10. CASE ValTest(t)
    BY <1>10 DEF ValTest, Transferred, Attempted, HelpDone
  <1>11. CASE ValCas(t)
    BY <1>11 DEF ValCas, Transferred, Attempted, HelpDone
  <1>12. QED
    BY <1>2, <1>3, <1>4, <1>5, <1>6, <1>7, <1>8, <1>9, <1>10, <1>11 DEF Step

\* What every step does to the shared objects: a ThreadObj keeps its value; a
\* step that fills one does it while the object is current; a step that
\* replaces the current object brings in one that nobody holds.
LEMMA Stable ==
    ASSUME IInv, NEW t \in Thread, Step(t) \/ \E a \in Adds : Invoke(t, a)
    PROVE  /\ \A o \in Op : tobj[o] # NoValue => tobj'[o] = tobj[o]
           /\ \A o \in Op : tobj'[o] # tobj[o] => valueObj.thr = o
           /\ valueObj' # valueObj => \A s \in Thread : s # t => cur[s] # valueObj'
  <1>1. TypeOK /\ ObjInv /\ CurInv(t)
    BY DEF IInv
  <1>2. CASE XferCas(t)
    <2>1. cur[t].thr \in Op /\ Seen(cur[t])
      BY <1>1, <1>2, ThreadTypes DEF XferCas, CurInv, Xfering, ObjInv
    <2>2. tobj[cur[t].thr] = NoValue => valueObj.thr = cur[t].thr
      BY <1>1, <2>1, Nulls DEF Seen, TypeOK
    <2>3. QED
      BY <1>1, <1>2, <2>1, <2>2 DEF XferCas, TypeOK
  <1>3. CASE ~XferCas(t)
    <2>1. UNCHANGED tobj
      BY <1>3 DEF Step, Invoke, FastRead, FastCas, FastCasIf, Announce, Retract, Return, HelpGet,
         HelpRead, HelpTest, HelpCas, HelpCasFrom, HelpTake, XferTest, ValTest, ValCas, shared
    <2>2. valueObj' # valueObj => valueObj'.stamp = valueObj.stamp + 1
      BY <1>3 DEF Step, Invoke, FastRead, FastCas, FastCasIf, Announce, Retract, Return, HelpGet,
         HelpRead, HelpTest, HelpCas, HelpCasFrom, HelpTake, XferTest, ValTest, ValCas, shared,
         Fresh
    <2>3. \A s \in Thread : cur[s].stamp \in Nat /\ valueObj.stamp \in Nat /\ cur[s].stamp <= valueObj.stamp
      BY <1>1, ThreadTypes DEF ObjInv, Seen
    <2>4. QED
      BY <2>1, <2>2, <2>3
  <1>4. QED
    BY <1>2, <1>3

\* A pending call stays pending until it has its value.
LEMMA PendingStep ==
    ASSUME IInv, NEW t \in Thread, Step(t) \/ (\E a \in Adds : Invoke(t, a)),
           NEW o \in Op, Pending(o), tobj'[o] = NoValue
    PROVE  Pending(o)'
  <1> DEFINE q == o[1]
  <1>1. q \in Thread /\ o = Current(q) /\ role[q] = "self" /\ (pc[q] = "helpGet" \/ InLoop(q))
    BY OpFacts DEF Pending
  <1>2. TypeOK /\ CurInv(t) /\ RoleInv(t) /\ HelpInv(t) /\ AnnounceInv(t) /\ tobj[o] = NoValue
    BY Stable DEF IInv
  <1>3. CASE q # t
    BY <1>1, <1>2, <1>3, Frame DEF Pending, InLoop, Xfering, Current
  <1>4. CASE q = t
    <2> USE <1>1, <1>2, <1>4 DEF Goto, TypeOK, shared, locals, history, InLoop, Xfering
    <2>1. calls[t] # 0 /\ threadObjs[t] = calls[t]
      BY DEF RoleInv, AnnounceInv
    <2>2. InLoop(t) => helpObj[t] = o
      BY DEF HelpInv
    <2>3. pc[t] = "helpGet" => helpIndex[t] = t
      BY DEF HelpInv
    <2>4. ASSUME HelpGet(t)
          PROVE  pc'[t] = "helpRead" /\ UNCHANGED <<role, calls>>
      BY <2>1, <2>3, <2>4 DEF HelpGet
    <2>5. ASSUME HelpRead(t) \/ HelpTest(t) \/ HelpCas(t)
          PROVE  InLoop(t)' /\ UNCHANGED <<role, calls>>
      BY <2>2, <2>5 DEF HelpRead, HelpTest, HelpCas, HelpCasFrom
    <2>6. ASSUME XferTest(t) \/ XferCas(t)
          PROVE  InLoop(t)' /\ UNCHANGED <<role, calls>>
      BY <2>6 DEF XferTest, XferCas
    <2>7. ASSUME ValTest(t) \/ ValCas(t)
          PROVE  InLoop(t)' /\ UNCHANGED <<role, calls>>
      BY <2>7 DEF ValTest, ValCas, Transferred
    <2>8. Step(t)
      BY DEF Invoke
    <2>9. HelpGet(t) \/ HelpRead(t) \/ HelpTest(t) \/ HelpCas(t) \/ XferTest(t) \/ XferCas(t)
          \/ ValTest(t) \/ ValCas(t)
      BY <2>8 DEF Step, FastRead, FastCas, FastCasIf, Announce, Retract, Return, HelpTake
    <2>10. QED
      BY <2>4, <2>5, <2>6, <2>7, <2>9 DEF Pending, Current
  <1>5. QED
    BY <1>3, <1>4

\* What a thread knows at each point survives the steps of the others.
LEMMA OtherStep ==
    ASSUME IInv, NEW t \in Thread, Step(t) \/ \E a \in Adds : Invoke(t, a),
           NEW s \in Thread, s # t
    PROVE  (CurInv(s) /\ RoleInv(s) /\ HelpInv(s) /\ AnnounceInv(s))'
  <1>1. /\ TypeOK /\ CurInv(s) /\ RoleInv(s) /\ HelpInv(s) /\ AnnounceInv(s) /\ ObjInv
    BY DEF IInv
  <1>2. UNCHANGED <<pc[s], cur[s], back[s], role[s], helpObj[s], helpIndex[s], count[s],
                    calls[s], threadObjs[s]>>
    BY <1>1, Frame
  <1>3. \A o \in Op : tobj[o] # NoValue => tobj'[o] = tobj[o]
    BY Stable
  <1>4. CurInv(s)'
    <2>1. cur[s].thr # NoThread => cur[s].thr \in Op
      BY <1>1, ThreadTypes
    <2>2. ASSUME pc[s] = "helpCas", cur[s] = valueObj'
          PROVE  tobj'[helpObj[s]] = NoValue
      <3>1. cur[s] = valueObj /\ valueObj.thr = NoThread
        BY <1>1, <2>2, Stable DEF CurInv
      <3>2. helpObj[s] \in Op /\ tobj[helpObj[s]] = NoValue
        BY <1>1, <2>2, <3>1 DEF CurInv, HelpInv, InLoop
      <3>3. QED
        BY <3>1, <3>2, Stable, Nulls
    <2>3. QED
      BY <1>1, <1>2, <1>3, <2>1, <2>2 DEF CurInv, Xfering
  <1>5. RoleInv(s)'
    BY <1>1, <1>2 DEF RoleInv, InLoop, Leaving, Xfering
  <1>6. HelpInv(s)'
    <2>1. InLoop(s)' <=> InLoop(s)
      BY <1>2 DEF InLoop, Xfering
    <2>2. Leaving(s)' <=> Leaving(s)
      BY <1>2 DEF Leaving, Xfering
    <2>3. ASSUME InLoop(s), tobj'[helpObj[s]] = NoValue
          PROVE  Pending(helpObj[s])'
      <3>1. helpObj[s] \in Op /\ Pending(helpObj[s])
        BY <1>1, <1>3, <2>3 DEF HelpInv
      <3>2. DEFINE o == helpObj[s]
      <3>3. \A p \in Op : Pending(p) /\ tobj'[p] = NoValue => Pending(p)'
        BY PendingStep
      <3>4. QED
        BY <1>2, <2>3, <3>1, <3>3 DEF Pending, InLoop, Xfering, Current
    <2>4. /\ InLoop(s)' <=> InLoop(s)
          /\ Leaving(s)' <=> Leaving(s)
      BY <1>2, <2>1 DEF Leaving, InLoop, Xfering
    <2>5. ASSUME InLoop(s) \/ Leaving(s)
          PROVE  helpObj'[s] \in Op /\ (role'[s] = "self" => helpObj'[s] = Current(s)')
      BY <1>1, <1>2, <2>5 DEF HelpInv, Current
    <2>6. Leaving(s) => tobj'[helpObj[s]] # NoValue
      BY <1>1, <1>3, <2>2 DEF HelpInv
    <2>7. (pc[s] = "helpGet" /\ role[s] = "self" => helpIndex[s] = s)'
      BY <1>1, <1>2 DEF HelpInv
    <2>8. (pc[s] \in {"valTest", "valCas"} /\ back[s] = "final" => cur[s] = tobj[helpObj[s]])'
      <3>1. ASSUME pc[s] \in {"valTest", "valCas"}, back[s] = "final"
            PROVE  cur[s] = tobj'[helpObj[s]]
        <4>1. Leaving(s)
          BY <3>1 DEF Leaving, Xfering
        <4>2. helpObj[s] \in Op /\ tobj[helpObj[s]] # NoValue /\ cur[s] = tobj[helpObj[s]]
          BY <1>1, <3>1, <4>1 DEF HelpInv
        <4>3. QED
          BY <1>3, <4>2
      <3>2. QED
        BY <1>2, <3>1
    <2>9. QED
      BY <1>2, <2>3, <2>4, <2>5, <2>6, <2>7, <2>8 DEF HelpInv
  <1>7. AnnounceInv(s)'
    <2>1. pc[s] = "retract" => Current(s) \in Op
      BY <1>1, ThreadTypes DEF RoleInv
    <2>2. QED
      BY <1>1, <1>2, <1>3, <2>1 DEF AnnounceInv, InLoop, Leaving, Xfering, Current
  <1>8. QED
    BY <1>4, <1>5, <1>6, <1>7

\* What the acting thread knows after its step.
LEMMA OwnCurRole ==
    ASSUME IInv, NEW t \in Thread, Step(t) \/ \E a \in Adds : Invoke(t, a)
    PROVE  (CurInv(t) /\ RoleInv(t))'
  <1>0. /\ TypeOK /\ CurInv(t) /\ RoleInv(t) /\ HelpInv(t) /\ ObjInv
    BY DEF IInv
  <1> USE <1>0 DEF TypeOK, Goto, shared, locals, history, CurInv, RoleInv, InLoop, Leaving, Xfering
  <1>1. CASE \E a \in Adds : Invoke(t, a)
    <2>1. calls[t] + 1 # 0 /\ MaxFast # 0
      BY ThreadTypes, Bounds
    <2>2. QED
      BY <1>1, <2>1 DEF Invoke
  <1>2. CASE FastRead(t)
    BY <1>2 DEF FastRead
  <1>3. CASE FastCas(t)
    BY <1>3 DEF FastCas, FastCasIf, Attempted
  <1>4. CASE Announce(t) \/ Retract(t) \/ Return(t) \/ HelpRead(t)
    BY <1>4 DEF Announce, Retract, Return, HelpRead
  <1>5. CASE HelpGet(t)
    BY <1>5 DEF HelpGet, HelpDone
  <1>6. CASE HelpTest(t)
    BY <1>6 DEF HelpTest, HelpInv
  <1>7. CASE HelpCas(t)
    BY <1>7, Nulls DEF HelpCas, HelpCasFrom, Fresh, HelpInv
  <1>8. CASE HelpTake(t)
    <2>1. /\ helpObj[t] \in Op /\ tobj[helpObj[t]] # NoValue
          /\ tobj[helpObj[t]].thr = helpObj[t]
      BY <1>8 DEF HelpTake, HelpInv, ObjInv
    <2>2. QED
      BY <1>8, <2>1, Nulls DEF HelpTake
  <1>9. CASE XferTest(t)
    BY <1>9 DEF XferTest
  <1>10. CASE XferCas(t)
    <2>1. cur[t].thr \in Op /\ cur[t] \in ValueObj
      BY <1>10, ThreadTypes DEF XferCas
    <2>2. tobj'[cur[t].thr] # NoValue
      BY <1>10, <2>1, Nulls DEF XferCas
    <2>3. QED
      BY <1>10, <2>2 DEF XferCas
  <1>11. CASE ValTest(t)
    BY <1>11 DEF ValTest, Transferred, Attempted, HelpDone
  <1>12. CASE ValCas(t)
    BY <1>12 DEF ValCas, Transferred, Attempted, HelpDone
  <1>13. QED
    BY <1>1, <1>2, <1>3, <1>4, <1>5, <1>6, <1>7, <1>8, <1>9, <1>10, <1>11, <1>12 DEF Step

\* A step keeps what its own thread knows of the call it helps.
LEMMA OwnHelp ==
    ASSUME IInv, NEW t \in Thread, Step(t) \/ \E a \in Adds : Invoke(t, a)
    PROVE  HelpInv(t)'
  <1>0. TypeOK /\ CurInv(t) /\ RoleInv(t) /\ HelpInv(t) /\ AnnounceInv(t) /\ ObjInv
    BY DEF IInv
  <1>1. \A o \in Op : tobj[o] # NoValue => tobj'[o] = tobj[o]
    BY Stable
  <1>2. \A p \in Op : Pending(p) /\ tobj'[p] = NoValue => Pending(p)'
    BY PendingStep
  <1>3. CASE (InLoop(t) \/ Leaving(t))' /\ (InLoop(t) \/ Leaving(t))
    <2>1. UNCHANGED <<helpObj, calls, role, threadObjs>> /\ helpObj[t] \in Op
      BY <1>0, <1>3 DEF Step, Invoke, FastRead, FastCas, FastCasIf, Announce, Retract, Return,
         HelpGet, HelpRead, HelpTest, HelpCas, HelpCasFrom, HelpTake, XferTest, XferCas, ValTest,
         ValCas, shared, locals, history, HelpInv, InLoop, Leaving, Xfering
    <2>2. InLoop(t)' => InLoop(t)
      BY <1>0, <1>3 DEF Step, Invoke, FastRead, FastCas, FastCasIf, Announce, Retract, Return,
         HelpGet, HelpRead, HelpTest, HelpCas, HelpCasFrom, HelpTake, XferTest, XferCas, ValTest,
         ValCas, Transferred, Attempted, HelpDone, Goto, TypeOK, locals, InLoop, Leaving, Xfering,
         RoleInv
    <2>3. InLoop(t)' /\ tobj'[helpObj[t]] = NoValue => Pending(helpObj[t])
      BY <1>0, <1>1, <2>1, <2>2 DEF HelpInv
    <2>4. InLoop(t)' /\ tobj'[helpObj'[t]] = NoValue => Pending(helpObj[t])'
      <3>1. DEFINE o == helpObj[t]
      <3>2. ASSUME InLoop(t)', tobj'[helpObj[t]] = NoValue
            PROVE  \A p \in Op : p = helpObj[t] => Pending(p)'
        BY <1>2, <2>1, <2>3, <3>2
      <3>3. QED
        BY <2>1, <3>2 DEF Pending
    <2>5. Leaving(t)' => tobj'[helpObj[t]] # NoValue
      BY <1>0, <1>1, <1>3, <2>1 DEF Step, Invoke, FastRead, FastCas, FastCasIf, Announce, Retract,
         Return, HelpGet, HelpRead, HelpTest, HelpCas, HelpCasFrom, HelpTake, XferTest, XferCas,
         ValTest, ValCas, Transferred, Attempted, HelpDone, Goto, TypeOK, locals, InLoop, Leaving,
         Xfering, RoleInv, HelpInv
    <2>6. (pc[t] \in {"valTest", "valCas"} /\ back[t] = "final" => cur[t] = tobj[helpObj[t]])'
      BY <1>0, <1>1, <1>3, <2>1 DEF Step, Invoke, FastRead, FastCas, FastCasIf, Announce, Retract,
         Return, HelpGet, HelpRead, HelpTest, HelpCas, HelpCasFrom, HelpTake, XferTest, XferCas,
         ValTest, ValCas, Transferred, Attempted, HelpDone, Goto, TypeOK, locals, InLoop, Leaving,
         Xfering, RoleInv, HelpInv, shared
    <2>7. pc'[t] # "helpGet"
      BY <1>3, TypeStep DEF InLoop, Leaving, Xfering
    <2>8. QED
      BY <1>0, <1>3, <2>1, <2>4, <2>5, <2>6, <2>7 DEF HelpInv, Current
  <1>4. CASE HelpGet(t) /\ InLoop(t)'
    <2>1. /\ threadObjs[helpIndex[t]] # 0
          /\ helpObj'[t] = <<helpIndex[t], threadObjs[helpIndex[t]]>>
          /\ pc' = [pc EXCEPT ![t] = "helpRead"]
          /\ UNCHANGED <<tobj, role, calls, back>>
      BY <1>0, <1>4 DEF HelpGet, HelpDone, Goto, InLoop, Xfering, TypeOK, shared, history
    <2> DEFINE q == helpIndex[t]
    <2>2. /\ q \in Thread /\ threadObjs[q] = calls[q] /\ role[q] = "self" /\ HelpInv(q)
          /\ pc[q] \in {"helpGet", "retract"} \/ InLoop(q) \/ Leaving(q)
          /\ RoleInv(q)
      BY <2>1 DEF IInv, TypeOK, AnnounceInv
    <2>3. helpObj'[t] = Current(q) /\ Current(q) \in Op /\ Current(q)[1] = q
      BY <1>0, <2>1, <2>2, ThreadTypes DEF Current
    <2>4. ASSUME tobj[Current(q)] = NoValue
          PROVE  Pending(Current(q))
      <3>1. pc[q] # "retract"
        BY <2>2, <2>4 DEF IInv, AnnounceInv
      <3>2. ~Leaving(q)
        BY <2>2, <2>4 DEF HelpInv
      <3>3. QED
        BY <2>2, <2>3, <3>1, <3>2 DEF Pending
    <2>5. ASSUME tobj'[helpObj'[t]] = NoValue
          PROVE  Pending(helpObj[t])'
      <3>1. tobj'[Current(q)] = NoValue /\ Pending(Current(q))
        BY <2>1, <2>3, <2>4, <2>5
      <3>2. \A p \in Op : p = Current(q) => Pending(p)'
        BY <1>2, <3>1
      <3>3. QED
        BY <2>3, <3>2 DEF Pending
    <2>6. role[t] = "self" => q = t
      BY <1>0, <1>4 DEF HelpInv, HelpGet
    <2>7. QED
      BY <1>0, <2>1, <2>3, <2>5, <2>6 DEF HelpInv, InLoop, Leaving, Xfering, Current, TypeOK
  <1>5. CASE ~(InLoop(t) \/ Leaving(t))'
    <2>1. (pc[t] = "helpGet" /\ role[t] = "self" => helpIndex[t] = t)'
      BY <1>0 DEF Step, Invoke, FastRead, FastCas, FastCasIf, Announce, Retract, Return,
         HelpGet, HelpRead, HelpTest, HelpCas, HelpCasFrom, HelpTake, XferTest, XferCas, ValTest,
         ValCas, Transferred, Attempted, HelpDone, Goto, TypeOK, locals, HelpInv
    <2>2. QED
      BY <1>5, <2>1 DEF HelpInv, Leaving, Xfering
  <1>6. (InLoop(t) \/ Leaving(t))' => InLoop(t) \/ Leaving(t) \/ (HelpGet(t) /\ InLoop(t)')
    BY <1>0 DEF Step, Invoke, FastRead, FastCas, FastCasIf, Announce, Retract, Return,
       HelpGet, HelpRead, HelpTest, HelpCas, HelpCasFrom, HelpTake, XferTest, XferCas, ValTest,
       ValCas, Transferred, Attempted, HelpDone, Goto, TypeOK, locals, HelpInv, InLoop, Leaving,
       Xfering, RoleInv, CurInv
  <1>7. QED
    BY <1>3, <1>4, <1>5, <1>6

\* A step keeps the announcement of its own thread in line with its position.
LEMMA OwnAnnounce ==
    ASSUME IInv, NEW t \in Thread, Step(t) \/ \E a \in Adds : Invoke(t, a)
    PROVE  AnnounceInv(t)'
  <1>0. TypeOK /\ CurInv(t) /\ RoleInv(t) /\ HelpInv(t) /\ AnnounceInv(t)
    BY DEF IInv
  <1> USE <1>0 DEF TypeOK, Goto, shared, locals, history, AnnounceInv, RoleInv, InLoop, Leaving,
          Xfering
  <1>1. CASE \E a \in Adds : Invoke(t, a)
    BY <1>1 DEF Invoke
  <1>2. CASE Announce(t)
    BY <1>2 DEF Announce
  <1>3. CASE FastRead(t) \/ HelpRead(t) \/ HelpTest(t) \/ HelpTake(t) \/ XferTest(t)
    BY <1>3 DEF FastRead, HelpRead, HelpTest, HelpTake, XferTest
  <1>4. CASE FastCas(t) \/ Retract(t) \/ Return(t)
    BY <1>4 DEF FastCas, FastCasIf, Attempted, Retract, Return
  <1>5. CASE HelpGet(t)
    <2>1. role[t] = "self" => threadObjs[helpIndex[t]] # 0
      BY <1>5 DEF HelpGet, HelpInv
    <2>2. QED
      BY <1>5, <2>1 DEF HelpGet, HelpDone
  <1>6. CASE HelpCas(t) \/ XferCas(t)
    BY <1>6 DEF HelpCas, HelpCasFrom, XferCas
  <1>7. CASE ValTest(t) \/ ValCas(t)
    <2>1. back[t] = "final" /\ role[t] = "self" =>
              helpObj[t] = Current(t) /\ tobj[Current(t)] # NoValue /\ cur[t] = tobj[Current(t)]
      BY <1>7 DEF HelpInv, ValTest, ValCas
    <2>2. UNCHANGED <<tobj, cur, role, calls, back, threadObjs>>
      BY <1>7 DEF ValTest, ValCas
    <2>3. QED
      BY <1>7, <2>1, <2>2 DEF ValTest, ValCas, Transferred, Attempted, HelpDone, Current
  <1>8. QED
    BY <1>1, <1>2, <1>3, <1>4, <1>5, <1>6, <1>7 DEF Step

\* The shared reference changes by one of three CAS, and from the object expected.
LEMMA Writers ==
    ASSUME NEW t \in Thread, Step(t) \/ (\E a \in Adds : Invoke(t, a)), valueObj' # valueObj
    PROVE  /\ valueObj = cur[t]
           /\ \/ /\ FastCas(t)
                 /\ valueObj' = Fresh(cur[t].value + req[Current(t)], NoThread)
              \/ HelpCas(t) /\ cur[t].thr = NoThread /\ valueObj' = Fresh(cur[t].value, helpObj[t])
              \/ ValCas(t) /\ valueObj' = Fresh(cur[t].value + req[cur[t].thr], NoThread)
  <1>1. CASE FastCas(t)
    BY <1>1 DEF FastCas, FastCasIf
  <1>2. CASE HelpCas(t)
    BY <1>2 DEF HelpCas, HelpCasFrom
  <1>3. CASE ValCas(t)
    BY <1>3 DEF ValCas
  <1>4. FastCas(t) \/ HelpCas(t) \/ ValCas(t)
    BY DEF Step, Invoke, FastRead, Announce, Retract, Return, HelpGet, HelpRead, HelpTest,
       HelpTake, XferTest, XferCas, ValTest, shared
  <1>5. QED
    BY <1>1, <1>2, <1>3, <1>4

\* No step anchors a value to a call that was not made or not announced.
LEMMA CallStep ==
    ASSUME IInv, NEW t \in Thread, Step(t) \/ \E a \in Adds : Invoke(t, a)
    PROVE  CallInv'
  <1>0. TypeOK /\ CallInv /\ CurInv(t) /\ RoleInv(t) /\ HelpInv(t) /\ ObjInv
    BY DEF IInv
  <1> DEFINE Referred(o) == tobj[o] # NoValue \/ valueObj.thr = o
  <1>1. ASSUME NEW o \in Op, Referred(o)'
        PROVE  Referred(o) \/ (HelpCas(t) /\ o = helpObj[t] /\ Pending(o))
    <2>1. tobj'[o] # NoValue => Referred(o)
      BY Stable
    <2>2. ASSUME valueObj'.thr = o, valueObj' # valueObj
          PROVE  HelpCas(t) /\ o = helpObj[t] /\ Pending(o)
      <3>1. HelpCas(t) /\ valueObj = cur[t] /\ valueObj' = Fresh(cur[t].value, helpObj[t])
        BY <2>2, Writers, Nulls DEF Fresh
      <3>2. Pending(helpObj[t])
        BY <1>0, <3>1 DEF HelpCas, HelpCasFrom, CurInv, HelpInv, InLoop
      <3>3. QED
        BY <2>2, <3>1, <3>2 DEF Fresh
    <2>3. QED
      BY <1>1, <2>1, <2>2
  <1>2. \A s \in Thread : calls'[s] >= calls[s] /\ calls[s] \in 0 .. MaxOps /\ calls'[s] \in 0 .. MaxOps
    <2>1. \A s \in Thread : calls'[s] \in {calls[s], calls[s] + 1}
      BY <1>0 DEF Step, Invoke, FastRead, FastCas, FastCasIf, Announce, Retract, Return, HelpGet,
         HelpRead, HelpTest, HelpCas, HelpCasFrom, HelpTake, XferTest, XferCas, ValTest, ValCas,
         history, TypeOK
    <2>2. TypeOK'
      BY TypeStep DEF Next
    <2>3. \A s \in Thread : calls[s] \in 0 .. MaxOps /\ calls'[s] \in 0 .. MaxOps
      BY <1>0, <2>2 DEF TypeOK
    <2>4. QED
      BY <2>1, <2>3, Bounds
  <1>3. ASSUME NEW o \in Op, Referred(o)', o[2] = calls'[o[1]]
        PROVE  role'[o[1]] = "self"
    <2> DEFINE q == o[1]
    <2>1. q \in Thread /\ o[2] <= calls[q] /\ (o[2] = calls[q] => role[q] = "self")
      <3>1. CASE Referred(o)
        BY <1>0, <3>1, OpFacts DEF CallInv
      <3>2. CASE HelpCas(t) /\ o = helpObj[t] /\ Pending(o)
        BY <1>0, <3>2, OpFacts, ThreadTypes, Bounds DEF Pending, Current
      <3>3. QED
        BY <1>1, <1>3, <3>1, <3>2
    <2>2. calls'[q] = calls[q] /\ role[q] = "self"
      BY <1>2, <1>3, <2>1, OpFacts, Bounds
    <2>3. CASE q # t
      BY <1>0, <2>1, <2>2, <2>3, Frame
    <2>4. CASE q = t
      BY <1>0, <2>2, <2>4, ThreadTypes, Bounds DEF Step, Invoke, FastRead, FastCas, FastCasIf,
         Announce, Retract, Return, HelpGet, HelpRead, HelpTest, HelpCas, HelpCasFrom, HelpTake,
         XferTest, XferCas, ValTest, ValCas, locals, RoleInv, TypeOK
    <2>5. QED
      BY <2>3, <2>4
  <1>4. ASSUME NEW o \in Op, Referred(o)'
        PROVE  o[2] <= calls'[o[1]]
    <2>1. o[1] \in Thread /\ o[2] \in Nat
      BY OpFacts, Bounds
    <2>2. o[2] <= calls[o[1]]
      <3>1. CASE Referred(o)
        BY <1>0, <3>1 DEF CallInv
      <3>2. CASE Pending(o)
        BY <1>0, <2>1, <3>2, ThreadTypes, Bounds DEF Pending, Current
      <3>3. QED
        BY <1>1, <1>4, <3>1, <3>2
    <2>3. QED
      BY <1>2, <2>1, <2>2, Bounds
  <1>5. QED
    BY <1>3, <1>4 DEF CallInv

\* A call gets its result once, and before it returns.
LEMMA ResultStep ==
    ASSUME IInv, NEW t \in Thread, Step(t) \/ \E a \in Adds : Invoke(t, a)
    PROVE  ResultInv'
  <1>0. TypeOK /\ ResultInv /\ RoleInv(t) /\ CurInv(t)
    BY DEF IInv
  <1>a. /\ calls[t] \in 0 .. MaxOps /\ (calls[t] # 0 => Current(t) \in Op)
        /\ cur[t].value \in Nat /\ MaxOps \in Nat /\ NoTicket \notin Nat
    BY <1>0, ThreadTypes, Bounds
  <1>b. \A o \in Op : o[1] \in Thread /\ o[2] \in 1 .. MaxOps /\ o = <<o[1], o[2]>>
    BY OpFacts
  <1> USE <1>0, <1>a DEF TypeOK, Goto, shared, locals, history, RoleInv, InLoop, Leaving, Xfering
  <1>1. ASSUME NEW s \in Thread, s # t
        PROVE  /\ \A o \in Op : o[1] = s /\ result'[o] # NoTicket =>
                    /\ o[2] <= calls'[s]
                    /\ o[2] = calls'[s] => pc'[s] \in {"idle", "return"} \/ role'[s] = "assist"
               /\ pc'[s] = "return" \/ (pc'[s] # "idle" /\ role'[s] = "assist") =>
                    result'[<<s, calls'[s]>>] # NoTicket
    <2>1. /\ UNCHANGED <<pc[s], role[s], calls[s]>>
          /\ \A k \in 1 .. MaxOps : result'[<<s, k>>] = result[<<s, k>>]
      BY <1>1, Frame
    <2>2. pc[s] # "idle" => calls[s] \in 1 .. MaxOps
      BY DEF IInv
    <2>3. QED
      BY <1>b, <2>1, <2>2 DEF ResultInv, Current
  <1>2. /\ \A o \in Op : o[1] = t /\ result'[o] # NoTicket =>
             /\ o[2] <= calls'[t]
             /\ o[2] = calls'[t] => pc'[t] \in {"idle", "return"} \/ role'[t] = "assist"
        /\ pc'[t] = "return" \/ (pc'[t] # "idle" /\ role'[t] = "assist") =>
             result'[<<t, calls'[t]>>] # NoTicket
    <2>1. CASE \E a \in Adds : Invoke(t, a)
      BY <1>b, <2>1 DEF Invoke, ResultInv
    <2>2. CASE FastCas(t)
      <3>1. CASE valueObj = cur[t]
        BY <1>b, <2>2, <3>1 DEF FastCas, FastCasIf, ResultInv, Current
      <3>2. CASE valueObj # cur[t]
        BY <1>b, <2>2, <3>2 DEF FastCas, FastCasIf, Attempted, ResultInv, Current
      <3>3. QED
        BY <3>1, <3>2
    <2>3. CASE Retract(t)
      BY <1>b, <2>3 DEF Retract, ResultInv, Current
    <2>4. CASE Announce(t) \/ Return(t) \/ FastRead(t)
      BY <1>b, <2>4 DEF Announce, Return, FastRead, ResultInv, Current
    <2>5. CASE HelpGet(t)
      BY <1>b, <2>5 DEF HelpGet, HelpDone, ResultInv, Current, IInv, HelpInv, AnnounceInv
    <2>6. CASE HelpRead(t) \/ HelpTest(t) \/ HelpCas(t) \/ HelpTake(t) \/ XferTest(t) \/ XferCas(t)
      BY <1>b, <2>6 DEF HelpRead, HelpTest, HelpCas, HelpCasFrom, HelpTake, XferTest, XferCas,
         ResultInv, Current
    <2>7. CASE ValTest(t) \/ ValCas(t)
      BY <1>b, <2>7 DEF ValTest, ValCas, Transferred, Attempted, HelpDone, ResultInv, Current
    <2>8. QED
      BY <2>1, <2>2, <2>3, <2>4, <2>5, <2>6, <2>7 DEF Step
  <1>3. QED
    BY <1>1, <1>2, <1>b DEF ResultInv, Current

-----------------------------------------------------------------------------

\* The invariant holds before the first call.
LEMMA InitInv == Init => IInv
  <1> SUFFICES ASSUME Init PROVE IInv
    OBVIOUS
  <1>1. valueObj \in ValueObj /\ 0 \in Thread /\ 0 \in 0 .. MaxOps /\ 0 \in 0 .. MaxFast
    BY Bounds DEF Init, ValueObj, Thread
  <1>2. TypeOK
    BY <1>1, Bounds DEF Init, TypeOK, PcLabels
  <1>3. ObjInv
    BY <1>1 DEF Init, ObjInv, Seen, ValueObj
  <1>4. \A t \in Thread : CurInv(t) /\ RoleInv(t) /\ HelpInv(t) /\ AnnounceInv(t)
    BY DEF Init, CurInv, RoleInv, HelpInv, AnnounceInv, InLoop, Leaving, Xfering
  <1>5. CallInv /\ ResultInv
    BY Nulls DEF Init, CallInv, ResultInv
  <1>6. QED
    BY <1>2, <1>3, <1>4, <1>5 DEF IInv

\* Every step keeps the invariant: the lemmas above, gathered over the threads.
LEMMA Inductive == IInv /\ [Next]_vars => IInv'
  <1> SUFFICES ASSUME IInv, [Next]_vars PROVE IInv'
    OBVIOUS
  <1>1. CASE Next
    <2>1. PICK t \in Thread : Step(t) \/ \E a \in Adds : Invoke(t, a)
      BY <1>1 DEF Next
    <2>2. ASSUME NEW s \in Thread
          PROVE  (CurInv(s) /\ RoleInv(s) /\ HelpInv(s) /\ AnnounceInv(s))'
      <3>1. CASE s = t
        BY <2>1, <3>1, OwnCurRole, OwnHelp, OwnAnnounce
      <3>2. CASE s # t
        BY <2>1, <3>2, OtherStep
      <3>3. QED
        BY <3>1, <3>2
    <2>3. CallInv' /\ ResultInv'
      BY <2>1, CallStep, ResultStep
    <2>4. QED
      BY <2>2, <2>3, TypeStep, ObjStep DEF IInv
  <1>2. CASE UNCHANGED vars
    BY <1>2 DEF vars, IInv, TypeOK, ObjInv, Seen, CurInv, RoleInv, HelpInv, AnnounceInv, CallInv,
       ResultInv, Pending, InLoop, Leaving, Xfering, Current
  <1>3. QED
    BY <1>1, <1>2

\* The inductive invariant holds in every reachable state.
THEOREM Invariant == Spec => []IInv
  <1>1. QED
    BY InitInv, Inductive, PTL DEF Spec

\* Every variable keeps its type; in particular the loop of help() never
\* follows a null reference (the fields it reads are of ThreadObj instances).
THEOREM TypeCorrect == Spec => []TypeOK
  <1>1. IInv => TypeOK
    BY DEF IInv
  <1>2. QED
    BY <1>1, Invariant, PTL

\* The three steps of an anchored value happen in the order of the comment.
THEOREM StepsInOrder == Spec => StepOrder
  <1>1. ASSUME IInv, [Next]_vars, valueObj.thr # NoThread, valueObj' # valueObj
        PROVE  /\ tobj[valueObj.thr] = valueObj
               /\ valueObj'.thr = NoThread
               /\ valueObj'.value = valueObj.value + req[valueObj.thr]
    <2>0. PICK t \in Thread : Step(t) \/ \E a \in Adds : Invoke(t, a)
      BY <1>1 DEF Next, vars
    <2>1. ValCas(t) /\ valueObj = cur[t]
      BY <1>1, <2>0, Writers DEF IInv, CurInv, FastCas, FastCasIf
    <2>2. valueObj' = Fresh(valueObj.value + req[valueObj.thr], NoThread)
      BY <2>1 DEF ValCas
    <2>3. tobj[valueObj.thr] # NoValue /\ tobj[valueObj.thr] \in {NoValue, valueObj}
      BY <1>1, <2>1 DEF ValCas, IInv, CurInv, ObjInv
    <2>4. QED
      BY <2>2, <2>3 DEF Fresh
  <1>2. QED
    BY <1>1, Invariant, PTL DEF Spec, StepOrder

\* No value is anchored to a call that has one already or has ended.
THEOREM NeverLate == Spec => NoLateAnchor
  <1>1. ASSUME IInv, [Next]_vars, valueObj'.thr # NoThread, valueObj' # valueObj
        PROVE  LET o == valueObj'.thr
               IN  tobj[o] = NoValue /\ result[o] = NoTicket /\ threadObjs[o[1]] = o[2]
    <2>0. PICK t \in Thread : Step(t) \/ \E a \in Adds : Invoke(t, a)
      BY <1>1 DEF Next, vars
    <2>1. HelpCas(t) /\ valueObj = cur[t] /\ valueObj' = Fresh(cur[t].value, helpObj[t])
      BY <1>1, <2>0, Writers DEF Fresh
    <2> DEFINE o == helpObj[t]
    <2>2. valueObj'.thr = o
      BY <2>1 DEF Fresh
    <2>3. o \in Op /\ tobj[o] = NoValue /\ Pending(o)
      BY <1>1, <2>1 DEF HelpCas, HelpCasFrom, IInv, CurInv, HelpInv, InLoop
    <2>4. o[1] \in Thread /\ o = Current(o[1]) /\ AnnounceInv(o[1])
      BY <1>1, <2>3, OpFacts DEF Pending, IInv
    <2>5. threadObjs[o[1]] = o[2]
      BY <2>3, <2>4 DEF Pending, AnnounceInv, Current
    <2>6. result[o] = NoTicket
      BY <1>1, <2>3, <2>4 DEF IInv, ResultInv, Pending, InLoop, Xfering, Current
    <2>7. QED
      BY <2>2, <2>3, <2>5, <2>6
  <1>2. QED
    BY <1>1, Invariant, PTL DEF Spec, NoLateAnchor

-----------------------------------------------------------------------------
(* The refinement: a step that succeeds in the CAS of the fast path or in   *)
(* the anchoring CAS is the Take of one call, all others but Invoke and     *)
(* Return stutter.                                                          *)

\* A call whose fast CAS is going to succeed has taken no effect before.
LEMMA Undecided ==
    ASSUME IInv, NEW t \in Thread, pc[t] = "fastCas"
    PROVE  (Current(t) \in Op /\ ticketOf[Current(t)] = NoTicket) \/ valueObj # cur[t]
  <1>1. TypeOK /\ CurInv(t) /\ RoleInv(t) /\ CallInv /\ ResultInv
    BY DEF IInv
  <1>2. Current(t) \in Op /\ calls[t] = Current(t)[2] /\ Current(t)[1] = t
    BY <1>1, ThreadTypes DEF RoleInv, Current
  <1>3. result[Current(t)] = NoTicket
    BY <1>1, <1>2 DEF ResultInv, RoleInv
  <1>4. tobj[Current(t)] = NoValue
    BY <1>1, <1>2 DEF CallInv, RoleInv
  <1>5. valueObj = cur[t] => valueObj.thr = NoThread
    BY <1>1 DEF CurInv
  <1>6. QED
    BY <1>2, <1>3, <1>4, <1>5, Nulls DEF ticketOf

\* The CAS of the fast path is the Take of its own call.
LEMMA FastCasTakes ==
    ASSUME IInv, NEW t \in Thread, FastCas(t), valueObj = cur[t]
    PROVE  FA!Take(t)
  <1> DEFINE o == Current(t)
  <1>1. TypeOK /\ CurInv(t)
    BY DEF IInv
  <1>2. o \in Op /\ ticketOf[o] = NoTicket
    BY Undecided DEF FastCas, FastCasIf
  <1>3. /\ valueObj' = Fresh(cur[t].value + req[o], NoThread)
        /\ result' = [result EXCEPT ![o] = cur[t].value]
        /\ pc[t] = "fastCas" /\ pc' = [pc EXCEPT ![t] = "helpGet"]
        /\ UNCHANGED <<tobj, req, calls>>
    BY DEF FastCas, FastCasIf, Goto
  <1>4. valueObj.thr = NoThread /\ valueObj'.thr = NoThread
        /\ valueObj'.value = valueObj.value + req[o] /\ valueObj.value \in Nat
    BY <1>1, <1>3, ThreadTypes DEF CurInv, Fresh
  <1>5. totalOf = valueObj.value /\ totalOf' = valueObj.value + req[o]
    BY <1>4 DEF totalOf
  <1>6. ticketOf' = [ticketOf EXCEPT ![o] = valueObj.value]
    <2>1. NoTicket \notin Nat
      BY Bounds
    <2>2. \A p \in Op : p # o => result'[p] = result[p]
      BY <1>1, <1>3 DEF TypeOK
    <2>3. result'[o] = valueObj.value
      BY <1>1, <1>2, <1>3 DEF TypeOK
    <2>4. \A p \in Op : ticketOf'[p] = IF p = o THEN valueObj.value ELSE ticketOf[p]
      BY <1>3, <1>4, <2>1, <2>2, <2>3, Nulls DEF ticketOf
    <2>5. QED
      BY ZenonT(60), <1>2, <2>4 DEF ticketOf
  <1>7. UNCHANGED [s \in Thread |-> pc[s] # "idle"]
    BY <1>1, <1>3 DEF TypeOK
  <1>8. QED
    BY <1>2, <1>3, <1>5, <1>6, <1>7 DEF FA!Take, FA!Current, Current, inCallOf

\* The CAS that anchors the value is the Take of the call it is anchored to.
LEMMA AnchorTakes ==
    ASSUME IInv, NEW t \in Thread, HelpCas(t), valueObj = cur[t]
    PROVE  helpObj[t][1] \in Thread /\ FA!Take(helpObj[t][1])
  <1> DEFINE o == helpObj[t]
  <1>1. TypeOK /\ CurInv(t) /\ HelpInv(t) /\ ResultInv /\ pc[t] = "helpCas"
    BY DEF IInv, HelpCas, HelpCasFrom
  <1>2. /\ o \in Op /\ tobj[o] = NoValue /\ Pending(o) /\ cur[t].thr = NoThread
    BY <1>1 DEF CurInv, HelpInv, InLoop
  <1>3. o[1] \in Thread /\ o = Current(o[1]) /\ result[o] = NoTicket /\ pc[o[1]] # "idle"
    <2>1. o[1] \in Thread /\ o = Current(o[1]) /\ role[o[1]] = "self"
          /\ pc[o[1]] \notin {"idle", "return"}
      BY <1>2, OpFacts DEF Pending, InLoop, Xfering
    <2>2. o[2] = calls[o[1]]
      BY <2>1 DEF Current
    <2>3. QED
      BY <1>1, <1>2, <2>1, <2>2 DEF ResultInv
  <1>4. /\ valueObj' = Fresh(valueObj.value, o)
        /\ pc' = [pc EXCEPT ![t] = "xferTest"]
        /\ UNCHANGED <<tobj, req, calls, result>>
    BY <1>2 DEF HelpCas, HelpCasFrom, Goto, history
  <1>5. valueObj.thr = NoThread /\ valueObj'.thr = o /\ valueObj'.value = valueObj.value
    BY <1>2, <1>4 DEF Fresh
  <1>6. totalOf = valueObj.value /\ totalOf' = valueObj.value + req[o]
    BY <1>2, <1>4, <1>5, Nulls DEF totalOf
  <1>7. ticketOf[o] = NoTicket /\ ticketOf' = [ticketOf EXCEPT ![o] = valueObj.value]
    BY <1>2, <1>3, <1>4, <1>5, Nulls DEF ticketOf
  <1>8. UNCHANGED [s \in Thread |-> pc[s] # "idle"]
    BY <1>1, <1>4 DEF TypeOK
  <1>9. QED
    BY <1>3, <1>4, <1>6, <1>7, <1>8 DEF FA!Take, FA!Current, Current, inCallOf

\* Every other step of a call leaves its mapped state as it is.
LEMMA OthersStutter ==
    ASSUME IInv, NEW t \in Thread, Step(t), ~Return(t),
           ~(FastCas(t) /\ valueObj = cur[t]), ~(HelpCas(t) /\ valueObj = cur[t])
    PROVE  UNCHANGED FA!vars
  <1>1. TypeOK /\ ObjInv /\ CurInv(t) /\ RoleInv(t) /\ AnnounceInv(t) /\ ResultInv
    BY DEF IInv
  <1>2. UNCHANGED <<calls, req>>
    BY DEF Step, FastRead, FastCas, FastCasIf, Announce, Retract, Return, HelpGet, HelpRead,
       HelpTest, HelpCas, HelpCasFrom, HelpTake, XferTest, XferCas, ValTest, ValCas, history
  <1>3. UNCHANGED [s \in Thread |-> pc[s] # "idle"]
    <2>1. pc[t] # "idle" /\ pc'[t] # "idle" /\ \A s \in Thread : s # t => pc'[s] = pc[s]
      BY <1>1 DEF TypeOK, Goto, Step, FastRead, FastCas, FastCasIf, Attempted, Announce, Retract,
         HelpGet, HelpDone, HelpRead, HelpTest, HelpCas, HelpCasFrom, HelpTake, XferTest,
         XferCas, ValTest, ValCas, Transferred
    <2>2. QED
      BY <2>1
  <1> SUFFICES UNCHANGED <<ticketOf, totalOf>>
    BY <1>2, <1>3 DEF FA!vars, inCallOf
  <1>4. ASSUME UNCHANGED <<valueObj, tobj, result>>
        PROVE  UNCHANGED <<ticketOf, totalOf>>
    BY <1>2, <1>4 DEF ticketOf, totalOf
  <1>5. CASE ValCas(t)
    <2>1. CASE valueObj # cur[t]
      BY <1>4, <1>5, <2>1 DEF ValCas, history
    <2>2. CASE valueObj = cur[t]
      <3> DEFINE q == valueObj.thr
      <3>1. q \in Op /\ q # NoThread /\ tobj[q] = valueObj
        BY <1>1, <1>5, <2>2, ThreadTypes DEF ValCas, CurInv, ObjInv, Xfering
      <3>2. valueObj'.thr = NoThread /\ valueObj'.value = valueObj.value + req[q]
            /\ UNCHANGED <<tobj, result>>
        BY <1>5, <2>2 DEF ValCas, Fresh, history
      <3>3. UNCHANGED totalOf
        BY <1>2, <3>1, <3>2 DEF totalOf
      <3>4. tobj[q] # NoValue
        BY <1>1, <3>1, Nulls DEF TypeOK
      <3>5. UNCHANGED ticketOf
        BY <3>1, <3>2, <3>4, Nulls DEF ticketOf
      <3>6. QED
        BY <3>3, <3>5
    <2>3. QED
      BY <2>1, <2>2
  <1>6. CASE XferCas(t)
    <2> DEFINE q == cur[t].thr
    <2>1. q \in Op /\ q # NoThread /\ Seen(cur[t])
      BY <1>1, <1>6, ThreadTypes DEF XferCas, CurInv, ObjInv, Xfering
    <2>2. tobj[q] = NoValue => cur[t] = valueObj /\ cur[t] # NoValue
      BY <1>1, <2>1, Nulls DEF Seen, TypeOK
    <2>3. /\ tobj' = [tobj EXCEPT ![q] = IF tobj[q] = NoValue THEN cur[t] ELSE tobj[q]]
          /\ UNCHANGED <<valueObj, result>>
      BY <1>6 DEF XferCas, history
    <2>4. CASE tobj[q] # NoValue
      <3>1. tobj' = tobj
        BY <1>1, <2>1, <2>3, <2>4 DEF TypeOK
      <3>2. QED
        BY <1>4, <2>3, <3>1
    <2>5. CASE tobj[q] = NoValue
      <3>1. /\ tobj'[q] = valueObj /\ valueObj.thr = q /\ valueObj # NoValue
            /\ \A p \in Op : p # q => tobj'[p] = tobj[p]
        BY <1>1, <2>1, <2>2, <2>3, <2>5 DEF TypeOK
      <3>2. UNCHANGED ticketOf
        BY <2>3, <2>5, <3>1 DEF ticketOf
      <3>3. UNCHANGED totalOf
        BY <1>2, <2>3 DEF totalOf
      <3>4. QED
        BY <3>2, <3>3
    <2>6. QED
      BY <2>4, <2>5
  <1>7. CASE Retract(t)
    <2> DEFINE o == Current(t)
    <2>1. o \in Op /\ tobj[o] # NoValue /\ cur[t] = tobj[o] /\ pc[t] = "retract"
      BY <1>1, <1>7, ThreadTypes DEF Retract, RoleInv, AnnounceInv
    <2>2. result[o] = NoTicket
      BY <1>1, <2>1 DEF ResultInv, RoleInv, Current
    <2>3. result' = [result EXCEPT ![o] = cur[t].value] /\ UNCHANGED <<valueObj, tobj>>
      BY <1>7 DEF Retract
    <2>4. result'[o] = tobj[o].value /\ result'[o] # NoTicket
          /\ \A p \in Op : p # o => result'[p] = result[p]
      BY <1>1, <2>1, <2>3, ThreadTypes, Bounds DEF TypeOK
    <2>5. UNCHANGED ticketOf
      BY <2>1, <2>2, <2>3, <2>4 DEF ticketOf
    <2>6. UNCHANGED totalOf
      BY <1>2, <2>3 DEF totalOf
    <2>7. QED
      BY <2>5, <2>6
  <1>8. CASE FastCas(t) \/ HelpCas(t)
    BY <1>4, <1>8 DEF FastCas, FastCasIf, HelpCas, HelpCasFrom, history
  <1>9. CASE ~(ValCas(t) \/ XferCas(t) \/ Retract(t) \/ FastCas(t) \/ HelpCas(t))
    BY <1>4, <1>9 DEF Step, FastRead, Announce, HelpGet, HelpRead, HelpTest, HelpTake, XferTest,
       ValTest, shared, history
  <1>10. QED
    BY <1>5, <1>6, <1>7, <1>8, <1>9

\* The return of a call is the Return of the abstract counter.
LEMMA ReturnMaps ==
    ASSUME IInv, NEW t \in Thread, Return(t)
    PROVE  FA!Return(t)
  <1>1. TypeOK /\ RoleInv(t) /\ ResultInv /\ pc[t] = "return"
    BY DEF IInv, Return
  <1>2. Current(t) \in Op /\ ticketOf[Current(t)] # NoTicket
    BY <1>1, ThreadTypes DEF RoleInv, ResultInv, ticketOf
  <1>3. UNCHANGED <<ticketOf, totalOf>> /\ UNCHANGED <<calls, req>>
    BY DEF Return, shared, history, ticketOf, totalOf
  <1>4. pc' = [pc EXCEPT ![t] = "idle"]
    BY DEF Return, Goto
  <1>5. [s \in Thread |-> pc[s] # "idle"]' = [[s \in Thread |-> pc[s] # "idle"] EXCEPT ![t] = FALSE]
    BY <1>1, <1>4 DEF TypeOK
  <1>6. QED
    BY <1>1, <1>2, <1>3, <1>5 DEF FA!Return, FA!Current, Current, inCallOf

\* The invocation of a call is the Invoke of the abstract counter: no object
\* is anchored to the new call yet.
LEMMA InvokeMaps ==
    ASSUME IInv, NEW t \in Thread, NEW a \in Adds, Invoke(t, a)
    PROVE  FA!Invoke(t, a)
  <1>1. TypeOK /\ CallInv /\ pc[t] = "idle"
    BY DEF IInv, Invoke
  <1> DEFINE new == <<t, calls[t] + 1>>
  <1>2. calls[t] \in Nat
    BY <1>1, ThreadTypes, Bounds
  <1>3. valueObj.thr # NoThread => valueObj.thr \in Op /\ valueObj.thr # new
    <2>1. valueObj.thr # NoThread => valueObj.thr \in Op /\ valueObj.thr[2] <= calls[valueObj.thr[1]]
      BY <1>1, ThreadTypes DEF CallInv
    <2>2. QED
      BY <1>2, <2>1
  <1>4. /\ req' = [req EXCEPT ![new] = a] /\ calls' = [calls EXCEPT ![t] = calls[t] + 1]
        /\ calls[t] < MaxOps /\ pc' = [pc EXCEPT ![t] = "fastRead"]
        /\ UNCHANGED <<valueObj, tobj, result>>
    BY DEF Invoke, Goto, shared
  <1>5. UNCHANGED totalOf
    BY <1>1, <1>3, <1>4 DEF totalOf, TypeOK
  <1>6. UNCHANGED ticketOf
    BY <1>4 DEF ticketOf
  <1>7. [s \in Thread |-> pc[s] # "idle"]' = [[s \in Thread |-> pc[s] # "idle"] EXCEPT ![t] = TRUE]
    BY <1>1, <1>4 DEF TypeOK
  <1>8. QED
    BY <1>1, <1>4, <1>5, <1>6, <1>7 DEF FA!Invoke, inCallOf

\* The counter implements FetchAndAdd: every call takes effect at one instant
\* inside it, on the fast path as well as through a helper.
THEOREM ImplementsFetchAndAdd == Spec => FASpec
  <1>1. Init => FA!Init
    <2> SUFFICES ASSUME Init PROVE FA!Init
      OBVIOUS
    <2>1. totalOf = 0
      BY DEF Init, totalOf
    <2>2. ticketOf = [o \in Op |-> NoTicket]
      BY Nulls DEF Init, ticketOf
    <2>3. QED
      BY <2>1, <2>2 DEF Init, FA!Init, FA!Thread, FA!Op, Thread, Op, inCallOf
  <1>2. IInv /\ [Next]_vars => [FA!Next]_(FA!vars)
    <2> SUFFICES ASSUME IInv, [Next]_vars PROVE FA!Next \/ UNCHANGED FA!vars
      OBVIOUS
    <2>0. FA!Thread = Thread
      BY DEF FA!Thread, Thread
    <2>1. ASSUME NEW t \in Thread, NEW a \in Adds, Invoke(t, a)
          PROVE  FA!Next
      BY <2>0, <2>1, InvokeMaps DEF FA!Next
    <2>2. ASSUME NEW t \in Thread, Step(t)
          PROVE  FA!Next \/ UNCHANGED FA!vars
      BY <2>0, <2>2, ReturnMaps, FastCasTakes, AnchorTakes, OthersStutter DEF FA!Next
    <2>3. CASE UNCHANGED vars
      BY <2>3 DEF vars, FA!vars, ticketOf, totalOf, inCallOf
    <2>4. QED
      BY <2>1, <2>2, <2>3 DEF Next
  <1>3. QED
    BY <1>1, <1>2, Invariant, PTL DEF Spec, FASpec, FA!Spec

-----------------------------------------------------------------------------
(* The abstract counter.                                                   *)

\* A call is a thread and a number; every such pair is a call.
LEMMA AbstractCalls ==
    /\ \A o \in FA!Op : o[1] \in FA!Thread /\ o[2] \in 1 .. MaxOps /\ o = <<o[1], o[2]>>
    /\ \A t \in FA!Thread, k \in 1 .. MaxOps : <<t, k>> \in FA!Op
  BY DEF FA!Op

\* Each value is handed out once, whatever the number of threads and calls: the
\* step from one total to the next is one call's (getAndIncrement, abstractly).
LEMMA EachValueOnce ==
    ASSUME FA!CounterAssumption
    PROVE  FA!Spec => []FA!TicketsDisjoint
  <1> DEFINE Inv == FA!TypeInv /\ FA!TicketInv
  <1>0. MaxOps \in Nat /\ Adds \subseteq Nat /\ NoTicket \notin Nat
    BY DEF FA!CounterAssumption
  <1>1. FA!Init => Inv
    BY <1>0 DEF FA!Init, FA!TypeInv, FA!TicketInv, FA!TicketsDisjoint
  <1>2. Inv /\ [FA!Next]_(FA!vars) => Inv'
    <2> SUFFICES ASSUME FA!TypeInv, FA!TicketInv, [FA!Next]_(FA!vars) PROVE Inv'
      OBVIOUS
    <2>1. ASSUME NEW t \in FA!Thread, NEW a \in Adds, FA!Invoke(t, a)
          PROVE  Inv'
      <3> DEFINE new == <<t, calls[t] + 1>>
      <3>1. calls[t] \in 0 .. MaxOps /\ calls[t] + 1 \in 1 .. MaxOps /\ a \in Nat
        <4>1. calls[t] \in 0 .. MaxOps /\ calls[t] < MaxOps
          BY <2>1 DEF FA!Invoke, FA!TypeInv
        <4>2. QED
          BY <1>0, <4>1
      <3>2. new \in FA!Op /\ ticketOf[new] = NoTicket
        BY <3>1, AbstractCalls DEF FA!TicketInv
      <3>3. /\ \A s \in FA!Thread : calls'[s] \in 0 .. MaxOps /\ calls'[s] >= calls[s]
            /\ \A s \in FA!Thread : inCallOf'[s] => calls'[s] # 0
            /\ calls' \in [FA!Thread -> 0 .. MaxOps]
        BY <1>0, <2>1, <3>1 DEF FA!Invoke, FA!TypeInv, FA!TicketInv
      <3>4. \A o \in FA!Op : o # new => req'[o] = req[o]
        BY <2>1, <3>2 DEF FA!Invoke, FA!TypeInv
      <3>5. FA!TypeInv'
        BY <1>0, <2>1, <3>1, <3>3 DEF FA!Invoke, FA!TypeInv
      <3>6. \A o \in FA!Op : ticketOf'[o] # NoTicket => o # new
        BY <2>1, <3>2 DEF FA!Invoke
      <3>7. ASSUME NEW o \in FA!Op, ticketOf'[o] # NoTicket
            PROVE  ticketOf'[o] + req'[o] <= totalOf' /\ o[2] <= calls'[o[1]]
        <4>1. o[1] \in FA!Thread /\ o[2] \in Nat /\ calls[o[1]] \in Nat /\ calls'[o[1]] \in Nat
          BY <1>0, <3>5, AbstractCalls DEF FA!TypeInv
        <4>2. UNCHANGED <<totalOf, ticketOf>>
          BY <2>1 DEF FA!Invoke
        <4>3. QED
          BY <3>3, <3>4, <3>6, <3>7, <4>1, <4>2, AbstractCalls DEF FA!TicketInv
      <3>8. FA!TicketsDisjoint'
        BY <2>1, <3>4, <3>6 DEF FA!Invoke, FA!TicketInv, FA!TicketsDisjoint
      <3>9. QED
        BY <3>3, <3>5, <3>7, <3>8 DEF FA!TicketInv
    <2>2. ASSUME NEW t \in FA!Thread, FA!Take(t)
          PROVE  Inv'
      <3> DEFINE o == FA!Current(t)
      <3>1. o \in FA!Op /\ o[1] = t /\ o[2] = calls[t]
        <4>1. calls[t] \in 1 .. MaxOps
          BY <1>0, <2>2 DEF FA!Take, FA!TypeInv, FA!TicketInv
        <4>2. QED
          BY <4>1, AbstractCalls DEF FA!Current
      <3>2. req[o] \in Nat /\ totalOf' = totalOf + req[o] /\ ticketOf' = [ticketOf EXCEPT ![o] = totalOf]
        BY <2>2, <3>1 DEF FA!Take, FA!TypeInv
      <3>3. FA!TypeInv'
        <4>1. totalOf' \in Nat
          BY <3>2 DEF FA!TypeInv
        <4>2. ticketOf' \in [FA!Op -> Nat \cup {NoTicket}]
          BY <3>1, <3>2 DEF FA!TypeInv
        <4>3. QED
          BY <2>2, <4>1, <4>2 DEF FA!Take, FA!TypeInv
      <3>4. \A p \in FA!Op : p # o => ticketOf'[p] = ticketOf[p]
        BY <3>1, <3>2 DEF FA!TypeInv
      <3>5. ticketOf'[o] = totalOf
        BY <3>1, <3>2 DEF FA!TypeInv
      <3>6. ASSUME NEW p \in FA!Op, ticketOf'[p] # NoTicket
            PROVE  ticketOf'[p] + req[p] <= totalOf' /\ p[2] <= calls[p[1]]
        <4>1. CASE p = o
          BY <3>1, <3>2, <3>5, <4>1, <1>0, AbstractCalls DEF FA!TypeInv
        <4>2. CASE p # o
          <5>1. ticketOf[p] \in Nat /\ req[p] \in Nat /\ totalOf \in Nat /\ ticketOf[p] + req[p] <= totalOf
            BY <3>4, <3>6, <4>2 DEF FA!TypeInv, FA!TicketInv
          <5>2. QED
            BY <3>2, <3>4, <3>6, <4>2, <5>1 DEF FA!TicketInv
        <4>3. QED
          BY <4>1, <4>2
      <3>7. FA!TicketsDisjoint'
        <4> SUFFICES ASSUME NEW p1 \in FA!Op, NEW p2 \in FA!Op, p1 # p2,
                            ticketOf'[p1] # NoTicket, ticketOf'[p2] # NoTicket
                     PROVE  \/ ticketOf'[p1] + req[p1] <= ticketOf'[p2]
                            \/ ticketOf'[p2] + req[p2] <= ticketOf'[p1]
          BY <2>2 DEF FA!Take, FA!TicketsDisjoint
        <4>1. CASE p1 = o
          BY <3>4, <3>5, <4>1 DEF FA!TicketInv
        <4>2. CASE p2 = o
          BY <3>4, <3>5, <4>2 DEF FA!TicketInv
        <4>3. CASE p1 # o /\ p2 # o
          BY <3>4, <4>3 DEF FA!TicketInv, FA!TicketsDisjoint
        <4>4. QED
          BY <4>1, <4>2, <4>3
      <3>8. QED
        BY <2>2, <3>3, <3>6, <3>7 DEF FA!Take, FA!TicketInv
    <2>3. ASSUME NEW t \in FA!Thread, FA!Return(t)
          PROVE  Inv'
      BY <2>3 DEF FA!Return, FA!TypeInv, FA!TicketInv, FA!TicketsDisjoint
    <2>4. CASE UNCHANGED FA!vars
      BY <2>4 DEF FA!vars, FA!TypeInv, FA!TicketInv, FA!TicketsDisjoint
    <2>5. QED
      BY <2>1, <2>2, <2>3, <2>4 DEF FA!Next
  <1>3. Inv => FA!TicketsDisjoint
    BY DEF FA!TicketInv
  <1>4. QED
    BY <1>1, <1>2, <1>3, PTL DEF FA!Spec

\* No counter value is handed to two calls: the calls of the code are those of
\* the abstract counter.
THEOREM NoValueTwice == Spec => []TicketsDisjoint
  <1>1. FA!CounterAssumption
    BY Bounds DEF FA!CounterAssumption
  <1>2. FA!Spec => []FA!TicketsDisjoint
    BY <1>1, EachValueOnce
  <1>3. FASpec => []FA!TicketsDisjoint
    BY <1>2 DEF FASpec
  <1>4. TicketsDisjoint <=> FA!TicketsDisjoint
    BY DEF TicketsDisjoint
  <1>5. QED
    BY <1>3, <1>4, ImplementsFetchAndAdd, PTL

-----------------------------------------------------------------------------
(* The bounds of WaitFreeBound: the history variables only count, so the    *)
(* invariant above holds of BSpec as well.                                  *)

\* The steps from index i up to index t, round the indices.
Distance(i, t) == IF i <= t THEN t - i ELSE t - i + N

\* Thread s has made its own call and is helping the next thread.
Assisting(s) == role[s] = "assist" /\ (pc[s] = "helpGet" \/ InLoop(s) \/ Leaving(s))

\* An assisting thread helps the thread that its index names.
AssistInv(s) ==
    /\ Assisting(s) => helpIndex[s] = index[s]
    /\ InLoop(s) \/ Leaving(s) => helpObj[s][1] = helpIndex[s]

\* Each success of s moves its index one on, until it meets the announcement:
\* then it stays in help() until the call of t is decided.
OvertakeInv(t, s) ==
    /\ overtaken[t][s] <= N
    /\ Waiting(t) /\ s # t =>
         /\ ~Assisting(s) => overtaken[t][s] + Distance(index[s], t) + 1 <= N
         /\ Assisting(s) /\ index[s] # t => overtaken[t][s] + Distance(index[s], t) <= N
         /\ Assisting(s) /\ index[s] = t =>
              \/ overtaken[t][s] = 0
              \/ pc[s] = "helpGet"
              \/ (InLoop(s) /\ helpObj[s] = Current(t))

\* The object in the shared reference is anchored and not yet raised.
anchored == IF valueObj.thr = NoThread THEN 0 ELSE 1

\* A round is spoilt only when the shared reference changes, and of every two
\* changes one decides a call; the one to come that does not is counted here.
RoundsInv(t) ==
    /\ ~InLoop(t) => rounds[t] = 0 /\ passed[t] = 0
    /\ InLoop(t) /\ pc[t] # "helpRead" /\ cur[t] = valueObj =>
         rounds[t] + anchored <= 2 * passed[t] + 2
    /\ InLoop(t) /\ (pc[t] = "helpRead" \/ cur[t] # valueObj) =>
         rounds[t] + anchored <= 2 * passed[t] + 1

BoundTypes ==
    /\ overtaken \in [Thread -> [Thread -> Nat]]
    /\ rounds \in [Thread -> Nat]
    /\ passed \in [Thread -> Nat]

BoundInv ==
    /\ BoundTypes
    /\ \A s \in Thread : AssistInv(s)
    /\ \A t \in Thread : RoundsInv(t)
    /\ \A t, s \in Thread : OvertakeInv(t, s)

\* The distance is less than N; one index further on it is one less, until it
\* starts again.
LEMMA DistanceFacts ==
    ASSUME NEW i \in Thread, NEW t \in Thread
    PROVE  /\ Distance(i, t) \in Nat /\ Distance(i, t) + 1 <= N
           /\ i = t => Distance(i, t) = 0
           /\ i # t => Distance((i + 1) % N, t) + 1 = Distance(i, t)
  <1>1. i \in Nat /\ t \in Nat /\ i < N /\ t < N /\ N \in Nat \ {0}
    BY Bounds DEF Thread
  <1>2. CASE i + 1 < N
    <2>1. (i + 1) % N = i + 1
      BY <1>1, <1>2
    <2>2. QED
      BY <1>1, <1>2, <2>1 DEF Distance
  <1>3. CASE i + 1 = N
    <2>1. (i + 1) % N = 0
      BY <1>1, <1>3
    <2>2. QED
      BY <1>1, <1>3, <2>1 DEF Distance
  <1>4. QED
    BY <1>1, <1>2, <1>3

\* A step of the counter with its history is a step of the counter.
LEMMA CountedStep ==
    ASSUME [BNext]_boundVars
    PROVE  [Next]_vars
  BY DEF BNext, boundVars

\* The counts stay natural numbers.
LEMMA BoundTypesStep ==
    ASSUME BoundTypes, Count
    PROVE  BoundTypes'
  <1>1. overtaken' \in [Thread -> [Thread -> Nat]]
    <2>1. \A t, s \in Thread : overtaken[t][s] \in Nat /\ overtaken[t][s] + 1 \in Nat
      BY DEF BoundTypes
    <2>2. \A t \in Thread : [s \in Thread |->
            IF ~Waiting(t) THEN 0
            ELSE IF s # t /\ Wins(s) THEN overtaken[t][s] + 1 ELSE overtaken[t][s]]
              \in [Thread -> Nat]
      BY <2>1
    <2>3. QED
      BY <2>2 DEF Count
  <1>2. rounds' \in [Thread -> Nat] /\ passed' \in [Thread -> Nat]
    BY DEF BoundTypes, Count
  <1>3. QED
    BY <1>1, <1>2 DEF BoundTypes

\* A thread moves its own index only, and that when it returns from assisting.
LEMMA IndexStep ==
    ASSUME TypeOK, NEW u \in Thread, Step(u) \/ \E a \in Adds : Invoke(u, a)
    PROVE  /\ \A s \in Thread : s # u => index'[s] = index[s]
           /\ \/ index'[u] = index[u]
              \/ /\ role[u] = "assist" /\ pc'[u] = "return"
                 /\ index'[u] = (index[u] + 1) % N
                 /\ pc[u] = "helpGet" \/ Leaving(u)
  <1> USE DEF TypeOK, Goto, shared, locals, history
  <1>1. CASE HelpGet(u)
    BY <1>1 DEF HelpGet, HelpDone
  <1>2. CASE ValTest(u) \/ ValCas(u)
    BY <1>2 DEF ValTest, ValCas, Transferred, Attempted, HelpDone, Leaving, Xfering
  <1>3. CASE ~(HelpGet(u) \/ ValTest(u) \/ ValCas(u))
    <2>1. UNCHANGED index
      BY <1>3 DEF Step, Invoke, FastRead, FastCas, FastCasIf, Announce, Retract, Return, HelpRead,
         HelpTest, HelpCas, HelpCasFrom, HelpTake, XferTest, XferCas
    <2>2. QED
      BY <2>1
  <1>4. QED
    BY <1>1, <1>2, <1>3

\* What an assisting thread knows of its index.
LEMMA AssistStep ==
    ASSUME IInv, NEW u \in Thread, Step(u) \/ (\E a \in Adds : Invoke(u, a)),
           NEW s \in Thread, AssistInv(s)
    PROVE  AssistInv(s)'
  <1>1. TypeOK /\ RoleInv(s)
    BY DEF IInv
  <1>2. CASE s # u
    <2>1. index'[s] = index[s]
      BY <1>1, <1>2, IndexStep
    <2>2. QED
      BY <1>1, <1>2, <2>1, Frame DEF AssistInv, Assisting, InLoop, Leaving, Xfering
  <1>3. CASE s = u
    <2> USE <1>1, <1>3 DEF TypeOK, Goto, shared, locals, history, AssistInv, Assisting, InLoop,
            Leaving, Xfering
    <2>1. CASE \E a \in Adds : Invoke(u, a)
      BY <2>1 DEF Invoke
    <2>2. CASE FastRead(u) \/ Announce(u) \/ Retract(u) \/ Return(u)
      BY <2>2 DEF FastRead, Announce, Retract, Return, RoleInv
    <2>3. CASE FastCas(u)
      BY <2>3 DEF FastCas, FastCasIf, Attempted, RoleInv
    <2>4. CASE HelpGet(u)
      BY <2>4 DEF HelpGet, HelpDone
    <2>5. CASE HelpRead(u) \/ HelpTest(u) \/ HelpCas(u) \/ HelpTake(u)
      BY <2>5 DEF HelpRead, HelpTest, HelpCas, HelpCasFrom, HelpTake
    <2>6. CASE XferTest(u) \/ XferCas(u)
      BY <2>6 DEF XferTest, XferCas
    <2>7. CASE ValTest(u) \/ ValCas(u)
      BY <2>7 DEF ValTest, ValCas, Transferred, Attempted, HelpDone, RoleInv
    <2>8. QED
      BY <2>1, <2>2, <2>3, <2>4, <2>5, <2>6, <2>7 DEF Step
  <1>4. QED
    BY <1>2, <1>3

\* Of the steps that change the shared reference, one that finds it not
\* anchored decides a call, and one that finds it anchored raises it.
LEMMA Decides ==
    ASSUME IInv, NEW u \in Thread, Step(u) \/ (\E a \in Adds : Invoke(u, a)),
           valueObj' # valueObj
    PROVE  \/ valueObj.thr = NoThread /\ \E o \in Op : ~Decided(o) /\ Decided(o)'
           \/ valueObj.thr # NoThread /\ valueObj'.thr = NoThread
  <1>1. TypeOK /\ CurInv(u) /\ valueObj = cur[u]
    BY Writers DEF IInv
  <1>2. ASSUME NEW t \in Thread, FA!Take(t)
        PROVE  \E o \in Op : ~Decided(o) /\ Decided(o)'
    <2> DEFINE o == <<t, calls[t]>>
    <2>1. ticketOf[o] = NoTicket /\ ticketOf' = [ticketOf EXCEPT ![o] = totalOf]
      BY <1>2 DEF FA!Take, FA!Current
    <2>2. pc[t] # "idle"
      BY <1>2 DEF FA!Take, inCallOf
    <2>3. o \in Op
      BY <1>1, <2>2, ThreadTypes DEF Current, IInv, RoleInv
    <2>4. totalOf # NoTicket
      <3>1. valueObj.value \in Nat /\ \A p \in Op : req[p] \in Nat
        BY <1>1 DEF TypeOK, ValueObj
      <3>2. valueObj.thr \in Op \cup {NoThread}
        BY <1>1 DEF TypeOK, ValueObj
      <3>3. QED
        BY <3>1, <3>2, Bounds DEF totalOf
    <2>5. ticketOf'[o] = totalOf
      BY <2>1, <2>3 DEF ticketOf
    <2>6. QED
      BY <2>1, <2>3, <2>4, <2>5 DEF Decided
  <1>3. CASE FastCas(u)
    <2>1. valueObj.thr = NoThread
      BY <1>1, <1>3 DEF FastCas, FastCasIf, CurInv
    <2>2. QED
      BY <1>1, <1>2, <1>3, <2>1, FastCasTakes
  <1>4. CASE HelpCas(u) /\ cur[u].thr = NoThread
    BY <1>1, <1>2, <1>4, AnchorTakes
  <1>5. CASE ValCas(u) /\ valueObj' = Fresh(cur[u].value + req[cur[u].thr], NoThread)
    BY <1>1, <1>5 DEF ValCas, CurInv, Xfering, Fresh
  <1>6. QED
    BY <1>3, <1>4, <1>5, Writers

\* How a thread goes round the loop of help(): a round that reads the shared
\* reference again found it changed.
LEMMA LoopStep ==
    ASSUME IInv, NEW u \in Thread, Step(u) \/ (\E a \in Adds : Invoke(u, a)),
           NEW t \in Thread, InLoop(t)'
    PROVE  \/ ~InLoop(t) /\ pc'[t] = "helpRead"
           \/ InLoop(t) /\ pc'[t] = pc[t] /\ cur'[t] = cur[t] /\ t # u
           \/ /\ InLoop(t) /\ pc[t] = "helpRead" /\ pc'[t] = "helpTest"
              /\ cur'[t] = valueObj /\ UNCHANGED valueObj
           \/ /\ InLoop(t) /\ pc[t] # "helpRead" /\ pc'[t] # "helpRead"
              /\ cur'[t] = cur[t] /\ UNCHANGED valueObj
           \/ /\ InLoop(t) /\ pc[t] # "helpRead" /\ pc'[t] # "helpRead"
              /\ cur[t] = valueObj /\ cur'[t] = valueObj' /\ valueObj.thr = NoThread
              /\ valueObj' # valueObj
           \/ /\ InLoop(t) /\ pc[t] # "helpRead" /\ pc'[t] = "helpRead"
              /\ cur[t] # valueObj /\ UNCHANGED valueObj
           \/ /\ InLoop(t) /\ pc[t] # "helpRead" /\ pc'[t] = "helpRead"
              /\ cur[t] = valueObj /\ valueObj.thr # NoThread /\ valueObj'.thr = NoThread
  <1>1. TypeOK /\ CurInv(t) /\ RoleInv(t) /\ HelpInv(t)
    BY DEF IInv
  <1>2. CASE t # u
    <2>1. InLoop(t) /\ pc'[t] = pc[t] /\ cur'[t] = cur[t]
      BY <1>1, <1>2, Frame DEF InLoop, Xfering
    <2>2. QED
      BY <1>2, <2>1
  <1>3. CASE t = u
    <2> USE <1>1, <1>3 DEF TypeOK, Goto, shared, locals, history, InLoop, Xfering
    <2>1. CASE \E a \in Adds : Invoke(u, a)
      BY <2>1 DEF Invoke
    <2>2. CASE FastRead(u) \/ Announce(u) \/ Retract(u) \/ Return(u) \/ HelpTake(u)
      BY <2>2 DEF FastRead, Announce, Retract, Return, HelpTake
    <2>3. CASE FastCas(u)
      BY <2>3 DEF FastCas, FastCasIf, Attempted
    <2>4. CASE HelpGet(u)
      BY <2>4 DEF HelpGet, HelpDone
    <2>5. CASE HelpRead(u)
      BY <2>5 DEF HelpRead
    <2>6. CASE HelpTest(u) \/ XferTest(u) \/ XferCas(u)
      BY <2>6 DEF HelpTest, XferTest, XferCas
    <2>7. CASE HelpCas(u)
      <3>1. cur[u].thr = NoThread /\ pc[u] = "helpCas"
        BY <2>7 DEF HelpCas, HelpCasFrom, CurInv
      <3>2. CASE valueObj = cur[u]
        <4>1. valueObj' = Fresh(cur[u].value, helpObj[u]) /\ cur'[u] = valueObj'
              /\ pc'[u] = "xferTest"
          BY <2>7, <3>1, <3>2 DEF HelpCas, HelpCasFrom
        <4>2. valueObj' # valueObj
          <5>1. helpObj[u] \in Op
            BY <3>1 DEF HelpInv
          <5>2. valueObj'.thr # valueObj.thr
            BY <3>1, <3>2, <4>1, <5>1, Nulls DEF Fresh
          <5>3. QED
            BY <5>2
        <4>3. QED
          BY <3>1, <3>2, <4>1, <4>2
      <3>3. CASE valueObj # cur[u]
        BY <2>7, <3>1, <3>3 DEF HelpCas, HelpCasFrom
      <3>4. QED
        BY <3>2, <3>3
    <2>8. CASE ValTest(u)
      BY <2>8 DEF ValTest, Transferred, Attempted, HelpDone
    <2>9. CASE ValCas(u)
      <3>1. pc[u] = "valCas" /\ cur[u].thr # NoThread
        BY <2>9 DEF ValCas, CurInv
      <3>2. back[u] = "help" /\ pc'[u] = "helpRead"
        BY <2>9, <3>1 DEF ValCas, Transferred, Attempted, HelpDone
      <3>3. valueObj = cur[u] => valueObj'.thr = NoThread
        BY <2>9 DEF ValCas, Fresh
      <3>4. valueObj # cur[u] => UNCHANGED valueObj
        BY <2>9 DEF ValCas
      <3>5. QED
        BY <3>1, <3>2, <3>3, <3>4
    <2>10. QED
      BY <2>1, <2>2, <2>3, <2>4, <2>5, <2>6, <2>7, <2>8, <2>9 DEF Step
  <1>4. QED
    BY <1>2, <1>3

\* The rounds stay behind the calls that are decided.
LEMMA RoundsStep ==
    ASSUME IInv, BoundTypes, NEW u \in Thread, Step(u) \/ (\E a \in Adds : Invoke(u, a)),
           Count, NEW t \in Thread, RoundsInv(t)
    PROVE  RoundsInv(t)'
  <1> DEFINE decision == \E o \in Op : ~Decided(o) /\ Decided(o)'
             r == rounds[t]
             p == passed[t]
  <1>1. r \in Nat /\ p \in Nat /\ anchored \in {0, 1} /\ anchored' \in {0, 1}
    BY DEF BoundTypes, anchored
  <1>2. /\ rounds'[t] = IF ~InLoop(t)' THEN 0
              ELSE IF pc[t] = "helpRead" /\ pc'[t] = "helpTest" /\ r <= 2 * p + 2
              THEN r + 1 ELSE r
        /\ passed'[t] = IF ~InLoop(t) \/ ~InLoop(t)' THEN 0
              ELSE IF decision THEN p + 1 ELSE p
    BY DEF Count, Allowed
  <1>3. CASE ~InLoop(t)'
    BY <1>2, <1>3 DEF RoundsInv
  <1>4. CASE InLoop(t)' /\ ~InLoop(t)
    <2>1. pc'[t] = "helpRead" /\ r = 0
      BY <1>4, LoopStep DEF RoundsInv
    <2>2. rounds'[t] = 0 /\ passed'[t] = 0
      BY <1>2, <1>4, <2>1 DEF InLoop
    <2>3. QED
      BY <1>1, <1>4, <2>1, <2>2 DEF RoundsInv
  <1>5. CASE InLoop(t)' /\ InLoop(t)
    <2>1. passed'[t] \in {p, p + 1} /\ (decision => passed'[t] = p + 1)
      BY <1>2, <1>5
    <2>2. ~(pc[t] = "helpRead" /\ pc'[t] = "helpTest") => rounds'[t] = r
      BY <1>2, <1>5
    <2>3. UNCHANGED valueObj => anchored' = anchored
      BY DEF anchored
    <2>4. valueObj' # valueObj =>
            \/ anchored = 0 /\ passed'[t] = p + 1
            \/ anchored = 1 /\ anchored' = 0
      BY <2>1, Decides DEF anchored
    <2>5. /\ pc[t] # "helpRead" /\ cur[t] = valueObj => r + anchored <= 2 * p + 2
          /\ pc[t] = "helpRead" \/ cur[t] # valueObj => r + anchored <= 2 * p + 1
      BY <1>5 DEF RoundsInv
    <2>6. SUFFICES /\ pc'[t] # "helpRead" /\ cur'[t] = valueObj' =>
                        rounds'[t] + anchored' <= 2 * passed'[t] + 2
                   /\ pc'[t] = "helpRead" \/ cur'[t] # valueObj' =>
                        rounds'[t] + anchored' <= 2 * passed'[t] + 1
      BY <1>5, <2>6 DEF RoundsInv
    <2>7. CASE pc'[t] = pc[t] /\ cur'[t] = cur[t] /\ t # u
      <3>1. valueObj' # valueObj => cur'[t] # valueObj'
        BY <2>7, Stable
      <3>2. rounds'[t] = r
        BY <2>2, <2>7
      <3>3. CASE UNCHANGED valueObj
        BY <1>1, <2>1, <2>3, <2>5, <2>7, <3>2, <3>3
      <3>4. CASE valueObj' # valueObj
        <4>1. r + anchored <= 2 * p + 2
          BY <1>1, <2>5
        <4>2. r + anchored' <= 2 * passed'[t] + 1
          BY <1>1, <2>1, <2>4, <3>4, <4>1
        <4>3. QED
          BY <3>1, <3>2, <3>4, <4>2
      <3>5. QED
        BY <3>3, <3>4
    <2>8. CASE /\ pc[t] = "helpRead" /\ pc'[t] = "helpTest"
               /\ cur'[t] = valueObj /\ UNCHANGED valueObj
      <3>1. r <= 2 * p + 2 /\ rounds'[t] = r + 1
        BY <1>1, <1>2, <1>5, <2>5, <2>8
      <3>2. QED
        BY <1>1, <2>1, <2>3, <2>5, <2>8, <3>1
    <2>9. CASE /\ pc[t] # "helpRead" /\ pc'[t] # "helpRead"
               /\ cur'[t] = cur[t] /\ UNCHANGED valueObj
      BY <1>1, <2>1, <2>2, <2>3, <2>5, <2>9
    <2>10. CASE /\ pc[t] # "helpRead" /\ pc'[t] # "helpRead"
                /\ cur[t] = valueObj /\ cur'[t] = valueObj' /\ valueObj.thr = NoThread
                /\ valueObj' # valueObj
      <3>1. anchored = 0
        BY <2>10 DEF anchored
      <3>2. QED
        BY <1>1, <2>1, <2>2, <2>4, <2>5, <2>10, <3>1
    <2>11. CASE /\ pc[t] # "helpRead" /\ pc'[t] = "helpRead"
                /\ cur[t] # valueObj /\ UNCHANGED valueObj
      BY <1>1, <2>1, <2>2, <2>3, <2>5, <2>11
    <2>12. CASE /\ pc[t] # "helpRead" /\ pc'[t] = "helpRead"
                /\ cur[t] = valueObj /\ valueObj.thr # NoThread /\ valueObj'.thr = NoThread
      <3>1. anchored = 1 /\ anchored' = 0
        BY <2>12 DEF anchored
      <3>2. QED
        BY <1>1, <2>1, <2>2, <2>5, <2>12, <3>1
    <2>13. QED
      BY <1>5, <2>7, <2>8, <2>9, <2>10, <2>11, <2>12, LoopStep
  <1>6. QED
    BY <1>3, <1>4, <1>5

\* A success on the fast path begins the assistance of the next thread.
LEMMA WinStep ==
    ASSUME IInv, NEW u \in Thread, Step(u) \/ (\E a \in Adds : Invoke(u, a)),
           NEW s \in Thread, Wins(s)
    PROVE  s = u /\ ~Assisting(s) /\ Assisting(s)' /\ pc'[s] = "helpGet" /\ index'[s] = index[s]
  <1>1. TypeOK /\ RoleInv(s) /\ ResultInv /\ pc[s] = "fastCas"
    BY DEF IInv, Wins
  <1>2. calls[s] \in 1 .. MaxOps /\ role[s] = "fast"
    BY <1>1, ThreadTypes, Bounds DEF RoleInv
  <1>3. result[Current(s)] = NoTicket
    <2>1. Current(s) \in Op /\ Current(s)[1] = s /\ Current(s)[2] = calls[s]
      BY <1>2, OpFacts DEF Current
    <2>2. QED
      BY <1>1, <1>2, <2>1 DEF ResultInv
  <1>4. result'[Current(s)] # NoTicket
    BY DEF Wins
  <1>5. s = u
    BY <1>1, <1>2, <1>3, <1>4, Frame DEF Current
  <1>6. FastCas(u)
    BY <1>1, <1>5 DEF Step, Invoke, FastRead, Announce, Retract, Return, HelpGet, HelpRead,
       HelpTest, HelpCas, HelpCasFrom, HelpTake, XferTest, XferCas, ValTest, ValCas
  <1>7. valueObj = cur[u]
    BY <1>3, <1>4, <1>5, <1>6 DEF FastCas, FastCasIf
  <1>8. QED
    BY <1>1, <1>2, <1>5, <1>6, <1>7 DEF FastCas, FastCasIf, Goto, TypeOK, Assisting

\* How a thread begins, goes on with and ends the assistance.
LEMMA AssistMoves ==
    ASSUME IInv, NEW u \in Thread, Step(u) \/ (\E a \in Adds : Invoke(u, a)),
           NEW s \in Thread, ~Wins(s)
    PROVE  \/ index'[s] = index[s] /\ (Assisting(s)' <=> Assisting(s))
           \/ /\ s = u /\ Assisting(s) /\ ~Assisting(s)'
              /\ index'[s] = (index[s] + 1) % N
  <1>1. TypeOK /\ RoleInv(s)
    BY DEF IInv
  <1>2. CASE s # u
    BY <1>1, <1>2, Frame, IndexStep DEF Assisting, InLoop, Leaving, Xfering
  <1>3. CASE s = u
    <2> USE <1>1, <1>3 DEF TypeOK, Goto, shared, locals, history, Assisting, InLoop, Leaving, Xfering
    <2>1. CASE \E a \in Adds : Invoke(u, a)
      BY <2>1 DEF Invoke
    <2>2. CASE FastRead(u) \/ Announce(u) \/ Retract(u) \/ Return(u)
      BY <2>2 DEF FastRead, Announce, Retract, Return
    <2>3. CASE FastCas(u)
      <3>1. valueObj # cur[u]
        <4>1. ASSUME valueObj = cur[u]
              PROVE  FALSE
          <5>1. Current(u) \in Op
            BY <2>3, ThreadTypes DEF FastCas, FastCasIf, RoleInv
          <5>2. result'[Current(u)] = cur[u].value
            BY <2>3, <4>1, <5>1 DEF FastCas, FastCasIf
          <5>3. cur[u].value # NoTicket
            BY ThreadTypes, Bounds
          <5>4. QED
            BY <2>3, <5>2, <5>3 DEF Wins, FastCas, FastCasIf
        <4>2. QED
          BY <4>1
      <3>2. QED
        BY <2>3, <3>1 DEF FastCas, FastCasIf, Attempted
    <2>4. CASE HelpGet(u)
      BY <2>4 DEF HelpGet, HelpDone
    <2>5. CASE HelpRead(u) \/ HelpTest(u) \/ HelpCas(u) \/ HelpTake(u)
      BY <2>5 DEF HelpRead, HelpTest, HelpCas, HelpCasFrom, HelpTake
    <2>6. CASE XferTest(u) \/ XferCas(u)
      BY <2>6 DEF XferTest, XferCas
    <2>7. CASE ValTest(u) \/ ValCas(u)
      BY <2>7 DEF ValTest, ValCas, Transferred, Attempted, HelpDone, RoleInv
    <2>8. QED
      BY <2>1, <2>2, <2>3, <2>4, <2>5, <2>6, <2>7 DEF Step
  <1>4. QED
    BY <1>2, <1>3

\* An announced call that is not decided keeps its thread in the call and has
\* no value.
LEMMA WaitingFacts ==
    ASSUME IInv, NEW t \in Thread, Waiting(t)
    PROVE  /\ threadObjs[t] = calls[t] /\ threadObjs[t] # 0 /\ pc[t] # "idle"
           /\ Current(t) \in Op /\ tobj[Current(t)] = NoValue
  <1>1. TypeOK /\ AnnounceInv(t) /\ threadObjs[t] # 0 /\ ticketOf[Current(t)] = NoTicket
    BY DEF IInv, Waiting, Decided
  <1>2. threadObjs[t] = calls[t] /\ pc[t] # "idle"
    BY <1>1 DEF AnnounceInv, InLoop, Leaving, Xfering
  <1>3. Current(t) \in Op
    BY <1>1, <1>2, ThreadTypes
  <1>4. tobj[Current(t)] # NoValue => tobj[Current(t)].value \in Nat
    BY <1>1, <1>3 DEF TypeOK, ValueObj
  <1>5. tobj[Current(t)] = NoValue
    BY <1>1, <1>3, <1>4, Bounds DEF ticketOf
  <1>6. QED
    BY <1>1, <1>2, <1>3, <1>5

\* A thread that assists t while t waits goes on to the loop of help() for the
\* call that waits, and stays there.
LEMMA AssistsWaiting ==
    ASSUME IInv, NEW u \in Thread, Step(u) \/ (\E a \in Adds : Invoke(u, a)),
           NEW t \in Thread, Waiting(t), Waiting(t)',
           NEW s \in Thread, AssistInv(s), Assisting(s), index[s] = t, s # t,
           pc[s] = "helpGet" \/ (InLoop(s) /\ helpObj[s] = Current(t))
    PROVE  /\ Assisting(s)' /\ index'[s] = index[s]
           /\ pc'[s] = "helpGet" \/ (InLoop(s)' /\ helpObj'[s] = Current(t))
  <1>1. TypeOK /\ RoleInv(s) /\ AssistInv(s) /\ role[s] = "assist" /\ helpIndex[s] = t
    BY DEF IInv, AssistInv, Assisting
  <1>2. threadObjs[t] = calls[t] /\ threadObjs[t] # 0 /\ tobj[Current(t)] = NoValue
    BY WaitingFacts
  <1>3. CASE s # u
    BY <1>1, <1>3, Frame, IndexStep DEF Assisting, InLoop, Leaving, Xfering
  <1>4. CASE s = u
    <2> USE <1>1, <1>2, <1>4 DEF TypeOK, Goto, shared, locals, history, Assisting, InLoop, Leaving,
            Xfering
    <2>1. CASE \E a \in Adds : Invoke(u, a)
      BY <2>1 DEF Invoke
    <2>2. CASE FastRead(u) \/ Announce(u) \/ Retract(u) \/ Return(u) \/ FastCas(u) \/ HelpTake(u)
      BY <2>2 DEF FastRead, Announce, Retract, Return, FastCas, FastCasIf, HelpTake
    <2>3. CASE HelpGet(u)
      <3>1. helpObj'[u] = Current(t) /\ pc'[u] = "helpRead" /\ UNCHANGED <<role, index>>
        BY <2>3 DEF HelpGet, Current
      <3>2. QED
        BY <3>1
    <2>4. CASE HelpRead(u) \/ HelpTest(u) \/ HelpCas(u)
      BY <2>4 DEF HelpRead, HelpTest, HelpCas, HelpCasFrom
    <2>5. CASE XferTest(u) \/ XferCas(u)
      BY <2>5 DEF XferTest, XferCas
    <2>6. CASE ValTest(u) \/ ValCas(u)
      BY <2>6 DEF ValTest, ValCas, Transferred, Attempted, HelpDone
    <2>7. QED
      BY <2>1, <2>2, <2>3, <2>4, <2>5, <2>6 DEF Step
  <1>5. QED
    BY <1>3, <1>4

\* While the thread of a call is in it, no step begins a call of that thread.
LEMMA CallsKept ==
    ASSUME TypeOK, NEW u \in Thread, Step(u) \/ (\E a \in Adds : Invoke(u, a)),
           NEW t \in Thread, pc[t] # "idle"
    PROVE  calls'[t] = calls[t]
  BY DEF TypeOK, Step, Invoke, FastRead, FastCas, FastCasIf, Announce, Retract, Return, HelpGet,
     HelpRead, HelpTest, HelpCas, HelpCasFrom, HelpTake, XferTest, XferCas, ValTest, ValCas, history

\* No step lets a thread overtake another one more often than the indices
\* between them allow.
LEMMA OvertakeStep ==
    ASSUME IInv, BoundTypes, NEW u \in Thread, Step(u) \/ (\E a \in Adds : Invoke(u, a)),
           Count, NEW t \in Thread, NEW s \in Thread, AssistInv(s), OvertakeInv(t, s)
    PROVE  OvertakeInv(t, s)'
  <1> DEFINE c == overtaken[t][s]
             d == Distance(index[s], t)
             i == index'[s]
  <1>1. c \in Nat /\ index[s] \in Thread /\ i \in Thread /\ N \in Nat
    <2>1. TypeOK /\ TypeOK'
      BY TypeStep DEF IInv, Next
    <2>2. QED
      BY <2>1, Bounds DEF TypeOK, BoundTypes
  <1>2. d \in Nat /\ d + 1 <= N /\ Distance(i, t) \in Nat /\ Distance(i, t) + 1 <= N
    BY <1>1, DistanceFacts
  <1>3. overtaken'[t][s] = IF ~Waiting(t) THEN 0 ELSE IF s # t /\ Wins(s) THEN c + 1 ELSE c
    BY DEF Count
  <1>4. SUFFICES
          /\ overtaken'[t][s] <= N
          /\ Waiting(t)' /\ s # t =>
               /\ ~Assisting(s)' => overtaken'[t][s] + Distance(i, t) + 1 <= N
               /\ Assisting(s)' /\ i # t => overtaken'[t][s] + Distance(i, t) <= N
               /\ Assisting(s)' /\ i = t =>
                    \/ overtaken'[t][s] = 0
                    \/ pc'[s] = "helpGet"
                    \/ (InLoop(s)' /\ helpObj'[s] = Current(t)')
    BY <1>4 DEF OvertakeInv, Distance
  <1>5. CASE ~Waiting(t)
    BY <1>1, <1>2, <1>3, <1>5
  <1>6. CASE Waiting(t) /\ s = t
    BY <1>1, <1>3, <1>6 DEF OvertakeInv
  <1>7. CASE Waiting(t) /\ s # t
    <2>1. /\ c <= N
          /\ ~Assisting(s) => c + d + 1 <= N
          /\ Assisting(s) /\ index[s] # t => c + d <= N
          /\ Assisting(s) /\ index[s] = t =>
               c = 0 \/ pc[s] = "helpGet" \/ (InLoop(s) /\ helpObj[s] = Current(t))
      BY <1>7 DEF OvertakeInv
    <2>2. CASE Wins(s)
      <3>1. ~Assisting(s) /\ Assisting(s)' /\ pc'[s] = "helpGet" /\ i = index[s]
        BY <2>2, WinStep
      <3>2. overtaken'[t][s] = c + 1
        BY <1>3, <1>7, <2>2
      <3>3. QED
        BY <1>1, <1>2, <2>1, <3>1, <3>2
    <2>3. CASE ~Wins(s)
      <3>1. overtaken'[t][s] = c
        BY <1>3, <1>7, <2>3
      <3>2. Waiting(t)' => Current(t)' = Current(t)
        <4>1. pc[t] # "idle"
          BY <1>7, WaitingFacts
        <4>2. calls'[t] = calls[t]
          BY <4>1, CallsKept DEF IInv
        <4>3. QED
          BY <4>2 DEF Current
      <3>3. CASE i = index[s] /\ Assisting(s) /\ index[s] = t
        <4>1. Distance(i, t) = 0
          BY <1>1, <3>3, DistanceFacts
        <4>2. CASE c = 0
          BY <1>1, <1>2, <3>1, <4>2
        <4>3. CASE c # 0
          BY <1>1, <1>2, <1>7, <2>1, <3>1, <3>2, <3>3, <4>1, <4>3, AssistsWaiting
        <4>4. QED
          BY <4>2, <4>3
      <3>4. CASE i = index[s] /\ ~(Assisting(s) /\ index[s] = t)
        <4>1. Assisting(s)' <=> Assisting(s)
          <5>1. index[s] # t => i # (index[s] + 1) % N
            BY <1>1, <1>2, <3>4, DistanceFacts
          <5>2. QED
            BY <2>3, <3>4, <5>1, AssistMoves
        <4>2. QED
          BY <1>1, <1>2, <2>1, <3>1, <3>4, <4>1
      <3>5. CASE i # index[s]
        <4>1. Assisting(s) /\ ~Assisting(s)' /\ i = (index[s] + 1) % N
          BY <2>3, <3>5, AssistMoves
        <4>2. CASE index[s] # t
          <5>1. Distance(i, t) + 1 = d
            BY <1>1, <4>1, <4>2, DistanceFacts
          <5>2. QED
            BY <1>1, <1>2, <2>1, <3>1, <4>1, <4>2, <5>1
        <4>3. CASE index[s] = t
          <5>1. Waiting(t)' => c = 0
            BY <1>7, <2>1, <3>5, <4>1, <4>3, AssistsWaiting
          <5>2. QED
            BY <1>1, <1>2, <2>1, <3>1, <4>1, <5>1
        <4>4. QED
          BY <4>2, <4>3
      <3>6. QED
        BY <3>3, <3>4, <3>5
    <2>4. QED
      BY <2>2, <2>3
  <1>8. QED
    BY <1>5, <1>6, <1>7

\* The bounds are inductive together with the invariant of the counter.
LEMMA BoundInductive ==
    ASSUME IInv, BoundInv, [BNext]_boundVars
    PROVE  BoundInv'
  <1>1. CASE BNext
    <2>1. PICK u \in Thread : Step(u) \/ \E a \in Adds : Invoke(u, a)
      BY <1>1 DEF BNext, Next
    <2>2. Count /\ BoundTypes
      BY <1>1 DEF BNext, BoundInv
    <2>3. BoundTypes'
      BY <2>2, BoundTypesStep
    <2>4. \A s \in Thread : AssistInv(s)'
      BY <2>1, AssistStep DEF BoundInv
    <2>5. \A t \in Thread : RoundsInv(t)'
      BY <2>1, <2>2, RoundsStep DEF BoundInv
    <2>6. \A t, s \in Thread : OvertakeInv(t, s)'
      BY <2>1, <2>2, OvertakeStep DEF BoundInv
    <2>7. QED
      BY <2>3, <2>4, <2>5, <2>6 DEF BoundInv
  <1>2. CASE UNCHANGED boundVars
    BY <1>2 DEF boundVars, vars, BoundInv, BoundTypes, AssistInv, RoundsInv, OvertakeInv, Assisting,
       InLoop, Leaving, Xfering, Waiting, Decided, ticketOf, Current, Distance, anchored
  <1>3. QED
    BY <1>1, <1>2

LEMMA BoundInit == BInit => BoundInv
  <1> SUFFICES ASSUME BInit PROVE BoundInv
    OBVIOUS
  <1>1. Init /\ \A s \in Thread : ~InLoop(s) /\ ~Leaving(s) /\ ~Assisting(s)
    BY DEF BInit, Init, InLoop, Leaving, Xfering, Assisting
  <1>2. BoundTypes
    BY DEF BInit, BoundTypes
  <1>3. \A s \in Thread : AssistInv(s) /\ RoundsInv(s)
    BY <1>1 DEF BInit, AssistInv, RoundsInv
  <1>4. \A t, s \in Thread : OvertakeInv(t, s)
    <2>1. \A t, s \in Thread : overtaken[t][s] = 0 /\ threadObjs[t] = 0
      BY DEF BInit, Init
    <2>2. QED
      BY <2>1, Bounds DEF OvertakeInv, Waiting
  <1>5. QED
    BY <1>2, <1>3, <1>4 DEF BoundInv

LEMMA BoundInvariant == BSpec => [](IInv /\ BoundInv)
  <1>1. BInit => IInv /\ BoundInv
    BY InitInv, BoundInit DEF BInit
  <1>2. IInv /\ BoundInv /\ [BNext]_boundVars => (IInv /\ BoundInv)'
    BY CountedStep, Inductive, BoundInductive
  <1>3. QED
    BY <1>1, <1>2, PTL DEF BSpec

\* Since a thread announced its call, no other thread has had more than N
\* calls decided on the fast path: the index of getAndIncrement, which every
\* success moves on, comes round to every announcement.
THEOREM OvertakenAtMostN == BSpec => []OvertakenBound
  <1>1. BoundInv => OvertakenBound
    BY DEF BoundInv, OvertakeInv, OvertakenBound
  <1>2. QED
    BY <1>1, BoundInvariant, PTL

\* Rounds of help() beyond two need decided calls, so a thread is kept in its
\* loop only by threads that make progress: the counter is lock-free.
THEOREM RoundsArePaid == BSpec => []RoundsBound
  <1>1. ASSUME BoundInv, NEW t \in Thread
        PROVE  rounds[t] <= Allowed(t)
    <2>1. rounds[t] \in Nat /\ passed[t] \in Nat /\ RoundsInv(t) /\ anchored \in {0, 1}
      BY <1>1 DEF BoundInv, BoundTypes, anchored
    <2>2. QED
      BY <2>1 DEF RoundsInv, Allowed
  <1>2. BoundInv => RoundsBound
    BY <1>1 DEF RoundsBound
  <1>3. QED
    BY <1>2, BoundInvariant, PTL

=============================================================================
