----------------------- MODULE WaitFreeQueueInvariant -----------------------
(***************************************************************************)
(* The invariant of WaitFreeQueueFastPath, for every number of threads and *)
(* calls, with the places WaitFreeQueueHistory records: the list grows by  *)
(* one node at a time, the tail lags by at most one, and a descriptor that *)
(* helpers put into the head is tied to the node of that head.             *)
(***************************************************************************)
EXTENDS WaitFreeQueueHistory, FiniteSets

\* The place of a node in the list, and which nodes are in it.
pos(n) == IF n = Dummy THEN 0 ELSE place[n]
Listed(n) == n = Dummy \/ place[n] # 0

\* The list is a chain of the placed nodes, in the order of their places.
ListInv ==
    /\ place \in [Op -> Nat]
    /\ IsFiniteSet(Placed)
    /\ \A o \in Op : place[o] # 0 <=> Linked(o)
    /\ \A o \in Op : place[o] <= back
    /\ \A m, n \in Op : place[m] # 0 /\ place[m] = place[n] => m = n
    /\ \A n \in Node : next[n] # NoNode => Listed(n) /\ pos(next[n]) = pos(n) + 1
    /\ \A n \in Node : Listed(n) /\ next[n] = NoNode => pos(n) = back

\* Both ends are in the list; a head that holds a descriptor has a successor.
EndsInv ==
    /\ Listed(tail) /\ Listed(head.node)
    /\ back <= pos(tail) + 1
    /\ pos(head.node) <= pos(tail)
    /\ head.opDesc # NoOp =>
         /\ pos(head.node) < pos(tail)
         /\ kind[head.opDesc] = "poll"
         /\ desc[head.opDesc] # NoOp

\* The head has left node n, or holds it together with descriptor o.
Left(n, o) == head = [node |-> n, opDesc |-> o] \/ pos(n) < pos(head.node)

\* Node n was noted in a PNode: the tail has passed it.
Noted(n) == n # NoNode => Listed(n) /\ pos(n) <= pos(head.node) /\ pos(n) < pos(tail)

\* A descriptor of an add is pending until the tail is about to pass its node.
EnqInv(o) ==
    IF desc[o].pending = 1 THEN place[o] # 0 => next[tail] = o ELSE place[o] # 0

\* A descriptor of a poll notes a node, and is done when the head leaves it.
DeqInv(o) ==
    /\ Noted(desc[o].node)
    /\ desc[o].pending = 0 /\ desc[o].node # NoNode => Left(desc[o].node, o)

\* Nothing of the call can be seen by others.
Undone(o) == place[o] = 0 /\ desc[o] = NoOp /\ result[o] = None

DescInv ==
    /\ \A o \in Op : ~Undone(o) => o[2] <= calls[o[1]]
    /\ \A o \in Op : place[o] # 0 => kind[o] = "add"
    /\ \A o \in Op : desc[o] # NoOp /\ kind[o] = "add" => EnqInv(o)
    /\ \A o \in Op : desc[o] # NoOp /\ kind[o] = "poll" => DeqInv(o)

SharedInv == ListInv /\ EndsInv /\ DescInv /\ Claimed

-----------------------------------------------------------------------------
(* What a thread knows about its call.                                     *)

EnqPc == {"enqPending", "enqTail", "enqNext", "enqCheck", "enqStill", "enqCas"}
DeqPc == {"deqPNode", "deqHead", "deqTail", "deqNext", "deqCheck", "deqEmpty", "deqNull",
          "deqClaim", "deqReread", "deqStill", "deqCas"}
FinPc == {"finTail", "finNext", "finCheck", "finPending", "finCas",
          "finHead", "finHeadNext", "finRead", "finDone", "finDeq"}
AddPc == {"addTail", "addNext", "addCheck", "addCas", "addSwing"}
PollPc == {"pollHead", "pollTail", "pollNext", "pollCheck", "pollCas"}

\* Which code runs in which role.
RoleInv(t) ==
    /\ role[t] = "new" => pc[t] \in {"resetTid", "resetPhase"}
    /\ role[t] = "help" => pc[t] \in {"register", "help", "resetTid", "resetPhase"}
                                     \cup EnqPc \cup DeqPc \cup FinPc
    /\ role[t] = "fast" => pc[t] \in {"idle", "return", "announce", "fixTail"}
                                     \cup AddPc \cup PollPc \cup FinPc
    /\ role[t] = "self" => pc[t] \in {"return"} \cup EnqPc \cup DeqPc \cup FinPc
    /\ pc[t] \in AddPc => Adding(t)
    /\ pc[t] \in PollPc => ~Adding(t)

\* The HelpRecord of a thread that is past "register" points at a thread.
RecordInv(t) ==
    /\ pc[t] \notin {"idle", "register"} => tids # << >>
    /\ curTid[t] = -1 => pc[t] \in {"idle", "register"} \/ (pc[t] = "resetTid" /\ role[t] = "new")
    /\ pc[t] = "register" => curTid[t] = -1
    /\ nextCheck[t] = -1 => role[t] = "help" /\ pc[t] \notin {"register", "help"}
    /\ state[t] # NoOp => desc[state[t]] # NoOp
    /\ willHelp[t] # NoOp => desc[willHelp[t]] # NoOp

CallInv(t) ==
    /\ calls[t] \in 0 .. MaxCalls[t]
    /\ pc[t] # "idle" => calls[t] # 0
    /\ pc[t] \notin {"idle", "return", "addSwing"} /\ role[t] # "self" => Undone(Current(t))
    /\ pc[t] = "addSwing" => desc[Current(t)] = NoOp /\ next[frame[t].last] = Current(t)
    /\ role[t] = "self" => target[t] = Current(t) /\ desc[Current(t)] # NoOp
    /\ role[t] \in {"help", "self"} /\ pc[t] \in EnqPc \cup DeqPc \cup FinPc =>
         target[t] # NoOp /\ desc[target[t]] # NoOp
    /\ pc[t] \in EnqPc => kind[target[t]] = "add"
    /\ pc[t] \in DeqPc => kind[target[t]] = "poll"

-----------------------------------------------------------------------------
(* What a thread knows about the locals of its round.                      *)

\* h was the head once.
HeadPast(h) ==
    /\ Listed(h.node)
    /\ \/ h = head
       \/ pos(h.node) < pos(head.node)
       \/ h.node = head.node /\ h.opDesc = NoOp /\ head.opDesc # NoOp

\* The descriptor of h was put into the head h, and is done when the head left.
Taken(h) ==
    /\ h.opDesc # NoOp
    /\ desc[h.opDesc] # NoOp
    /\ kind[h.opDesc] = "poll"
    /\ desc[h.opDesc].node = h.node
    /\ h # head => desc[h.opDesc].pending = 0 /\ pos(h.node) < pos(head.node)

TailRead == {"addNext", "addCheck", "addCas", "addSwing", "fixTail",
             "enqNext", "enqCheck", "enqStill", "enqCas",
             "finNext", "finCheck", "finPending", "finCas",
             "pollNext", "pollCheck", "deqNext", "deqCheck"}

TailInv(t) ==
    LET f == frame[t]
    IN  /\ pc[t] \in TailRead => Listed(f.last) /\ pos(f.last) <= pos(tail)
        /\ pc[t] \in {"addCheck", "enqCheck"} => f.next = NoNode \/ next[f.last] = f.next
        /\ pc[t] \in {"fixTail", "finCheck", "finPending", "finCas"} =>
             f.next # NoNode /\ next[f.last] = f.next
        /\ pc[t] = "fixTail" => desc[f.next] = NoOp
        /\ pc[t] \in {"finCheck", "finPending"} => desc[f.next] # NoOp
        /\ pc[t] = "finCas" => desc[f.next] = NoOp \/ desc[f.next].pending = 0
        /\ pc[t] = "enqCas" => place[target[t]] = 0 \/ next[f.last] # NoNode

HeadRead == {"pollTail", "pollNext", "pollCheck", "pollCas", "deqTail", "deqNext", "deqCheck",
             "deqClaim", "finHeadNext", "finRead", "finDone", "finDeq"}

HeadInv(t) ==
    LET f == frame[t]
        h == frame[t].localHead
    IN  /\ pc[t] \in HeadRead => HeadPast(h)
        /\ pc[t] \in {"pollNext", "pollCheck", "deqNext", "deqCheck"} => pos(h.node) <= pos(f.last)
        /\ pc[t] \in {"pollCheck", "deqCheck"} => f.next = NoNode \/ next[h.node] = f.next
        /\ pc[t] = "pollCheck" /\ f.next = NoNode => h.node = f.last
        /\ pc[t] = "pollCas" =>
             f.next # NoNode /\ next[h.node] = f.next /\ pos(h.node) < pos(tail)
        /\ pc[t] \in {"finHeadNext", "finRead", "finDone", "finDeq"} => Taken(h)
        /\ pc[t] \in {"finRead", "finDone", "finDeq"} => f.next = NoNode \/ next[h.node] = f.next
        /\ pc[t] = "finDone" => f.pNode = [node |-> h.node, pending |-> 1]
        /\ pc[t] = "finDeq" => desc[h.opDesc].pending = 0

PNodeRead == DeqPc \ {"deqPNode", "deqReread"}

PNodeInv(t) ==
    LET f == frame[t]
        p == frame[t].pNode
        h == frame[t].localHead
        d == desc[target[t]]
    IN  /\ pc[t] \in PNodeRead =>
             /\ p.pending = 1
             /\ Noted(p.node)
             /\ p.node # NoNode => d = p \/ Left(p.node, target[t])
             /\ d.pending = 1 /\ d.node = NoNode => d = p
        /\ pc[t] \in {"deqTail", "deqNext", "deqCheck", "deqClaim"} => f.first = h.node
        /\ pc[t] \in {"deqTail", "deqNext", "deqCheck", "deqClaim"} /\ p.node # NoNode =>
             pos(p.node) <= pos(h.node)
        /\ pc[t] \in {"deqNext", "deqCheck"} /\ p.node # NoNode => pos(p.node) < pos(f.last)
        /\ pc[t] \in {"deqEmpty", "deqNull"} /\ p.node # NoNode => pos(p.node) < pos(head.node)
        /\ pc[t] = "deqClaim" => h.node # p.node /\ pos(h.node) < pos(tail)
        /\ pc[t] = "deqReread" /\ d.pending = 1 => d.node # NoNode
        /\ pc[t] \in {"deqStill", "deqCas"} => f.first = p.node /\ p.node # NoNode

FrameInv(t) == TailInv(t) /\ HeadInv(t) /\ PNodeInv(t)

IInv ==
    /\ TypeOK
    /\ SharedInv
    /\ \A t \in Thread : RoleInv(t) /\ RecordInv(t) /\ CallInv(t) /\ FrameInv(t)

-----------------------------------------------------------------------------
(* What a step may do to the shared fields.                                *)

\* The head stays, takes a descriptor in, or moves on by one node, from a
\* descriptor that is done.
HeadMoves ==
    \/ head' = head
    \/ /\ head.opDesc = NoOp /\ head'.opDesc # NoOp
       /\ head'.node = head.node /\ next[head.node] # NoNode
    \/ /\ head'.opDesc = NoOp /\ next[head.node] # NoNode /\ head'.node = next[head.node]
       /\ head.opDesc # NoOp => desc[head.opDesc].pending = 0

\* A descriptor is done once and for all; until then a poll may note another
\* node when the head has left the one it notes.
DescMoves(o) ==
    /\ desc'[o] # NoOp
    /\ desc[o].pending = 0 => desc'[o] = desc[o]
    /\ kind[o] = "poll" /\ desc'[o] # desc[o] =>
         /\ desc'[o].pending = 1 => desc'[o].node # NoNode
         /\ \A n \in Node : desc[o].node = n => Left(n, o)'
         /\ head.opDesc = o => desc'[o].node = desc[o].node

Evolves(t) ==
    /\ place' \in [Op -> Nat]
    /\ \A u \in Thread \ {t} : calls'[u] = calls[u]
    /\ \A o \in Op : desc[o] # NoOp \/ place[o] # 0 \/ o[1] # t => kind'[o] = kind[o]
    /\ \A n \in Node : Listed(n) => Listed(n)' /\ pos(n)' = pos(n)
    /\ \A n \in Node : next[n] # NoNode => next'[n] = next[n]
    /\ place' # place => \A n \in Node : Listed(n) => next'[n] # NoNode
    /\ pos(tail) <= pos(tail)'
    /\ HeadMoves
    /\ \A o \in Op : o[1] # t /\ Undone(o) => Undone(o)'
    /\ \A o \in Op : desc[o] = NoOp /\ place[o] # 0 => desc'[o] = NoOp
    /\ \A o \in Op : desc[o] # NoOp => DescMoves(o)

\* The variables of a thread that does not step stay, and tids only grows.
Aside(u) ==
    /\ pc'[u] = pc[u] /\ role'[u] = role[u] /\ target'[u] = target[u] /\ frame'[u] = frame[u]
    /\ curTid'[u] = curTid[u] /\ willHelp'[u] = willHelp[u] /\ nextCheck'[u] = nextCheck[u]
    /\ state'[u] = state[u]
    /\ tids # << >> => tids' # << >>

=============================================================================
