-------------------------- MODULE ReferenceMapOnce --------------------------
(***************************************************************************)
(* psly_handle_records in the files that settle a call when they meet its  *)
(* key: hazardpointer_fast.c, lockfreelist_now.c and their like.           *)
(*                                                                         *)
(* build.search says where SEARCH answers: at the "first" sight of its key *)
(* or after the Record was "checked".  build.restart says where the walk   *)
(* goes on when prev is no longer good: at the "head", or at the last      *)
(* place the thread "remembered" and finds good (hazard_long2.c).          *)
(***************************************************************************)
EXTENDS ReferenceMap

\* prev is checked: did the Record before curr stay where it was?
ReadPrev(t) ==
    LET f == frame[t]
        now == word[f.prev]
        g == [f EXCEPT !.prevNext = now]
    IN  /\ f.pc = "readPrev"
        /\ frame' = [frame EXCEPT ![t] =
             IF Stale(f.prevNext, now) THEN Restarted(f)
             ELSE IF NextChanged(f.prevNext, now) THEN Follow(f, now)
             ELSE IF Behind(f)
             THEN IF f.op = "SEARCH" \/ (f.op = "REMOVE" /\ now.to = f.curr) THEN Answer(g, 0)
                  ELSE [g EXCEPT !.pc = IF f.op = "REMOVE" THEN "cas"
                                        ELSE IF f.my = NoRecord THEN "get" ELSE "setWord"]
             ELSE IF f.op = "SEARCH" /\ f.currKey = f.key /\ build.search = "first"
             THEN Answer(g, f.currNext.ref)
             ELSE [g EXCEPT !.pc = "checkCurr"]]
        /\ Reads

Bucket(f) == IF f.steps < MaxPrev THEN f.steps ELSE MaxPrev - 1

\* One place is tried; the next try is the place before it.
Back(t) ==
    LET f == frame[t]
        place == f.prevs[Bucket(f)]
        now == word[place.r]
    IN  /\ f.pc = "back"
        /\ frame' = [frame EXCEPT ![t] =
             IF Stale(place, now) THEN [f EXCEPT !.steps = @ - 1]
             ELSE [Follow(f, now) EXCEPT !.prev = place.r]]
        /\ Reads

\* The walk goes past curr, and remembers the place it leaves.
Advance(f, now) ==
    LET place == [r |-> f.prev, node |-> f.prevNext.node]
        g == [LookAt(f, now.to) EXCEPT !.prev = f.curr, !.prevNext = now]
        full == f.steps >= MaxPrev
                \/ (build.remember = "changed" /\ f.prevs[f.steps].r = f.prev)
    IN  IF build.restart = "head" THEN g
        ELSE [g EXCEPT !.steps = @ + 1,
                       !.prevs = IF full THEN @ ELSE [@ EXCEPT ![f.steps] = place]]

\* curr is checked: the same incarnation still, and live?
CheckCurr(t) ==
    LET f == frame[t]
        now == word[f.curr]
    IN  /\ f.pc = "checkCurr"
        /\ frame' = [frame EXCEPT ![t] =
             IF f.currNext.node # now.node THEN [f EXCEPT !.pc = "recheckPrev"]
             ELSE IF Deleted(now) THEN LookAt(f, now.to)
             ELSE IF f.currKey # f.key THEN Advance(f, now)
             ELSE IF f.removed THEN Answer(f, 0)
             ELSE IF f.op = "SEARCH" THEN Answer(f, now.ref)
             ELSE [f EXCEPT !.foundNext = now, !.pc = IF f.op = "REMOVE" THEN "sub" ELSE "plus"]]
        /\ Reads

\* REMOVE takes one reference; with the last one the walk goes on to unlink.
Sub(t) ==
    LET f == frame[t]
        now == MinusRecord(word[f.curr])
    IN  /\ f.pc = "sub"
        /\ word' = [word EXCEPT ![f.curr] = now]
        /\ frame' = [frame EXCEPT ![t] = IF Deleted(now) THEN [LookAt(f, now.to) EXCEPT !.removed = TRUE]
                                         ELSE Answer(f, now.ref)]
        /\ UNCHANGED <<build, pointer, free, held, todo>>

\* Mutant: the reference is added without a CAS.
Plus_Deleted(t) ==
    LET f == frame[t]
        now == word[f.curr]
        new == PlusRecord(now)
    IN  /\ f.pc = "plus"
        /\ word' = [word EXCEPT ![f.curr] = new]
        /\ frame' = [frame EXCEPT ![t] =
             [Answer(f, new.ref) EXCEPT !.pc = IF f.my = NoRecord THEN "return" ELSE "giveBack"]]
        /\ UNCHANGED <<build, pointer, free, held, todo>>

\* RECORD adds a reference to the Record it found.
Plus(t) ==
    LET f == frame[t]
        now == word[f.curr]
        new == PlusRecord(now)
    IN  /\ f.pc = "plus"
        /\ IF now = f.foundNext
           THEN /\ word' = [word EXCEPT ![f.curr] = new]
                /\ frame' = [frame EXCEPT ![t] =
                     [Answer(f, new.ref) EXCEPT !.pc = IF f.my = NoRecord THEN "return" ELSE "giveBack"]]
           ELSE /\ UNCHANGED word
                /\ frame' = [frame EXCEPT ![t] =
                     IF f.foundNext.node # now.node THEN [f EXCEPT !.pc = "recheckPrev"]
                     ELSE IF Deleted(now) THEN LookAt(f, now.to)
                     ELSE [f EXCEPT !.foundNext = now]]
        /\ UNCHANGED <<build, pointer, free, held, todo>>

\* The Record that was not needed goes back, with the word it came with.
GiveBack(t) ==
    LET f == frame[t]
    IN  /\ f.pc = "giveBack"
        /\ word' = [word EXCEPT ![f.my] = f.localN]
        /\ free' = free \cup {f.my}
        /\ frame' = [frame EXCEPT ![t] = Answer([f EXCEPT !.my = NoRecord], f.answer)]
        /\ UNCHANGED <<build, pointer, held, todo>>

\* A Record of one's own, whose pointer is set at once; it is kept until it is linked.
Get(t) ==
    /\ frame[t].pc = "get"
    /\ TakeRecord(t, "setWord")
    /\ pointer' = [pointer EXCEPT ![frame'[t].my] = frame[t].key]

\* The first word of the new incarnation, before curr.
SetWord(t) ==
    LET f == frame[t]
    IN  /\ f.pc = "setWord"
        /\ word' = [word EXCEPT ![f.my] = NewNext(f.localN, f.curr)]
        /\ frame' = [frame EXCEPT ![t].pc = "cas"]
        /\ UNCHANGED <<build, pointer, free, held, todo>>

\* One CAS on prev links the new Record and unlinks the deleted ones before curr.
Cas(t) ==
    LET f == frame[t]
        now == word[f.prev]
        append == IF f.op = "RECORD" THEN f.my ELSE f.curr
    IN  /\ f.pc = "cas"
        /\ IF now = f.prevNext
           THEN /\ word' = [word EXCEPT ![f.prev] = NxtAddrV(f.prevNext, append)]
                /\ frame' = [frame EXCEPT ![t] =
                     LET g == Answer([f EXCEPT !.my = NoRecord], IF f.op = "RECORD" THEN 1 ELSE 0)
                     IN  IF now.to = f.curr THEN g
                         ELSE [g EXCEPT !.local = now.to, !.curr = f.curr, !.pc = "unlink"]]
           ELSE /\ UNCHANGED word
                /\ frame' = [frame EXCEPT ![t] =
                     IF Stale(f.prevNext, now) THEN Restarted(f)
                     ELSE IF NextChanged(f.prevNext, now) THEN Follow(f, now)
                     ELSE [f EXCEPT !.prevNext = now]]
        /\ UNCHANGED <<build, pointer, free, held, todo>>

\* An unlinked Record goes back to the free list, up to curr.
Unlink(t) ==
    LET f == frame[t]
        next == word[f.local].to
    IN  /\ f.pc = "unlink"
        /\ pointer' = [pointer EXCEPT ![f.local] = 0]
        /\ free' = free \cup {f.local}
        /\ frame' = [frame EXCEPT ![t] = IF next = f.curr THEN Answer(f, f.answer)
                                         ELSE [f EXCEPT !.local = next]]
        /\ UNCHANGED <<build, word, held, todo>>

OnceStep(t) ==
    \/ FromHead(t) \/ ReadCurr(t) \/ ReadPointer(t) \/ ReadPrev(t)
    \/ Back(t) \/ RecheckPrev(t) \/ CheckCurr(t)
    \/ Sub(t) \/ Plus(t) \/ GiveBack(t) \/ Get(t) \/ SetWord(t) \/ Cas(t) \/ Unlink(t)

=============================================================================
