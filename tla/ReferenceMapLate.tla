-------------------------- MODULE ReferenceMapLate --------------------------
(***************************************************************************)
(* psly_handle_records in the files that walk past their key before they   *)
(* act on it: test64.c, psly_hazard_pointer.c and their like.                *)
(*                                                                         *)
(* build.retry says what a failed CAS is followed by: the word is "read"   *)
(* again, or the one the CAS "returned" is used.  The files that use it    *)
(* also look again at the Record they found (build.found = "rechecked").   *)
(***************************************************************************)
EXTENDS ReferenceMap

\* A failed CAS has returned "new"; the files without its value read again.
Seen(f, n) == IF build.retry = "returned" THEN f.new ELSE word[n]

\* What the walk does at curr once prev was found good.
Decide(f) ==
    IF ~Behind(f) THEN [f EXCEPT !.pc = "checkLate"]
    ELSE IF f.found # NoRecord
    THEN IF f.op = "SEARCH" THEN Answer(f, f.foundNext.ref)
         ELSE [f EXCEPT !.pc = "takeFound"]
    ELSE IF f.op = "SEARCH" THEN Answer(f, 0)
    ELSE IF f.prevNext.to # f.curr THEN [f EXCEPT !.pc = "casRemove"]
    ELSE IF f.removed THEN Answer(f, 0)
    ELSE [f EXCEPT !.pc = "getLate"]

ReadPrevLate(t) ==
    LET f == frame[t]
        now == word[f.prev]
        g == [f EXCEPT !.prevNext = now]
    IN  /\ f.pc = "readPrev"
        /\ frame' = [frame EXCEPT ![t] =
             IF Stale(f.prevNext, now) THEN Restarted(f)
             ELSE IF NextChanged(f.prevNext, now) THEN Follow(f, now)
             ELSE IF f.found # NoRecord /\ build.found = "rechecked"
             THEN [g EXCEPT !.pc = "recheckFound"] ELSE Decide(g)]
        /\ Reads

\* Mutant: the Record that was found is not looked at again.
RecheckFound_Skipped(t) ==
    /\ frame[t].pc = "recheckFound"
    /\ frame' = [frame EXCEPT ![t] = Decide(@)]
    /\ Reads

\* A Record came or went behind the one that was found: the walk goes back to it.
RecheckFound(t) ==
    LET f == frame[t]
        now == word[f.found]
    IN  /\ f.pc = "recheckFound"
        /\ frame' = [frame EXCEPT ![t] =
             IF NextChanged(f.foundNext, now)
             THEN [LookAt(f, now.to) EXCEPT !.foundNext.next = now.next, !.foundNext.to = now.to]
             ELSE Decide(f)]
        /\ Reads

CheckLate(t) ==
    LET f == frame[t]
        now == word[f.curr]
        g == LookAt(f, now.to)
    IN  /\ f.pc = "checkLate"
        /\ frame' = [frame EXCEPT ![t] =
             IF f.currNext.node # now.node THEN [f EXCEPT !.pc = "recheckPrev"]
             ELSE IF Deleted(now) THEN g
             ELSE IF f.currKey # f.key THEN [g EXCEPT !.prev = f.curr, !.prevNext = now]
             ELSE IF f.removed THEN Answer(f, 0)
             ELSE [g EXCEPT !.found = f.curr, !.foundNext = now]]
        /\ Reads

\* What becomes of the Record that was found, when its word is "now".
Settle(f, now) ==
    IF f.foundNext.node # now.node
    THEN IF f.op = "REMOVE" THEN Answer(f, 0) ELSE [f EXCEPT !.pc = "recheckPrev"]
    ELSE IF Deleted(now)
    THEN [f EXCEPT !.foundNext = now, !.curr = now.to, !.pc = "casRemove"]
    ELSE [f EXCEPT !.foundNext = now, !.pc = IF f.op = "REMOVE" THEN "subFound" ELSE "plusFound"]

TakeFound(t) ==
    LET f == frame[t]
    IN  /\ f.pc \in {"takeFound", "takeAgain"}
        /\ frame' = [frame EXCEPT ![t] =
             Settle(f, IF f.pc = "takeFound" THEN word[f.found] ELSE Seen(f, f.found))]
        /\ Reads

SubFound(t) ==
    LET f == frame[t]
        now == MinusRecord(word[f.found])
    IN  /\ f.pc = "subFound"
        /\ word' = [word EXCEPT ![f.found] = now]
        /\ frame' = [frame EXCEPT ![t] =
             IF Deleted(now) THEN [f EXCEPT !.removed = TRUE, !.new = now, !.pc = "takeAgain"]
             ELSE Answer(f, now.ref)]
        /\ UNCHANGED <<build, pointer, free, held, todo>>

PlusFound(t) ==
    LET f == frame[t]
        now == word[f.found]
        new == PlusRecord(now)
    IN  /\ f.pc = "plusFound"
        /\ IF now = f.foundNext
           THEN /\ word' = [word EXCEPT ![f.found] = new]
                /\ frame' = [frame EXCEPT ![t] = Answer(f, new.ref)]
           ELSE /\ UNCHANGED word
                /\ frame' = [frame EXCEPT ![t].new = now, ![t].pc = "takeAgain"]
        /\ UNCHANGED <<build, pointer, free, held, todo>>

-----------------------------------------------------------------------------
(* CasRemove                                                               *)

\* The deleted Records between prev and curr are unlinked.
CasRemove(t) ==
    LET f == frame[t]
        new == NxtAddrV(f.prevNext, f.curr)
    IN  /\ f.pc = "casRemove"
        /\ IF word[f.prev] = f.prevNext
           THEN /\ word' = [word EXCEPT ![f.prev] = new]
                /\ frame' = [frame EXCEPT ![t].local = f.prevNext.to, ![t].prevNext = new,
                                          ![t].changed = "NONE", ![t].pc = "unlinkOne"]
           ELSE /\ UNCHANGED word
                /\ frame' = [frame EXCEPT ![t].new = word[f.prev], ![t].pc = "retryRemove"]
        /\ UNCHANGED <<build, pointer, free, held, todo>>

Retry(t, l, again) ==
    LET f == frame[t]
        now == Seen(f, f.prev)
    IN  /\ f.pc = l
        /\ frame' = [frame EXCEPT ![t] =
             IF Stale(f.prevNext, now) THEN Restarted(f)
             ELSE IF NextChanged(f.prevNext, now) THEN Follow(f, now)
             ELSE [f EXCEPT !.prevNext = now, !.pc = again]]
        /\ Reads

RetryRemove(t) == Retry(t, "retryRemove", "casRemove")

UnlinkOne(t) ==
    LET f == frame[t]
        next == word[f.local].to
        g == [f EXCEPT !.local = next]
    IN  /\ f.pc = "unlinkOne"
        /\ pointer' = [pointer EXCEPT ![f.local] = 0]
        /\ free' = free \cup {f.local}
        /\ frame' = [frame EXCEPT ![t] =
             IF f.op = "RECORD" THEN [g EXCEPT !.pc = "watchPrev"]
             ELSE IF next = f.curr THEN Answer(g, 0) ELSE g]
        /\ UNCHANGED <<build, word, held, todo>>

\* RECORD looks at prev after every Record it gives back.
WatchPrev(t) ==
    LET f == frame[t]
        now == word[f.prev]
        changed == IF Stale(f.prevNext, now) THEN "RESTART"
                   ELSE IF NextChanged(f.prevNext, now) /\ f.changed = "NONE" THEN "KEEPPREV"
                   ELSE f.changed
        g == [f EXCEPT !.prevNext = now, !.changed = changed]
    IN  /\ f.pc = "watchPrev"
        /\ frame' = [frame EXCEPT ![t] =
             IF f.local # f.curr THEN [g EXCEPT !.pc = "unlinkOne"]
             ELSE IF changed = "RESTART" THEN Restarted(g)
             ELSE IF changed = "KEEPPREV" THEN Follow(g, now)
             ELSE [g EXCEPT !.pc = "getLate"]]
        /\ Reads

-----------------------------------------------------------------------------
(* CasAppend                                                               *)

GetLate(t) == frame[t].pc = "getLate" /\ TakeRecord(t, "checkAppend") /\ UNCHANGED pointer

\* prev may have changed meanwhile: then the Record goes back.
CheckAppend(t) ==
    LET f == frame[t]
        now == word[f.prev]
        left == [f EXCEPT !.my = NoRecord]
        good == ~Stale(f.prevNext, now) /\ ~NextChanged(f.prevNext, now)
    IN  /\ f.pc = "checkAppend"
        /\ frame' = [frame EXCEPT ![t] =
             IF Stale(f.prevNext, now) THEN Restarted(left)
             ELSE IF NextChanged(f.prevNext, now) THEN Follow(left, now)
             ELSE [f EXCEPT !.localN = word[f.my], !.pc = "setPointer"]]
        /\ free' = IF good THEN free ELSE free \cup {f.my}
        /\ UNCHANGED <<build, word, pointer, held, todo>>

SetPointer(t) ==
    LET f == frame[t]
    IN  /\ f.pc = "setPointer"
        /\ pointer' = [pointer EXCEPT ![f.my] = f.key]
        /\ frame' = [frame EXCEPT ![t].pc = "setLate"]
        /\ UNCHANGED <<build, word, free, held, todo>>

SetLate(t) ==
    LET f == frame[t]
    IN  /\ f.pc = "setLate"
        /\ word' = [word EXCEPT ![f.my] =
             IF build.retry = "read" THEN CountedNext(f.localN, f.curr)
             ELSE NewNext(f.localN, f.curr)]
        /\ frame' = [frame EXCEPT ![t].pc = "casAppend"]
        /\ UNCHANGED <<build, pointer, free, held, todo>>

CasAppend(t) ==
    LET f == frame[t]
        now == word[f.prev]
    IN  /\ f.pc = "casAppend"
        /\ IF now = f.prevNext
           THEN /\ word' = [word EXCEPT ![f.prev] = NxtAddrV(now, f.my)]
                /\ frame' = [frame EXCEPT ![t] = Answer([f EXCEPT !.my = NoRecord], 1)]
           ELSE /\ UNCHANGED word
                /\ frame' = [frame EXCEPT ![t].new = now, ![t].pc = "undoPointer"]
        /\ UNCHANGED <<build, pointer, free, held, todo>>

\* The CAS failed: the Record goes back as it came.
UndoPointer(t) ==
    LET f == frame[t]
    IN  /\ f.pc = "undoPointer"
        /\ pointer' = IF build.retry = "returned" THEN pointer ELSE [pointer EXCEPT ![f.my] = 0]
        /\ frame' = [frame EXCEPT ![t].pc = "undoWord"]
        /\ UNCHANGED <<build, word, free, held, todo>>

UndoWord(t) ==
    LET f == frame[t]
    IN  /\ f.pc = "undoWord"
        /\ word' = [word EXCEPT ![f.my] = f.localN]
        /\ free' = free \cup {f.my}
        /\ frame' = [frame EXCEPT ![t].my = NoRecord, ![t].pc = "retryAppend"]
        /\ UNCHANGED <<build, pointer, held, todo>>

RetryAppend(t) == Retry(t, "retryAppend", "getLate")

LateStep(t) ==
    \/ FromHead(t) \/ ReadCurr(t) \/ ReadPointer(t) \/ ReadPrevLate(t)
    \/ RecheckPrev(t) \/ RecheckFound(t) \/ CheckLate(t)
    \/ TakeFound(t) \/ SubFound(t) \/ PlusFound(t)
    \/ CasRemove(t) \/ RetryRemove(t) \/ UnlinkOne(t) \/ WatchPrev(t)
    \/ GetLate(t) \/ CheckAppend(t) \/ SetPointer(t) \/ SetLate(t) \/ CasAppend(t)
    \/ UndoPointer(t) \/ UndoWord(t) \/ RetryAppend(t)

=============================================================================
