# Verification of the lock-free and wait-free structures of PslyAlgorithm

PslyAlgorithm is a collection of shared-memory data structures that work without
locks: counters, lists, queues, a free list, hazard pointers, and patched copies of
three classes of the JDK. This directory holds TLA+ modules for them, the TLC
configurations that check the modules on small instances, and proofs for TLAPS.

Everything here is about interleavings. The structures have no messages, no
persistent state and no clock (StampedLock's timeouts apart); what is hard is
that a thread decides on what it read some accesses ago.

## 1. The system

### Components

| component | source | modelled by |
|---|---|---|
| wait-free counter | `WaitFreeGetAndIncrement.java` | `WaitFreeCounter`, `WaitFreeBound`, `FetchAndAdd`, `WaitFreeCounterProof` |
| Harris list | `LockFreeLinkedList.java` | `LockFreeLinkedList`, `LockFreeListResults`, `LockFreeListProof` |
| wait-free queue with a fast path | `WaitFreeQueueFastPath.java` | `WaitFreeQueueFastPath`, `WaitFreeQueueHistory`, `WaitFreeQueueBound`, `WaitFreeQueueInvariant`, `WaitFreeQueueProof`, `FifoQueue` |
| wait-free queue on cells | `WaitFreeQueue.java` | `WaitFreeQueue`, `WaitFreeQueueCalls`, `WaitFreeQueueCellsInvariant`, `WaitFreeQueueCellsProof` |
| Record free list (C) | `get_Record`, `return_Record` in 25 files under `cfilesforhazardpointer/` | `RecordWords`, `RecordQueue`, `RecordQueueFiles`, `RecordQueueChecks`, `RecordQueueProof` |
| reference map over the free list (C) | `psly_record`, `psly_remove`, `psly_search` in the same 25 files | `ReferenceWords`, `ReferenceMap`, `ReferenceMapOnce`, `ReferenceMapLate`, `ReferenceMapFiles`, `ReferenceMapRuns`, `ReferenceMapChecks`, `ReferenceCounts`, `ReferenceMapProof` |
| words of the C files | their masks and the helpers on words | `RecordLayout`, `RecordLayoutFiles`, `RecordLayoutChecks`, `RecordLayoutProof` |
| queue with counted references (C) | `enqueue`, `dequeue` in `hazardpointer_fast.c` and seven more files | `ReferencedQueue`, `ReferencedQueueFiles`, `ReferencedQueueRuns`, `ReferencedQueueHistory`, `FifoQueue` |
| hazard-pointer queue (C) | `hazardpointer.c`, `hazardpointerslow.c` | the same modules, `ReferencedQueueProof` |
| the rest | JDK copies with patches, the C counters, the list with counts, the Rust channel, drafts, demonstrations | not modelled: section 6 |

The C directory holds some forty files, most of them copies of one program that was changed in one
place at a time. The modules keep that shape: a module has the common protocol with the variations as
fields of a record, and a `...Files` module says which file has which.

### State, operations and hard behaviours

**Wait-free counter.** One volatile reference `valueObj` to a (value, ThreadObj)
pair, an array `threadObjs` of announced calls, and per call a ThreadObj with a
`valueObj` field. `getAndIncrement(add)` tries up to `MAX` CAS on the reference;
after a success it helps the thread its round-robin `index` names. When the fast path
fails it announces a ThreadObj and runs `help` for itself. A slow call takes three
steps that any thread may do: anchor the ThreadObj to the value, copy the value
into the ThreadObj (`helpValueTransfer`), move the reference on. Hard: a helper acts
on a ThreadObj read long ago, maybe of a call that has returned. Correct means: it is
fetch-and-add, the helping steps keep their order, fast calls overtake an announced call a bounded
number of times, and a helper's loop goes on only while calls are decided.

**Harris list.** A sorted list whose `next` fields refer to immutable packets (node,
deleting); `insert`, `delete`, `search` (which unlinks marked chains), `size`,
`toString`. The packet is compared by reference. Hard: a search returns a pair
that need no longer be adjacent or alive. Correct means: chains ascend and end in the tail,
a mark stays, answers agree with some instant of the call.

**Wait-free queue.** A Michael-Scott list with `head` (a node and the descriptor of
the poll that has claimed it) and `tail`; per thread the descriptor it announced last
(`state`) and a `HelpRecord` that rations helping. `add` and `poll` fall back from
`MAXFAILURES` fast rounds to a descriptor that all threads help: `helpEnq` links
the node and then swings the tail, `helpDeq` ties the descriptor to a node in two
steps (its own PNode, then the head). Hard: a helper may be at any of these steps for
a descriptor that is done; the fast path must finish a slow poll it meets. Correct
means: FIFO linearizability, a node linked once, a poll tied to one node, bounded
overtaking.

**Record free list.** Sixteen queues of indices, head and tail words with versions, the
`next` words of the Records with versions and an end bit. `get_Record` takes from
the queue `recordTake` names, then from the following ones, then from all in order, then
gives up; `return_Record` appends to the queue the Record came from. Records are
recycled at once, so that every CAS is exposed to ABA, which the versions have to catch.
Correct means: a Record has one holder or is in its queue, none is lost, calls return.

**Reference map.** Sorted lists of Records, one per hash value; the word of a Record holds the number of
references to its pointer, a node version, a next version and the index of the next Record. `psly_record`
finds or links the Record of a pointer and adds one, `psly_remove` takes one away and unlinks the Record when
none is left, `psly_search` reads the number. An unlinked Record goes back to the free list at once, with
other threads standing on it. Hard: a traversal notices that only by the versions in the word of the Record before, which it
reads again after every access; walks differ in what they do when they notice (begin at the head,
or at a remembered place) and in when they act on a Record they found. Correct means: a call answers what a
counter for its pointer would, lists stay sorted, a Record is in one place, a live one is never unlinked.

**Words.** Every file computes the masks of these fields from a few bit numbers by shifts, in 32 or 64
bits. Correct means: a helper changes its field and no other, carries stay inside, and a version that must change does.

**Queue with counted references, and with hazard pointers.** A Michael-Scott queue that frees its nodes: `Head`, `Tail`, the nodes, a
retire list per thread, and either a map from pointers to numbers of references or two hazard pointers per thread. `enqueue` and `dequeue`
record a node before they look into it and read `Head` or `Tail` again; `retireNode`
stores what was dequeued, and `scan` frees what nobody refers to. An address that was freed
may come back with the next allocation. Hard: a pointer compared by a CAS may name another node than
the one that was read; `scan` reads the hazard pointers one after the other. Correct means: no freed node is touched, none is lost, references are given
up on every way out, FIFO linearizability.

**Wait-free queue on cells.** `putIndex` and `popIndex` are counters drawn from by fetch-and-add; cell *i* belongs to
the enqueue and the dequeue that draw *i*. A dequeue seals a cell it finds empty (`TOP_VAL`), and the enqueue
that comes late makes a request (`Enq`: an id and the item) which dequeues put into cells they pass;
a dequeue whose cell gave nothing makes a request (`Deq`) that the others answer by walking the cells behind. Handles form a ring, in which
`eh` and `dh` say who is helped next. Hard: a request object is used again for the next request while a late helper still
holds it; both indices are also moved by helpers. Correct means: FIFO linearizability, no element lost, every
call returns.

### Interactions

The threads interact through the shared fields. Three C parts are layered: the reference map takes its
nodes from the Record free list and packs its words as `RecordLayout` says; the queue with counted references
protects its nodes with the map. Each layer is checked against what the layer above uses: `Exclusive` and `Conserved`
let `ReferenceMap` treat the free list as a set; `CountsSpec` (the map implements `ReferenceCounts`)
lets `ReferencedQueue` treat a call of the map as one step on a number; `ReferenceFields` and
`QueueFields` let all of them treat a word as a record of numbers modulo their widths.
Every queue but the one on cells implements the same `FifoQueue`.

## 2. How the modules are built

One action stands for one access to shared memory together with the local computation
up to the next access; `pc[t]` names the next access of thread `t`, and the label reads as the place
in the code. Locals keep their names where that helps. Memory is sequentially
consistent: Java's volatile fields and the x86 `lock` instructions give that for the fields
that matter. One does not: `ThreadObj.valueObj` of the counter is a plain field that is always read after
a volatile read, or compared by a CAS; the model takes it to be volatile.

A call is named by its thread and its number, `<<t, k>>`. That one name stands for the object
the call makes (the node, the ThreadObj, the descriptor): objects that are never published need no
name, and the collector never lets one name mean two live objects. A CAS on a
reference is a comparison of identities: in the list and the counter a `stamp` in the object
counts the successful CASes on the field, in the queue heads and PNodes are compared by contents, and
`HeadForward` and `Claimed` show that equal contents are one object. In C there is no
collector: the words of `RecordQueue` are modelled with their versions modulo their width.

`FetchAndAdd` and `FifoQueue` say what a counter and a queue promise: a call takes
effect at one instant between its invocation and its return, and the answer is what
the abstract object had at that instant. The detailed modules implement them under a
refinement mapping (`FASpec`, `FifoSpec`), with state functions that decide a call at the step
that decides it in the code, which may be a helper's step. For a poll that answers "empty" the
instant is known only later, so `WaitFreeQueueHistory` adds a history variable
`sawEmpty`, and `place`, the order in which nodes were linked. `WaitFreeBound`,
`WaitFreeQueueBound`, `LockFreeListResults` and `WaitFreeQueueCalls` add history variables for the other
properties in the same way: the conjunct that maintains them adds no guard.

### Correspondence

| module | state | actions and code |
|---|---|---|
| `WaitFreeCounter` | `valueObj`, `threadObjs`, `tobj[o]` (ThreadObj.valueObj), `index` | `Invoke`, `FastRead`, `FastCas`: the fast path; `Announce`, `Retract`, `Return`: the slow path; `HelpGet`..`HelpTake`: `help`; `XferTest`, `XferCas`: `helpTransfer`; `ValTest`, `ValCas`: `helpValueTransfer` |
| `LockFreeLinkedList` | `next[n]` | `Begin`, `Start`, `Scan`, `Skip`, `Advance`, `Unlink`, `Check`: `search`; `InsertCas`: `insert`; `Mark`, `MarkCas`, `Successor`, `UnlinkRight`: `delete` and the search that ends it |
| `WaitFreeQueueFastPath` | `next`, `head`, `tail`, `state`, `desc`, HelpRecord | `Register`, `Help`, `ResetTid`, `ResetPhase`; `Add*`, `Poll*`: fast paths; `Announce`; `Enq*`: `helpEnq`; `Deq*`: `helpDeq`; `Fin*`: the finishing routines |
| `WaitFreeQueue` | `putIndex`, `popIndex`, `cells`, `ring`, handles (`putNode`, `popNode`, `eh`, `dh`, `enq`, `deq`) | `Register*`; `Enqueue`, `Put*`, `Slow*`: `enqueue`; `Dequeue`, `Pop*`, `SlowDeq*`, `SlowDone`, `SlowGot`: `dequeue` and `deq_slow`; `Help*`: `help_enq`; `Ask*`, `Seek*`, `Offer*`, `Moved`, `TakeCell`, `Finish`: `help_deq` |
| `RecordQueue` | `head`, `tail`, `next`, `recordTake`, the arrays and their number | `Get`..`GetHeadCas`: `get_Record`; `Grow*`: the arrays it adds in four files; `Return`..`RetSwing`: `return_Record` |
| `ReferenceMap` | `word`, `pointer`, `free`, and a frame of locals per thread | the search common to all walks; `ReferenceMapOnce`: files that act at the key; `ReferenceMapLate`: files that go on behind it; `ReferenceMapRuns`: calls, histories and properties |
| `RecordLayout` | one word as a set of bits, and an older copy of it | the helpers on words: `nxtAddrV`, `newNode`, `newNext`, ... |
| `ReferencedQueue` | `head`, `tail`, `next`, `value`, `heap` (what malloc has given out), `refs` (who refers to what), `list` (retire lists) | `Enq*`: `enqueue`; `Deq*`: `dequeue`; `Drop`: `psly_remove`; `Retire`: `retireNode`; `Scan*`, `Free`: `scan`; `Finish`: the end of `thread_routine` |

`PROJECT.json` maps every definition to its lines.

## 3. What the runs check

All runs bound the calls of a thread, so behaviours end: `CHECK_DEADLOCK FALSE`
says only that. A thread is never blocked in these structures.

| run | instance | properties |
|---|---|---|
| `counter` | 2 threads, 4 calls each, two fast attempts (`MAX = N`, as in the code) | `TypeOK`, `StepOrder` (an anchored object leaves the reference only when its ThreadObj holds it), `FASpec` (linearizable fetch-and-add), `OvertakenBound` (each other thread passes an announced call at most `N` times on the fast path), `RoundsBound` (two rounds of `help` for each call decided meanwhile), `Completes` |
| `list_calls` | 2 threads, 2 calls each, elements 1..3, list {1, 2} at the start | `TypeOK`, `Ascending`, `Balance` (deletes never outnumber inserts), `InsertRefusal` (a refused insert saw its element), `DeletedOnce`, `Completes` |
| `list_lost` | the same with elements 1, 2 | `DeleteRefusal` is violated: see Findings |
| `queue_three` | 3 symmetric threads, 1 call each | `TypeOK`, `LinkedOnce`, `Claimed`, `HeadForward`, `FifoSpec` |
| `queue_bound` | one call against four | `OvertakenBound` (each other thread finishes at most `MaxPassed` calls while an announced call is pending), `Completes` |
| `cells` | 2 threads, three programs of 3 and 4 calls, nodes of 2 cells, one element gone before | `TypeOK` (nobody is at the code's `System.exit`), `Linearizable` (every element is given out or in reach, and the answers are a FIFO queue's; but for `Lost`, below), `Completes` |
| `records` | 2 threads, 2 gets each, returns unbounded; two queues of three Records, or one that grows to two | `TypeOK`, `Exclusive` (one holder), `Conserved` (no Record is lost, the tail stays in the queue), `Completes` |
| `maps` | 3 pointers, 5 Records, one list; two scenarios (below); 17 files | `TypeOK`, `ReallyLinked`, `Conserved`, `Sorted`, `OnlyDeleted`, `TurnsBack`, `CountsSpec` |
| `maps_late` | the same, the other 8 files | `Removed` is violated: see Findings |
| `layouts` | the masks of 24 files, words of chosen bits, two changes behind the back of a thread | `ReferenceFields`, `QueueFields`, `Fresh` |
| `shared_two` | 2 threads with 2 items and 1, 4 addresses; ten files | `TypeOK`, `NoUseAfterFree`, `NoLeak`, `FifoSpec` |
| `shared_three` | 3 threads, 4 addresses | `NotItself` is violated: see Findings |

**Why the bounds are enough to be interesting.** Three threads with one call each contain
the announcing thread, a helper and a bystander that changes the shared reference between the two;
two threads with four calls each let one thread pass through its helping index twice while the other
sleeps anywhere, which is where a late helper meets another call of the same thread. For the counter everything
about its values is proved for any number of threads, so its run keeps to two; three threads with one call each and
the amounts 1 and 2 have been run by hand (770,000 states, no error). The list
holds two elements at the start, so that a search can span a chain of marked nodes, which two threads with two calls
each can mark, unlink and refill. In the queue
`MAXFAILURES = 1` and `HELPINGDELAY = 0` take the slow path as early as possible
(the code has 8 for each: more fast rounds only delay what the runs explore); one call against
four is the smallest instance where the HelpRecord comes round to the announcing thread twice, and the bound `MaxPassed`, which
is `(HELPINGDELAY + 1) * (threads + 1)`, is reached: three calls.

*Cells.* The programs of `cells` are the shortest in which a late enqueue makes a request, a dequeue
answers it, a dequeue makes a request of its own and another thread's second call helps that; two cells to a
node let every walk cross nodes. `Cells` bounds nothing that happens: an index beyond it would be an error of the run.
In one of the programs a thread enqueues twice; the theorems of section 4 are about those in which none does.
By hand `Linearizable` has also been checked for `<<e, e, d>>` against `<<d, d>>` (2.2 million states),
`<<e, d>>` against `<<d, e>>` and `<<e, e, e>>` against `<<d, d, d>>`. Three threads are out of TLC's reach here: one call each
already exceeds 17 million states.

*Free list.* Two queues of three Records have four to give out to
two threads: each finds a queue exhausted, goes to the other, and a Record comes back to
the head while the other thread sleeps inside `get_Record`; without the versions `Exclusive` fails. In the files that grow, both threads
build the second array at once. With three gets each the same properties have been checked by hand (6 and 13 million states). The
versions do not wrap within the bounds.

*Map.* In the first scenario two threads meet at two pointers with two calls each, so that
a Record dies, comes back under another pointer and is met again; in the second, two neighbours die while a third thread links a
Record, maybe one of them, before them. These are the shortest programs in which every check the walks make is needed: each of the seven
mutants removes one. `RefMod`, `NodeMod` and `NextMod` are wide enough that nothing wraps. `MaxPrev = 1` gives the
files with remembered places one such place besides the head. `Watched` names one thread for `TurnsBack`; the threads are alike.

*Queue that frees.* The runs of `thread_routine` end with dequeues until the queue is
empty, a node of which may be the one the other thread has freed and allocated
again. `EnqRecheck` is nondeterministic because
`Tail` is a plain variable in C and nothing between its two tests makes the compiler read it
again; after `psly_record` it must. A retire list that keeps one node while its thread goes on is the case
that needs a scan with something left (`main` has 10000 slots).
Addresses other than the first node's are symmetric. With two threads the properties hold
because a thread that dequeues does not enqueue again: nobody is left to bring an address back while the
other one sleeps before its CAS. `shared_three` has that third thread; its programs are prefixes of
`thread_routine`.

**Fairness.** `Completes` assumes weak fairness of the steps of every thread that is inside a
call: an operating system runs every runnable thread. No fairness makes a thread begin a call. A lock-free loop may
then still be repeated for ever by a stream of calls of others; the bounded number of calls ends
that stream. `Completes` is therefore lock freedom and absence of a loop
that spins without anybody's progress; the overtaking bounds need no fairness. For the queue they are the wait-free
claim, for the counter they are what is true of it (see "outside the runs"). The map has no liveness run, since its state space with fairness is too large; `TurnsBack`
says what lock freedom rests on, that a walk goes back only when another thread has written since it last
did, and the run checks for deadlock (`Finished` is the only place to stop).

**Findings.** `list_lost`: `search` tests `curNode.next.deleting` at
`LockFreeLinkedList.java:66` and reads `curNode.next` again at line 74, so the left node it returns
may be deleted, and the packet it returns may say so. `insert` (line 28) replaces that packet by one
with the same mark and returns true: its node hangs behind a deleted one. The deleter, which
read `right.next.node` before (line 50), then unlinks both. The next `delete` of the element answers
false although no other call deleted it. README.md:40 of the repository calls the list "the famous Harris's
List"; there the insertion fails, since the mark is part of the compared word. The mark itself is
never lost (`DeletedOnce`, proved); what is lost is the element behind it.

`shared_three`: `enqueue` calls `psly_remove(t)` before the CAS that moves `Tail` away from `t`
(`hazardpointer_fast.c:586-587` and `591-599`; `dequeue` does so at 633-635). In between `t` can be dequeued, freed,
allocated again and linked, so that `Tail` is `t` once more; the late CAS succeeds and moves `Tail` to a node
that has left the queue. When that node is allocated next, `enqueue` links it behind itself. Line 592
tests for that (`if( t == node )`, "is something wrong!") and ends the program. The trace
has 74 states. Giving the reference up after the CAS closes the gap.

`maps_late`: in eight files `psly_handle_records` keeps a Record it found (`found = curr`) and walks on behind it,
to read words until one follows another; later it unlinks `found` and what is dead behind it with one CAS from `prev`
(`fast/fast64bitversion/psly_hazard_pointer.c:341`), without looking whether the Record it stands on still belongs to that chain. In the trace the Record *behind* `found` died,
was unlinked by a second thread and taken by a third as its own new Record, whose word names `found` but which is not linked yet. The walk reads the new word, takes this Record
for `prev` and comes to `found` again; its CAS then changes the word of a Record that is in no list, and `found`, whose last
reference it has taken, is given back while the list still links it. The comment at the CAS says "remove records succes!!! return
the records to respository". `lockfreelist_before.c` and `simple64T.c` have the same walk but read `found->nextRecord` again after every
read of `prev`; they are among the 17 files that pass `maps`.

**What the code does wrong outside the runs.** Some instances are beyond the runs of this project and were
looked at by hand, by changing the configurations:

- `WaitFreeGetAndIncrement.java:231`, the counter with four threads. README.md:20 of the repository calls it wait-free. A call that ends on the
  slow path helps nobody (lines 228-232); only a success of the fast path looks at `index` and helps. With four threads and `MAX = 4`, three threads can take
  turns so that each fails its four fast attempts and is served on the slow path, while the fourth, whose call is
  announced, loses every CAS of `help` to them. Twelve turns of such a schedule have been replayed step by step in TLC, and nothing limits their number: 36 calls of the others
  were decided, and the waiting thread went round its loop 26 times. Four threads are beyond a search, so no run shows it. What does hold for every number of
  threads, `OvertakenBound` for fast calls and `RoundsBound`, is proved.
- `WaitFreeQueue.java:344`, lost element. `help_deq` raises `popIndex` past cell *i* before it asks what the
  cell holds. If the request it helps is answered "empty" meanwhile, it leaves, and an element that was in cell *i* is
  never given out, since no dequeue draws *i*. Two threads do that within the bounds of `cells`, with `<<e, e, d>>` against `<<d>>`: the
  dequeue of the second thread makes a request and sees the queue empty at cell 2, sleeps before it says so, the first thread
  enqueues twice, takes its first element and helps the request past the second. `Linearizable` names this loss by its cause and
  excuses nothing else. Two history variables follow the helpers: `skipped` has the request and the cell whenever a helper moves `popIndex` (344), `emptied` the request
  and the cell when it is answered "empty" (348). An element is in `Lost` if its cell is unsigned and was skipped for a request that was emptied at an
  earlier cell. Of every other element `Linearizable` asks that it was given out or that a dequeue will still draw its cell, not both, and that the answers
  are those of a FIFO queue. An enqueuer or a helper that leaves a cell unwritten violates it (the mutant `HelpSet_Left`), and with `Lost` empty the run itself
  does. No run of its own shows this loss.
- `WaitFreeQueue.java:238`, a request answered with an old cell. `help_enq` claims the request that `enq` names without testing
  `ei <= i`. A helper that was asleep since the enqueuer's previous request gives the new one the cell *i* of the old; the enqueuer then
  searches from `reserveNode`, which is already behind that cell, finds none and calls `System.exit`
  (line 174). Seen with `<<e, d, e>>` against `<<d, e, d>>` (`TypeOK`, 81 states).
- `WaitFreeQueue.java:238` and 243, an element given out twice. `help_enq` reads the item of a request (236) before it reads its id again (238), and writes it (243). Four threads,
  *E* with `<<e, e>>` and three with `<<d>>`: *E* fails at cell 1 and makes a request; a dequeue signs cell 3 for it and falls asleep with the item in its hands. *E* puts that item into
  cell 2 itself, another dequeue takes it, the next enqueue of *E* fails at cell 3 and makes a request, and a third dequeue claims cell 3 for that one.
  The first wakes up, finds the request claimed for its cell and the cell open, and writes and returns the old item. Replayed step by step in TLC: 87 states to the stale
  write (`ItemsFit`), 93 to `TakenOnce`.
- `WaitFreeQueue.java:370`, another lost element. `help_deq` replaces a candidate by a later one without asking whether somebody is about to sign the earlier. In the behaviour above, let a
  helper of the third dequeue pass cell 3 before it has an item, and *E* put a third element into cell 4: the dequeue offers cell 3, the helper overwrites that with 4, the dequeue signs
  cell 3 all the same, and its answer is cell 4. Cell 3 is signed for it, and nobody ever takes what is in it. Replayed in the same way: 126 states to `OffersFit`, and all calls return.
- `WaitFreeQueue.java:142`, index 0. A request is open while `enq.id > 0`; the first index is 0. An enqueue that fails there never enters the
  loop and writes its item into the cell it found sealed. Seen with `Used = 0`, `<<e, e>>` against `<<d, d>>`. The run starts with
  `Used = 1` to keep it apart.
- `hazardpointer.c:244` with three threads. `dequeue` clears both hazard pointers before its CAS on `Head`; with `<<e, d>>`, `<<e, d, d, d>>`,
  `<<e>>`, four addresses and `THRESHOLD` 1, `Head` comes to name a freed node. `hazardloop.c`, which drops its reference to `h` early, reads a
  freed node with three threads. `hazardpointerslow.c` can do neither: see section 4.

## 4. What is proved

TLAPS checks these for every value of the constants; the only assumptions on constants are the named
`ASSUME`s of the modules, which say that counts are natural numbers, null values are not objects, memory has finitely many addresses and, for the wait-free queue's
bound, that there are finitely many threads. The theorems about the queue on cells, `Exclusive`, `Conserved` and their sum for the free list, the theorems about the hazard-pointer
queue and the reference map, and `SameBitsSameWord` have a hypothesis of their own, explained below.

| theorem | says |
|---|---|
| `WaitFreeCounterProof!TypeCorrect` | `Spec => []TypeOK`: help never follows a null reference |
| `WaitFreeCounterProof!StepsInOrder` | `Spec => StepOrder` |
| `WaitFreeCounterProof!NeverLate` | `Spec => NoLateAnchor` |
| `WaitFreeCounterProof!ImplementsFetchAndAdd` | `Spec => FASpec` |
| `WaitFreeCounterProof!NoValueTwice` | the ranges handed to two calls of the counter are disjoint (`TicketsDisjoint`), through the refinement |
| `WaitFreeCounterProof!OvertakenAtMostN`, `RoundsArePaid` | `BSpec => []OvertakenBound`, `BSpec => []RoundsBound` |
| `LockFreeListProof!TypeCorrect`, `ChainsAscend`, `MarksStay` | types, `Ascending`, `DeletedOnce` |
| `LockFreeListProof!NotDeletedTwice` | `Spec => []Balance`: deletes of an element never outnumber its inserts |
| `LockFreeListProof!RefusalsSeen` | `RSpec => []InsertRefusal`: an insert that is refused has had its element in the list during the call |
| `WaitFreeQueueProof!TypeCorrect`, `NodesLinkedOnce`, `DescriptorsTied`, `HeadsForward` | `HSpec => []TypeOK`, `[]LinkedOnce`, `[]Claimed`, and `HeadForward` |
| `WaitFreeQueueProof!ImplementsFifo` | `HSpec => FifoSpec`: every add and poll is linearizable |
| `WaitFreeQueueProof!OvertakenFewTimes` | `BSpec => []OvertakenBound`: while an announced call is pending each other thread finishes at most `MaxPassed` calls |
| `WaitFreeQueueCellsProof!NobodyExits` | `Used > 0 /\ OneEnqueue => (Spec /\ []Bounded => []TypeOK)` of the queue on cells: when no thread enqueues twice, no request is answered with a cell that its owner cannot find, so no call comes to the `System.exit` of the code |
| `WaitFreeQueueCellsProof!NothingTwice` | the same for `TakenOnce`: no two dequeues of the queue on cells give out the same element |
| `RecordQueueProof!TypeCorrect` | `Spec => []TypeOK` of the free list |
| `RecordQueueProof!HandedOutOnce`, `NoneLost` | `Spec /\ []Unwrapped => []Exclusive`, and the same for `Conserved` |
| `RecordQueueProof!SafeForFewCalls` | both without `Unwrapped`, when the calls of `get_Record` are fewer than the versions |
| `WaitFreeQueueProof!ElementsInOrder` | the queue hands out every element at most once, in the order of places (`TakenInOrder`), through the refinement |
| `ReferencedQueueProof!TypeCorrect`, `SafeReclamation` | `HSpec /\ KeepsHazards(file) => []TypeOK`, and the same for `NoUseAfterFree`: the queue of `hazardpointerslow.c` touches no node that a scan has freed |
| `ReferencedQueueProof!ImplementsFifo`, `ElementsInOrder` | the same hypothesis `=> FifoSpec`, and so `TakenInOrder`: that queue is linearizable while addresses come back |
| `ReferencedQueueProof!NothingLost` | the same for `NoLeak`: every allocated node is in the queue, in a retire list or with one thread |
| `ReferenceMapProof!TypeCorrect`, `CheckedPrev` | `Spec /\ build.walk = "once" /\ []Unwrapped => []TypeOK`, and the same for `ReallyLinked`: a walk that stands outside its list finds out |
| `ReferenceMapProof!RecordsConserved`, `ListsSorted`, `LiveStays` | the same hypothesis `=> []Conserved`, `[]Sorted` and `OnlyDeleted`: a Record is in one place, no pointer has two, what counts references is never unlinked |
| `ReferenceMapProof!NeverTurnsAlone` | the same for `TurnsBack`: a walk goes back only for a write of another thread |
| `ReferenceMapProof!ImplementsCounts` | the same for `CountsSpec`: every call answers what a counter for its pointer would |
| `RecordLayoutProof!MasksPart` | the masks of a word have no bit in common and fill it, for every layout |
| `RecordLayoutProof!HelpersChangeFields`, `QueueHelpersChangeFields` | `Spec => []ReferenceFields`, `Spec => []QueueFields`: a helper changes the fields its name says, by one, and no carry or borrow reaches another one, for every layout and any number of changes |
| `RecordLayoutProof!SameBitsSameWord` | `VersionsFit`, that is `MaxSteps` below the size of the narrowest version, `=> Spec => []Fresh`: equal words are the same moment |

**The counter's invariant.** `TypeOK` does not say that an object a helper holds is still
meaningful. `IInv` adds it: `Seen` (an object that was published is the current one or older, and
an anchored one that was replaced is held by its ThreadObj), `ObjInv` (a ThreadObj never
holds a second object), `HelpInv` (a helper inside the loop with an undecided ThreadObj
helps a call that is still pending: this is what makes late helpers harmless), `AnnounceInv`, `CallInv`, `ResultInv` (where
the announcement, the ThreadObj and the result of a call can be by its thread's `pc`). One
lemma per action group shows that a thread's own step keeps its part, one that others' steps
do. The refinement then has one lemma per decisive step: `FastCasTakes` and `AnchorTakes` map to
the abstract step of the caller, `OthersStutter` for the rest.

**The counter's bounds.** `BoundInv` measures how far the others are from helping. A thread that succeeds on the fast path looks at
the thread its `index` names and moves the index on, so `Distance` from the index to a waiting thread falls with every success, and
at distance zero the thread does not return before the call is decided (`AssistInv`): the successes so far and the distance stay below `N`
(`OvertakeInv`). `RoundsInv` counts the rounds of `help` against the values that were anchored since: a round that fails has met a value that is gone, each
value is anchored once and released once, and so a decided call pays for two rounds.

**The list's invariant.** `Ascending` is not inductive: a CAS writes what a search found some time
ago. `LocalInv` says what each local still guarantees: nodes are published, the left one is
below the key, the right one is not, and the packet to be replaced points to the right one. That a
replaced packet is the one read is the stamp; that it leads upwards is `Ascending` when it was read.

**Counting deletes.** `Balance` compares two cardinalities, and neither moves alone: `CountInv` adds to `IInv` that
the deletes of an element that answered true are as many as its marked nodes (`Counted`), that a thread about to
mark stands on a node of its own element with a packet that has no mark and has not answered yet (`Choosing`), and that a call not
made has no answer (`Undecided`). Only `MarkCas` changes either number, and it raises both by one; marked nodes are
published ones.

**Refused inserts.** `seen` holds the truth of every moment of a call, the present one included (`SeenInv`). An insert is decided with `FALSE`
in one place only, at `Check`, where it stands on a published node of its element whose mark it has just found missing
(`RefusedThere`): the element is a member then. That it stays refused until it returns is all that is left.

**The queue's invariant.** `IInv` of `WaitFreeQueueInvariant` has four parts for what is shared. `ListInv`: the placed
nodes form one chain, with places that count up and end at `back`. `EndsInv`: the tail lags by at most one, the head is not beyond it, and
strictly before it while it holds a descriptor. `DescInv`: the node of a pending add is not linked or directly behind the tail (`EnqInv`);
a poll notes nodes that the tail has passed, and is done only when the head holds it at that node or has left the node (`DeqInv`).
`Claimed`. None of them is inductive without what the threads still know of their reads (`TailInv`, `HeadInv`, `PNodeInv`): a head once read is the
head, or was left, or has taken a descriptor in since (`HeadPast`); the descriptor read with it is done if the head went on
(`Taken`); the PNode a helper compares with is still the descriptor's, or the head has left its node, so that `casHead` must
fail (`PNodeInv`); a helper about to link a node linked already finds a `next` that is set (`TailInv`). The proof splits as the code does: `Stable` says
that reads age well under any step that `Evolves`, `OtherStep` derives what the other threads keep, and the lemmas `LinkStep`, `TailStep`, `HeadStep`, `DescStep`
deal with the four kinds of change; each action then needs only its own locals.

**The queue's refinement.** `HSpec` is `Spec` with two history variables; no guard is added. `RInv` adds to `IInv`
that a pending descriptor belongs to the call its owner is in (`PendingInv`), that `sawEmpty` says what it should
(`SawInv`), that a call returns only after it has taken effect (`ReturnInv`), that a helper which linked a node leaves
`helpFinishEnq` only when the descriptor is done (`DoneInv`), and that whoever has read no next node behind its head has seen
an empty queue, on behalf of the owner of the descriptor it works on if that is still open (`EmptyInv`). Then each step
is mapped: `AddCas` and `EnqCas` to `Add`, `PollCas` and `DeqCas` to `Poll`, `PollCheck` and `DeqNull` to `PollEmpty`, of the call the node
or the descriptor belongs to, which need not be the thread that takes the step. All other steps stutter; for `FinDone` and `FinDeq`
that is because a poll keeps its element while the head lets go of its descriptor. `RInv` was checked by
hand with TLC before (two threads with two calls, three threads with one: 81,375 and 269,247 states).

**The queue's bound.** For a pending call of *t*, `Rest(s, t, i)` is the number of calls that *s* may still finish before one of
them helps it: the one in flight (`Begun`), those until its HelpRecord is due (`Wait`), and `HELPINGDELAY + 1` for
each thread the HelpRecord names before it comes to index *i* of *t* with the present descriptor noted (`Delay`). A step of *s* never raises it,
a return lowers it by one (`OwnNearer`), no other thread touches it (`OtherNearer`), and an announcement that is new starts below `MaxPassed`
(`AnnouncedAfresh`). At zero *s* is helping *t*, and `LeavesHelp`, from the refinement's invariant, says that it leaves only when the descriptor is done. So
what was overtaken and what is left never exceed `MaxPassed` (`OvertakeInv`). The indices of the threads are an injection (`TidsInv`), which is where finiteness is used.

**The queue on cells.** Two hypotheses are about the programs: `Used > 0` keeps index 0 out, and `OneEnqueue` says that no thread enqueues twice; it may dequeue
as often as it likes, before and after. Both are needed: index 0 loses an item, and with a second enqueue the code exits or gives an element out twice ("outside the runs").
`[]Bounded` says that the behaviour has cells enough, a bound of the model. Nothing is assumed of the interleavings.

The code goes at three places by what it read some accesses ago. `Fits` in `WaitFreeQueueCellsInvariant` says that it may:

- `ClaimsFit` (`WaitFreeQueue.java:238`): a claim that succeeds gives a request no cell before its first index.
- `ItemsFit` (the same line and 243): whoever finds the request claimed for its cell and the cell still open writes the item it read from the request two accesses
  earlier, before it read the id again. That must be the item of this request.
- `OffersFit` (363-370): `help_deq` replaces a candidate by a later cell without looking whether the candidate's cell can still be signed for the request. If it could, another helper
  would sign it, its CAS on `idx` would fail, and the element of that cell would go to nobody.

When a thread enqueues twice each of the three can fail: section 3 has a behaviour for every one. When it does not, they are derived (`OnceFits`), for any number of
threads and helpers, from three more parts of the invariant. `Signed`: a cell is signed for a request only from its first index on, so a
helper that meets the request in a cell may claim it for that cell. `Sought`: what a helper read of a request and its item holds until the request is answered; and the cells
a helper of a dequeue has passed are of no use to that dequeue. Each is signed for another one or is dead, which means that it is closed and that the request it was offered to, if any, is over or went elsewhere;
a candidate that a later cell replaces is therefore signed by another dequeue, or can never be. `MadeOnce`: a request object is used at most once
(`OneRequest`), so that "over" stays true. `OnceInv` is `IInv` with these three, and is inductive. The two halves are proved one inside the other: `Fits` of a state gives `IInv` of the next (`NextKeeps`), and `IInv` with the three
parts gives `Fits` of the same state. Before the proof TLC checked `OnceInv` and `Fits`
by hand on two threads with two calls each, one of them an enqueue (1.08 million states).

`IInv` has a shared part and one for each thread. Shared: what can stand in a cell (`ItemAt`: a closed cell has no item; an item is behind
`putIndex` and belongs to a call that has begun), no item is in two cells (`OneCell`), the ring and the node pointers (`RingInv`, `NodesInv`), and `TakenInv`: what a call
has returned is in a cell that was signed, and whoever signed it will make its next request only behind that cell (`Bar`). `TakenOnce` is inductive only with that.
For each thread: an index drawn belongs to one enqueue (`PutInv`); a request is open or has a cell that is not before its first index (`ReqInv`, `Claimed`); a helper that is
about to write an item writes the one that is there or the one that is due (`HelpInv`, `Due`); `help_enq` answers what the cell holds or that it is
closed for good (`ValInv`). For dequeues: a request that is answered has a cell which its owner has signed or nobody can use (`DeqInv`, `Answered`); and what a
helper has read of a request, its id, its candidate and its own place, still holds or belongs to a request that is over (`SeekInv`, with `Bound` and `Cand` for candidates
that were replaced). The last part is where a helper that slept through a whole request is shown harmless. A number of lemmas say what a step of one thread
leaves to another; each action has one lemma for its own part.

**The free list's invariant.** `Placement` gives the Records of every queue that no thread holds places that count up from the version of its head, and
says that `next` leads one place on and that the tail is among them: from this the
chain of `Conserved` follows by induction along the places. A CAS is based on words that were read earlier; `Since` says that a word with the same version is the same
word, and that versions never fall. The versions do wrap in the code (section 6): with `VERSIONS` of them a thread that sleeps while the head
goes round once can be fooled, so the theorems about `Exclusive` and `Conserved` assume that the head's version has not come to its
end (`Unwrapped`). That condition is reached by every run of the checks, and `SafeForFewCalls` replaces it by one on
the constants alone. `TypeCorrect` needs no such hypothesis.

**The hazard-pointer queue.** The theorems are about the file whose scan gathers all hazard pointers first and whose calls keep theirs until
their CASes are done: `KeepsHazards(file)` says that the file that runs is `hazardpointerslow`, with any `THRESHOLD` and any length of the retire list.
The hypothesis is needed. The other files give a pointer or a reference up before a CAS, and with three threads they fail (`shared_three`, and "outside the runs"). All
four properties of `shared_two` hold for this file whatever the constants are.

`IInv` numbers the nodes: the place of its element is the number of a node, `taken` that of `Head`. `ChainInv` says that from
`Head` on `next` leads one number further up to `back`, `RetireInv` that what was retired has a number below `taken` and is with one thread or
in one slot. A number never becomes `taken` again, so a node that was retired is not found in the queue. That is why a scan need read each hazard pointer only
once. `Guards(t, k, a)` says when a hazard pointer counts: its thread has read `Head` or `Tail` again after it wrote the pointer, and so found the node in the queue.
Whatever a scan may free is guarded by a pointer that it has still to read, or has seen, or by none (`ScanInv`), and no step of another thread makes a
new guard of a retired node. `EnqInv` and `DeqInv` are what the threads know of their reads. What is guarded is not freed, hence not allocated again, hence a CAS that compares addresses
compares nodes.

For the refinement `FInv` adds how far a thread is in its call (`Mode`, `CallInv`) and that `sawEmpty` misses no moment of it (`SeenInv`). The allocation and the first
step of a dequeue map to `Invoke`, the CAS of `EnqLink` to `Add`, that of `DeqCas` to `Poll`, a null `next` found behind `Head` to `PollEmpty`, the step that ends the call to
`Return`; all others stutter, the scans and frees among them. `KeptInv` adds for `NoLeak` that each number from `taken` to `back` has its node and that each node is kept
somewhere. That the walk from `Head` in `Chain` meets exactly these nodes is shown without induction over walks: two walks differ at a least step, and there are finitely many
addresses to number. Before the proofs TLC checked `IInv`, `FInv` and `KeptInv` by hand on two threads (646,233 states).

**The reference map.** The theorems are all seven properties of `maps`, for the fifteen files that settle a call when they meet its key:
`build.walk = "once"`. The ten other files walk on behind a Record they found; eight of them are wrong (`maps_late`), and the two
that look at it again are model-checked only. `Unwrapped` says that no count and no version of a word is at the end of its field: with versions that
come back a sleeping thread can be fooled, as in the free list, and a count that overflows reads as a dead Record. It is true in every state of the
run `maps`.

A word alone does not say what a Record is for. The invariant therefore speaks of a map *m*, the shared state with three functions the code does not
keep: where each Record is (`at`: free, linked, with a thread that has not linked it yet, or with one that has unlinked it), with which thread (`by`), and the number of
the last incarnation that was linked (`age`). `MInv` says that some such *m* exists; each action's lemma (`...Takes`) gives the next one. `MapInv` holds the shared part:
the linked Records of a list have different ranks, and each is followed by the next of them (`ListInv`); a Record that is not linked is dead or
has a word nobody has met (`PlaceInv`).

`FrameInv` is what a walk knows. Its `prev` may be anywhere by now; the incarnation it was stood before the key, and if it is still linked as that one then its
next version has only grown, and an equal next version means the same successor (`PrevInv`). `Good` is what the code finds out when it reads `prev` again and
both versions are the ones it knew. The whole walk rests on `CurrInv`: *if* `prev` is good, `curr` is linked behind it and only dead Records are between them.
`ReallyLinked` is its contraposition. What others may do (`Evolves`) keeps it: whoever unlinks `curr`, or links a Record between the two, either writes a new
next version into `prev` or finds `prev` dead. So a CAS on `prev` that succeeds meets a good `prev`, and what it cuts out is dead (`Cut`), which gives `OnlyDeleted`
and the order of the lists. `MetInv` covers the CASes on the count of a Record met: its pointer, once read under a good `prev`, is the pointer of
that incarnation for good, so that a CAS which finds the node version unchanged counts for the right key. `GoneInv` keeps the chain a thread has
unlinked apart from what others see, `MineInv` and `OwnInv` the Record it has taken, `StepsInv` the remembered places.

`CountInv` ties counts to threads: the live Record of a pointer counts exactly the references that threads hold or are in the middle of handing over (`Held`).
That a `REMOVE` always finds its Record follows (`NeverMissed`), and so does the refinement: each decisive step is a step of `ReferenceCounts`. For `psly_search` that step may be later
than the read which decides it; `SeenInv` says that the number it has read is among the counts of its call as long as `prev` is good (`ReadInv`). `DisturbInv`
says for `TurnsBack` that a walk which no other thread's write has disturbed knows the present word of `prev`.

`Linked` and `Conserved` speak of chains, functions that follow `to` from the head. That a chain meets exactly the linked Records, in order, is `WalkPasses`. The library's
induction theorems take an operator as a parameter, which the provers here cannot instantiate; `EveryNumber` states induction for a set of numbers
instead, from the least number that is not in it.

**The words.** `Layouts` is a constant here: the theorems hold for every list of layouts whose widths fill the word (`LayoutFits`), not
just for those of `RecordLayoutFiles`. The masks are the sums the code computes, so what they select has to be shown first: `MasksPart` takes them apart into runs
of bits. The rest is one argument about an addition with a carry. `Leading` says of a field of the word what is left when everything below it is cut
off; adding one at the bottom of a field changes the leading part by one, and the fields above it only if the field was full, which the helper's mask then throws away.
A subtraction is the addition read backwards. From these lemmas both `...Fields` invariants hold of any word whatsoever; `TypeInv` adds only that a word
fits its width. `Fresh` needs a history: `VersionInv` counts the changes of `next` and of `node`, which together are the moves made, and each
of them has moved its version on by one, round the end of its field at most once. With as many moves as a version has values the word may come back, so
the bound is needed: in the 32-bit file with four bits of version (section 6) that is sixteen changes.

**Only model-checked:** liveness (`Completes`), which the provers here cannot show; the queue on cells when a thread enqueues twice; `Linearizable` of the queue on cells, whose `Orders` is a
recursive function over sets of sequences; the ten files of the reference map that walk on behind a Record they found, and the C queues that free their nodes in other files than `hazardpointerslow.c`.

## 5. Plan

Done: counter, list, both wait-free queues, free list, reference map, words, the queues that free their nodes. Next, in this order:

1. Theorems: `lockfreelist_before` and `simple64T`, whose invariant is that of section 4 with a chain from `found` on; `Exclusive` and
   `Conserved` used directly in the map's proof, in place of a free list that is a set.
2. Runs for what section 3 lists under "outside the runs", in place of runs whose properties are proved by then.
3. The Java lists with counts, as a variant of `LockFreeLinkedList`; the C counter, as a variant of `WaitFreeCounter` without the
   help of its fast path.
4. The hops of ConcurrentLinkedQueue, refining `FifoQueue`.

## 6. Not modelled

- `ConcurrentLinkedQueue.java`, `LinkedTransferQueueFix.java`, `StampedLock.java`: classes of the JDK with a few lines changed. The
  changes only make sense inside the whole class, and that is third-party code.
- `list.rs`: a file of a crate that is not here; what is hard in it is the choice of memory orderings, and TLC explores sequentially
  consistent steps only.
- `LockFreeLinkedListWithRefCount.java`, `...2.java`: Harris's list with a count, in two drafts; `mayijin/WaitFreeAtomic.c`,
  `LockFreeAtomic.c`: the counter again. In `WaitFreeAtomic.c:77` the help of the fast path is switched off by
  `(++steps) & 7 == 0`; the mutant `FastCas_NoHelp` of the counter is that change, and breaks `OvertakenBound`.
- `hazard_long_new.c`, `psly_hazard_pointer_slow.c`, `hazardP/test.c`, `hazardP/psly_hazard.c`, `hazardP/struct/hazard.h` and the map inside
  `hazardloop.c`: unfinished forms of the reference map. Fields overlap, masks are computed in `int` and shifted past its width, or a removal takes
  the node version back; a model could only say that anything may happen.
- Registration of threads during a run and `helpScan` in the hazard-pointer files, the final collection in `main`; `unregister`,
  `initRingTail` and `count` of `WaitFreeQueue.java`.
- Wrap-around of versions: 15 and 16 bits in most files, but only four or five in the 32-bit `psly_*` files, where a thread need not sleep long
  for its CAS to be fooled. `SameBitsSameWord` says that a version differs for as many changes as it can count, not that it never returns. Likewise
  a count of references that overflows its field (ten bits or less), and `recordTake`, whose sign bit some files do not mask.
- A `get_Record` that returns `NULL` is not tested by the callers in several files; the runs of the map have a Record to spare.
- Integer overflow of the counter's value and of phases (a phase stands for its descriptor; the `short`
  would have to wrap while a helper sleeps); `Thread.yield` and other delays; `size` and
  `toString`, which change nothing and promise nothing under concurrency; timing and printing in the
  `main` methods; memory that is not sequentially consistent. In `WaitFreeQueue.java` the fields `Cell.val`, `Enq.id`, `Enq.val` and
  `Deq.id` are plain; the model takes their accesses in program order. `findCell` is part of the step before it: which thread links a node
  does not matter, only which node comes out.
