--------------------------- MODULE ConcurrentQueue ---------------------------
(***************************************************************************)
(* moodycamel::ConcurrentQueue as the ready queue of a worker group uses   *)
(* it: the thread inside spin enqueues in bulk through its implicit        *)
(* producer, the workers call try_dequeue, and the group's destructor      *)
(* destroys the queue.  A step accesses one atomic; memory is sequentially *)
(* consistent.  Storage that no consumer can see yet (an entry above the   *)
(* tail, a slot above tailIndex) is written in one step.                   *)
(*                                                                         *)
(* Element i is the one enqueued at index i.  The lock-free list of free   *)
(* blocks is in FreeList; here it is a set.                                *)
(***************************************************************************)
EXTENDS Integers, Sequences, FiniteSets

CONSTANTS
    Consumers,
    BLOCK_SIZE, IMPLICIT_INITIAL_INDEX_SIZE,
    IndexMod,      \* 2^w for an index_t of w bits
    PoolSize,      \* initialBlockPoolSize
    Disciplines,   \* does a consumer acquire a permit before it dequeues?
    MaxBlocks,     \* bound: blocks that fit into memory, the pool included
    MaxHeaders,    \* bound: block indices that fit into memory
    MaxBatch,      \* bound: elements enqueued at once
    MaxInFlight,   \* bound: elements in the queue
    MaxIndex,      \* bound, per discipline: elements enqueued altogether
    MaxOvercommit  \* bound: failures that are counted, when there are no permits

ASSUME SizesAssumption ==
    /\ BLOCK_SIZE \in Nat /\ BLOCK_SIZE > 1 /\ BLOCK_SIZE % 2 = 0
    /\ IndexMod \in Nat \ {0} /\ IndexMod % (2 * BLOCK_SIZE) = 0
    /\ IMPLICIT_INITIAL_INDEX_SIZE \in Nat /\ IMPLICIT_INITIAL_INDEX_SIZE > 1
    /\ MaxBlocks \in Nat /\ PoolSize \in 0..MaxBlocks /\ MaxBatch \in Nat
    /\ IsFiniteSet(Consumers) /\ MaxOvercommit \in Nat

\* Indices do not wrap: neither the block after the elements enqueued nor the
\* attempts to dequeue pass half the range of index_t.
ASSUME BoundsAssumption ==
    /\ Disciplines \subseteq BOOLEAN
    /\ \A d \in Disciplines :
          MaxIndex[d] \in Nat /\ 2 * (MaxIndex[d] + BLOCK_SIZE) <= IndexMod
    /\ FALSE \in Disciplines =>
          2 * (MaxIndex[FALSE] + MaxOvercommit + Cardinality(Consumers))
             <= IndexMod

VARIABLES
    q,      \* the atomics of the producer, the pool and the semaphore
    index,  \* the headers of the block index, oldest first, and their entries
    block,  \* the blocks: whose they are, elementsCompletelyDequeued, elements
    pr,     \* the producer: tailBlock and the locals of enqueue_bulk
    co      \* the consumers: the locals of try_dequeue

vars == <<q, index, block, pr, co>>

null == 0                \* no block
None == -1               \* no element
INVALID_BLOCK_BASE == 1

Blocks  == 1..MaxBlocks
Indices == 0..(IndexMod - 1)

\* Arithmetic of index_t.
circular_less_than(a, b) == (a - b) % IndexMod > IndexMod \div 2
Base(i) == ((i % IndexMod) \div BLOCK_SIZE) * BLOCK_SIZE
Slot(i) == i % BLOCK_SIZE

NoElements == [i \in 0..(BLOCK_SIZE - 1) |-> None]
NewBlock   == [state |-> "used", elementsCompletelyDequeued |-> 0,
               elements |-> NoElements]
IdleConsumer == [pc |-> "idle", tail |-> 0, overcommit |-> 0, index |-> 0,
                 header |-> 0, slot |-> 0, entry |-> 0, item |-> None]

\* The constructor of the queue.
Init ==
    /\ q \in [tailIndex : {0}, headIndex : {0}, dequeueOptimisticCount : {0},
              dequeueOvercommit : {0}, hasProducer : {FALSE}, poolIndex : {0},
              permits : {0}, destroyed : {FALSE}, byPermit : Disciplines]
    /\ index = [headers |-> <<>>, entries |-> <<>>]
    /\ block = [b \in Blocks |->
                   [NewBlock EXCEPT !.state = IF b <= PoolSize THEN "pool"
                                                               ELSE "none"]]
    /\ pr = [pc |-> "idle", tailBlock |-> null, startBlock |-> null,
             count |-> 0, base |-> 0, chain |-> <<>>, inserted |-> FALSE,
             undone |-> 0]
    /\ co = [c \in Consumers |-> IdleConsumer]

-----------------------------------------------------------------------------
(***************************************************************************)
(* The block index                                                         *)
(***************************************************************************)

header  == index.headers[Len(index.headers)]  \* blockIndex
NewEntries(n) == [i \in 1..n |-> [key |-> INVALID_BLOCK_BASE, value |-> null]]

\* new_block_index, for the constructor of the producer ...
FirstIndex ==
    LET n == IMPLICIT_INITIAL_INDEX_SIZE IN
    [headers |-> <<[capacity |-> n, tail |-> n - 1,
                    index |-> [i \in 0..(n - 1) |-> i + 1]]>>,
     entries |-> NewEntries(n)]

\* Mutant: the entries are copied without turning the ring.
CopyFrom(h, i) == h.index[i]

\* The i-th of the old entries, from the one after the tail.
OldEntry(h, i) == h.index[(h.tail + 1 + i) % h.capacity]

\* ... and of twice the size, with the old entries first.
LargerIndex ==
    LET n == header.capacity IN
    [headers |-> Append(index.headers,
        [capacity |-> 2 * n, tail |-> n - 1,
         index |-> [i \in 0..(2 * n - 1) |->
             IF i < n THEN OldEntry(header, i)
                      ELSE Len(index.entries) + 1 + i - n]]),
     entries |-> index.entries \o NewEntries(n)]

\* The distance in blocks, rounded towards zero, negative if i is below b.
BlockOffset(i, b) ==
    LET d == (i - b) % IndexMod IN
    (IF d >= IndexMod \div 2 THEN d - IndexMod ELSE d) \div BLOCK_SIZE

\* get_block_index_index_for_index, from a tail position and its key.
EntryFor(h, tail, key, i) ==
    h.index[(tail + BlockOffset(Base(i), key)) % h.capacity]

CurrentEntry(i) ==
    EntryFor(header, header.tail,
             index.entries[header.index[header.tail]].key, i)

WithTail(step) ==
    [index EXCEPT !.headers[Len(index.headers)].tail =
        (@ + step) % header.capacity]

-----------------------------------------------------------------------------
(***************************************************************************)
(* The producer: enqueue_bulk                                              *)
(***************************************************************************)

start    == q.tailIndex
LastBase == Base(start + pr.count - 1)
NextBase == (pr.base + BLOCK_SIZE) % IndexMod
InFlight == (q.tailIndex - q.headIndex) % IndexMod

\* get_or_add_implicit_producer, for the only thread that enqueues: the first
\* call creates the producer, whose block index may be missing, or fails.
AddProducer ==
    /\ ~q.destroyed /\ ~q.hasProducer
    /\ q' = [q EXCEPT !.hasProducer = TRUE]
    /\ \/ index' = FirstIndex
       \/ UNCHANGED index
    /\ UNCHANGED <<block, pr, co>>

EnqueueBulk(n) ==
    /\ pr.pc = "idle" /\ q.hasProducer /\ ~q.destroyed
    /\ InFlight + n <= MaxInFlight
    /\ start + n <= MaxIndex[q.byPermit]
    /\ pr' = [pr EXCEPT
          !.pc = IF Base(start - 1) = Base(start + n - 1) THEN "fill"
                                                          ELSE "index",
          !.startBlock = pr.tailBlock, !.count = n, !.base = Base(start - 1),
          !.chain = <<>>, !.inserted = FALSE, !.undone = 0]
    /\ UNCHANGED <<q, index, block, co>>

full == ~circular_less_than(q.headIndex, NextBase + BLOCK_SIZE)
NextEntry == header.index[(header.tail + 1) % header.capacity]

Vacant(e) == \/ index.entries[e].key = INVALID_BLOCK_BASE
             \/ index.entries[e].value = null

MayInsert == pr.pc = "index" /\ ~full /\ index.headers # <<>>

\* insert_block_index_entry: the key, before the tail moves.
InsertKey ==
    /\ MayInsert /\ Vacant(NextEntry)
    /\ index' = [index EXCEPT !.entries[NextEntry].key = NextBase]
    /\ pr' = [pr EXCEPT !.pc = "tail"]
    /\ UNCHANGED <<q, block, co>>

GrowIndex ==
    /\ MayInsert /\ ~Vacant(NextEntry) /\ Len(index.headers) < MaxHeaders
    /\ index' = LargerIndex
    /\ UNCHANGED <<q, block, pr, co>>

InsertFails ==
    /\ pr.pc = "index"
    /\ ~(MayInsert /\ Vacant(NextEntry))
    /\ pr' = [pr EXCEPT !.pc = "rollback"]
    /\ UNCHANGED <<q, index, block, co>>

InsertTail ==
    /\ pr.pc = "tail"
    /\ index' = WithTail(1)
    /\ pr' = [pr EXCEPT !.pc = "requisition", !.inserted = TRUE]
    /\ UNCHANGED <<q, block, co>>

BlocksIn(state) == {b \in Blocks : block[b].state = state}

\* requisition_block: the initial pool, then the free list, then new memory.
Obtainable ==
    IF q.poolIndex < PoolSize THEN {q.poolIndex + 1}
    ELSE IF BlocksIn("free") # {} THEN BlocksIn("free") ELSE BlocksIn("none")

Reset(b) == [block[b] EXCEPT !.state = "used", !.elementsCompletelyDequeued = 0]

RequisitionBlock(b) ==
    /\ pr.pc = "requisition" /\ b \in Obtainable
    /\ q' = [q EXCEPT !.poolIndex = IF @ < PoolSize THEN @ + 1 ELSE @]
    /\ block' = [block EXCEPT ![b] = Reset(b)]
    /\ index' = [index EXCEPT !.entries[CurrentEntry(NextBase)].value = b]
    /\ pr' = [pr EXCEPT !.pc = IF NextBase = LastBase THEN "fill" ELSE "index",
                        !.base = NextBase, !.chain = Append(@, b),
                        !.tailBlock = b, !.inserted = FALSE]
    /\ UNCHANGED co

\* Only new memory can be refused.
RequisitionFails ==
    /\ pr.pc = "requisition"
    /\ q.poolIndex >= PoolSize /\ BlocksIn("free") = {}
    /\ pr' = [pr EXCEPT !.pc = "rollback"]
    /\ UNCHANGED <<q, index, block, co>>

\* The entry that has no block yet.
RewindInserted ==
    /\ pr.pc = "rollback" /\ pr.inserted
    /\ index' = [WithTail(-1) EXCEPT
                    !.entries[header.index[header.tail]].value = null]
    /\ pr' = [pr EXCEPT !.inserted = FALSE]
    /\ UNCHANGED <<q, block, co>>

Rewound == WithTail(-1)

\* The entries of the blocks allocated so far, one after the other.
RewindBlock ==
    /\ pr.pc = "rollback" /\ ~pr.inserted /\ pr.undone < Len(pr.chain)
    /\ LET i == Base(start - 1) + (pr.undone + 1) * BLOCK_SIZE IN
       index' = [Rewound EXCEPT !.entries[CurrentEntry(i)].value = null]
    /\ pr' = [pr EXCEPT !.undone = @ + 1]
    /\ UNCHANGED <<q, block, co>>

\* What add_block_to_free_list makes of a block: RECYCLE_ALLOCATED_BLOCKS is
\* false.
GivenBack(b) == [block[b] EXCEPT !.state = IF b <= PoolSize THEN "free"
                                                            ELSE "none"]

EnqueueFails ==
    /\ pr.pc = "rollback" /\ ~pr.inserted /\ pr.undone = Len(pr.chain)
    /\ block' = [b \in Blocks |->
          IF \E k \in DOMAIN pr.chain : pr.chain[k] = b THEN GivenBack(b)
                                                        ELSE block[b]]
    /\ pr' = [pr EXCEPT !.pc = "idle", !.tailBlock = pr.startBlock,
                        !.startBlock = null, !.count = 0, !.chain = <<>>,
                        !.undone = 0]
    /\ UNCHANGED <<q, index, co>>

\* The block into which the loop over the blocks constructs element i.
BlockOf(i) ==
    LET n == BlockOffset(Base(i), Base(start - 1)) IN
    IF n = 0 THEN pr.startBlock ELSE pr.chain[n]

NewElements == {(start + k) % IndexMod : k \in 0..(pr.count - 1)}

Fill ==
    /\ pr.pc = "fill"
    /\ block' = [b \in Blocks |-> [block[b] EXCEPT !.elements =
          [s \in DOMAIN @ |->
              IF \E i \in NewElements : BlockOf(i) = b /\ Slot(i) = s
              THEN CHOOSE i \in NewElements : BlockOf(i) = b /\ Slot(i) = s
              ELSE @[s]]]]
    /\ pr' = [pr EXCEPT !.pc = "publish"]
    /\ UNCHANGED <<q, index, co>>

\* Mutant: the last element is not made visible.
TailTooShort == (start + pr.count - 1) % IndexMod

NewTail == (start + pr.count) % IndexMod

\* tailIndex is stored; the dispatcher releases as many permits.
Publish ==
    /\ pr.pc = "publish"
    /\ q' = [q EXCEPT !.tailIndex = NewTail,
                      !.permits = IF q.byPermit THEN @ + pr.count ELSE 0]
    /\ pr' = [pr EXCEPT !.pc = "idle", !.startBlock = null, !.count = 0,
                        !.chain = <<>>]
    /\ UNCHANGED <<index, block, co>>

-----------------------------------------------------------------------------
(***************************************************************************)
(* The consumers: try_dequeue                                              *)
(***************************************************************************)

Step(c, from, to) == co[c].pc = from /\ co' = [co EXCEPT ![c] = to]

\* try_dequeue returns false: the worker tries again, its permit is taken.
Fails(c) ==
    co' = [co EXCEPT ![c] = [IdleConsumer EXCEPT
              !.pc = IF q.byPermit THEN "size_tail" ELSE "idle"]]

TryDequeue(c) ==
    /\ ~q.destroyed
    /\ IF q.byPermit THEN q.permits > 0 ELSE q.dequeueOvercommit < MaxOvercommit
    /\ Step(c, "idle", [IdleConsumer EXCEPT !.pc = "size_tail"])
    /\ q' = [q EXCEPT !.permits = IF q.byPermit THEN @ - 1 ELSE 0]
    /\ UNCHANGED <<index, block, pr>>

\* size_approx of the producer, if there is one.
SizeTail(c) ==
    /\ q.hasProducer
    /\ Step(c, "size_tail", [co[c] EXCEPT !.pc = "size_head",
                                          !.tail = q.tailIndex])
    /\ UNCHANGED <<q, index, block, pr>>

SizeHead(c) ==
    /\ circular_less_than(q.headIndex, co[c].tail)
    /\ Step(c, "size_head", [co[c] EXCEPT !.pc = "tail", !.tail = 0])
    /\ UNCHANGED <<q, index, block, pr>>

LooksEmpty(c) ==
    /\ \/ co[c].pc = "size_tail" /\ ~q.hasProducer
       \/ /\ co[c].pc = "size_head"
          /\ ~circular_less_than(q.headIndex, co[c].tail)
       \/ /\ co[c].pc = "check"
          /\ ~circular_less_than(
                 q.dequeueOptimisticCount - co[c].overcommit, co[c].tail)
    /\ Fails(c)
    /\ UNCHANGED <<q, index, block, pr>>

\* ImplicitProducer::dequeue, one access after the other.
LoadTail(c) ==
    /\ Step(c, "tail", [co[c] EXCEPT !.pc = "overcommit", !.tail = q.tailIndex])
    /\ UNCHANGED <<q, index, block, pr>>

LoadOvercommit(c) ==
    /\ Step(c, "overcommit", [co[c] EXCEPT !.pc = "check",
                                  !.overcommit = q.dequeueOvercommit])
    /\ UNCHANGED <<q, index, block, pr>>

CheckCount(c) ==
    /\ circular_less_than(q.dequeueOptimisticCount - co[c].overcommit,
                          co[c].tail)
    /\ Step(c, "check", [co[c] EXCEPT !.pc = "count", !.tail = 0])
    /\ UNCHANGED <<q, index, block, pr>>

CountDequeue(c) ==
    /\ Step(c, "count", [co[c] EXCEPT !.pc = "recheck",
                                      !.index = q.dequeueOptimisticCount])
    /\ q' = [q EXCEPT !.dequeueOptimisticCount = (@ + 1) % IndexMod]
    /\ UNCHANGED <<index, block, pr>>

\* Mutant: the count is not compared with the tail again.
AlwaysGranted(c) == TRUE

Granted(c) == circular_less_than(co[c].index - co[c].overcommit, q.tailIndex)

Recheck(c) ==
    /\ Granted(c)
    /\ Step(c, "recheck", [co[c] EXCEPT !.pc = "claim", !.overcommit = 0,
                                        !.index = 0])
    /\ UNCHANGED <<q, index, block, pr>>

Overcommit(c) ==
    /\ co[c].pc = "recheck" /\ ~Granted(c)
    /\ q' = [q EXCEPT !.dequeueOvercommit = (@ + 1) % IndexMod]
    /\ Fails(c)
    /\ UNCHANGED <<index, block, pr>>

Claim(c) ==
    /\ Step(c, "claim", [co[c] EXCEPT !.pc = "header", !.index = q.headIndex])
    /\ q' = [q EXCEPT !.headIndex = (@ + 1) % IndexMod]
    /\ UNCHANGED <<index, block, pr>>

LoadHeader(c) ==
    /\ Step(c, "header", [co[c] EXCEPT !.pc = "slot",
                                       !.header = Len(index.headers)])
    /\ UNCHANGED <<q, index, block, pr>>

LoadIndexTail(c) ==
    /\ Step(c, "slot", [co[c] EXCEPT !.pc = "key",
                            !.slot = index.headers[co[c].header].tail])
    /\ UNCHANGED <<q, index, block, pr>>

LoadTailKey(c) ==
    LET h == index.headers[co[c].header] IN
    /\ Step(c, "key", [co[c] EXCEPT !.pc = "value", !.header = 0, !.slot = 0,
           !.entry = EntryFor(h, co[c].slot,
                         index.entries[h.index[co[c].slot]].key, co[c].index)])
    /\ UNCHANGED <<q, index, block, pr>>

BlockHeld(c) == index.entries[co[c].entry].value

\* The element is moved out of its block and destroyed.
MoveElement(c) ==
    LET b == BlockHeld(c)
        s == Slot(co[c].index) IN
    /\ Step(c, "value", [co[c] EXCEPT !.pc = "set_empty",
                             !.item = IF b = null THEN None
                                      ELSE block[b].elements[s]])
    /\ block' = [x \in Blocks |-> IF x # b THEN block[x]
                     ELSE [block[x] EXCEPT !.elements[s] = None]]
    /\ UNCHANGED <<q, index, pr>>

\* Mutant: a block is emptied by its last element but one.
EmptyTooSoon(n) == n >= BLOCK_SIZE - 2

EmptiedBy(n) == n = BLOCK_SIZE - 1

\* set_empty; a consumer that does not empty the block returns.
SetEmpty(c) ==
    LET n == block[BlockHeld(c)].elementsCompletelyDequeued IN
    /\ Step(c, "set_empty", IF EmptiedBy(n)
                            THEN [co[c] EXCEPT !.pc = "unlink"]
                            ELSE IdleConsumer)
    /\ block' = [block EXCEPT ![BlockHeld(c)].elementsCompletelyDequeued = @ + 1]
    /\ UNCHANGED <<q, index, pr>>

\* The entry is cleared ...
Unlink(c) ==
    /\ Step(c, "unlink", [co[c] EXCEPT !.pc = "release",
                                       !.header = BlockHeld(c)])
    /\ index' = [index EXCEPT !.entries[co[c].entry].value = null]
    /\ UNCHANGED <<q, block, pr>>

\* ... and the block goes back.
AddBlockToFreeList(c) ==
    /\ Step(c, "release", IdleConsumer)
    /\ block' = [block EXCEPT ![co[c].header] = GivenBack(co[c].header)]
    /\ UNCHANGED <<q, index, pr>>

-----------------------------------------------------------------------------
(***************************************************************************)
(* Destruction, once nobody uses the queue                                 *)
(***************************************************************************)

Quiet == pr.pc = "idle" /\ \A c \in Consumers : co[c].pc = "idle"
Remaining == {(q.headIndex + k) % IndexMod : k \in 0..(InFlight - 1)}

\* Mutant: the block that tailIndex is in is forgotten.
NoTailBlock == {}

\* The block that is not freed with the elements before it.
LastBlock ==
    IF pr.tailBlock # null /\ (Remaining # {} \/ Slot(q.tailIndex) # 0)
    THEN {pr.tailBlock} ELSE {}

\* ~ConcurrentQueue and ~ImplicitProducer.
Destroy ==
    LET of(i)  == index.entries[CurrentEntry(i)].value
        last   == (q.tailIndex - 1) % IndexMod
        passed == {of(i) : i \in {j \in Remaining : Base(j) # Base(last)}}
    IN
    /\ Quiet /\ ~q.destroyed
    /\ block' = [b \in Blocks |-> [
          (IF b \in passed \cup LastBlock THEN GivenBack(b) ELSE block[b])
          EXCEPT !.elements = [s \in DOMAIN @ |->
              IF \E i \in Remaining : of(i) = b /\ Slot(i) = s THEN None
                                                               ELSE @[s]]]]
    /\ q' = [q EXCEPT !.destroyed = TRUE]
    /\ UNCHANGED <<index, pr, co>>

Finished == q.destroyed /\ UNCHANGED vars

-----------------------------------------------------------------------------
Producer ==
    \/ InsertKey \/ GrowIndex \/ InsertFails \/ InsertTail
    \/ \E b \in Blocks : RequisitionBlock(b)
    \/ RequisitionFails \/ RewindInserted \/ RewindBlock \/ EnqueueFails
    \/ Fill \/ Publish

Consumer(c) ==
    \/ SizeTail(c) \/ SizeHead(c) \/ LooksEmpty(c)
    \/ LoadTail(c) \/ LoadOvercommit(c) \/ CheckCount(c) \/ CountDequeue(c)
    \/ Recheck(c) \/ Overcommit(c) \/ Claim(c)
    \/ LoadHeader(c) \/ LoadIndexTail(c) \/ LoadTailKey(c)
    \/ MoveElement(c) \/ SetEmpty(c) \/ Unlink(c) \/ AddBlockToFreeList(c)

Next ==
    \/ AddProducer \/ \E n \in 1..MaxBatch : EnqueueBulk(n)
    \/ Producer
    \/ \E c \in Consumers : TryDequeue(c) \/ Consumer(c)
    \/ Destroy \/ Finished

Spec == Init /\ [][Next]_vars

-----------------------------------------------------------------------------
(***************************************************************************)
(* Properties                                                              *)
(***************************************************************************)

Claimed(c) == co[c].pc \in {"header", "slot", "key", "value"}
Moved(c)   == co[c].pc \in {"set_empty", "unlink", "release"}

\* The queue implements FifoQueue: what a consumer returns with is the element
\* it claimed, however blocks were recycled, the block index grown or an
\* enqueue rolled back meanwhile.
Fifo == INSTANCE FifoQueue WITH
            tail <- q.tailIndex, head <- q.headIndex,
            held <- [c \in Consumers |->
                        IF Claimed(c) THEN co[c].index
                        ELSE IF Moved(c) THEN co[c].item ELSE None]
ImplementsFifo == Fifo!Spec

\* The assertions of get_block_index_index_for_index and set_empty: a consumer
\* that has claimed an element finds the entry of its block, and the block is
\* nobody else's, until all its elements are out.
ConsumersFindTheirBlock ==
    \A c \in Consumers : co[c].pc \in {"value", "set_empty", "unlink"} =>
        /\ index.entries[co[c].entry].key = Base(co[c].index)
        /\ BlockHeld(c) # null
        /\ block[BlockHeld(c)].state = "used"
        /\ co[c].pc # "unlink" =>
              block[BlockHeld(c)].elementsCompletelyDequeued < BLOCK_SIZE

\* The assertion of enqueue_bulk, and what its first comment warns of: the
\* producer links and fills blocks that are its own, although the tail block
\* may have been emptied and given back since.
ProducerOwnsItsBlocks ==
    /\ pr.pc = "requisition" /\ (Slot(start) # 0 \/ pr.chain # <<>>) =>
          pr.tailBlock # null /\ block[pr.tailBlock].state = "used"
    /\ pr.pc = "fill" => \A i \in NewElements :
          BlockOf(i) # null /\ block[BlockOf(i)].state = "used"

\* Nobody touches a block that was given back, through an index entry or
\* otherwise, however blocks are recycled and the index grows meanwhile.
BlocksInUseStay == ConsumersFindTheirBlock /\ ProducerOwnsItsBlocks

\* After destruction every block is back where it came from and every element
\* was destroyed (~ImplicitProducer).
NothingLeaks ==
    q.destroyed => \A b \in Blocks : /\ block[b].state # "used"
                                     /\ block[b].elements = NoElements

\* "dequeue failure has a small chance of being a false negative" (worker_main)
\* exactly when elements were published since the worker read the tail: a
\* worker with a permit fails only with a tail that is out of date.
FailuresHaveStaleTails ==
    [][\A c \in Consumers :
          co[c].pc \in {"size_head", "check"} /\ co'[c].pc = "size_tail"
              => co[c].tail # q.tailIndex]_vars
=============================================================================
