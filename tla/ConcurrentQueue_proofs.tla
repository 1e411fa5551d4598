------------------------ MODULE ConcurrentQueue_proofs ------------------------
(***************************************************************************)
(* The counters of the queue, for any number of consumers, any block size  *)
(* and any bounds: what dequeueOptimisticCount deals out is either an      *)
(* element or a failure that dequeueOvercommit takes back, so that no more *)
(* elements are claimed than were enqueued.  CInv, the invariant proved    *)
(* here, also has the types, the control states and what the producer has  *)
(* done so far; ConcurrentQueueBlocks_proofs builds on it.                 *)
(***************************************************************************)
EXTENDS ConcurrentQueue, FiniteSetTheorems, TLAPS

-----------------------------------------------------------------------------
(***************************************************************************)
(* Types and control                                                       *)
(***************************************************************************)

ConsumerPcs == {"idle", "size_tail", "size_head", "tail", "overcommit", "check",
                "count", "recheck", "claim", "header", "slot", "key", "value",
                "set_empty", "unlink", "release"}
ProducerPcs == {"idle", "index", "tail", "requisition", "rollback", "fill",
                "publish"}

\* A consumer has no element yet; it has one that is still in its block; it
\* counts for the block; it has an element.
Trying  == {"size_tail", "size_head", "tail", "overcommit", "check", "count",
            "recheck", "claim"}
Reading == {"header", "slot", "key", "value"}
Holding == Reading \cup {"set_empty"}
Served  == Holding \cup {"unlink", "release"}

At(pcs) == {c \in Consumers : co[c].pc \in pcs}

QType ==
    q \in [tailIndex : Nat, headIndex : Nat, dequeueOptimisticCount : Nat,
           dequeueOvercommit : Nat, hasProducer : BOOLEAN,
           poolIndex : 0..PoolSize, permits : Nat, destroyed : BOOLEAN,
           byPermit : Disciplines]

Ring == UNION {[0..(n - 1) -> Nat] : n \in Nat}
HeaderRec == [capacity : Nat, tail : Nat, index : Ring]
EntryRec  == [key : Nat, value : 0..MaxBlocks]
IsIndex(I) ==
    /\ I \in [headers : Seq(HeaderRec), entries : Seq(EntryRec)]
    /\ \A h \in 1..Len(I.headers) :
          /\ I.headers[h].capacity > 0
          /\ I.headers[h].tail \in 0..(I.headers[h].capacity - 1)
          /\ I.headers[h].index \in
                [0..(I.headers[h].capacity - 1) -> 1..Len(I.entries)]

BlockRec == [state : {"none", "pool", "free", "used"},
             elementsCompletelyDequeued : Nat,
             elements : [0..(BLOCK_SIZE - 1) -> Int]]
BlockType == block \in [Blocks -> BlockRec]

ProducerRec == [pc : ProducerPcs, tailBlock : 0..MaxBlocks,
                startBlock : 0..MaxBlocks, count : Nat, base : Nat,
                chain : Seq(Blocks), inserted : BOOLEAN, undone : Nat]
PrType == pr \in ProducerRec

Local == [pc : ConsumerPcs, tail : Nat, overcommit : Nat, index : Nat,
          header : Nat, slot : Nat, entry : Nat, item : Int]
CoType == co \in [Consumers -> Local]

\* What a consumer has loaded from the block index is in it.
LoadedOK ==
    \A c \in Consumers :
       /\ co[c].pc \in {"slot", "key"} => co[c].header \in 1..Len(index.headers)
       /\ co[c].pc = "key" =>
             co[c].slot \in 0..(index.headers[co[c].header].capacity - 1)
       /\ co[c].pc \in {"value", "set_empty", "unlink"} =>
             co[c].entry \in 1..Len(index.entries)

TypeInv == QType /\ IsIndex(index) /\ BlockType /\ PrType /\ CoType /\ LoadedOK

\* Blocks are numbered in the order they are filled in.
No(i)    == i \div BLOCK_SIZE
KeyOf(x) == BLOCK_SIZE * x
LastNo   == No(q.tailIndex - 1)

ProducerInv ==
    /\ q.tailIndex + pr.count <= MaxIndex[q.byPermit]
    /\ pr.pc = "idle" => pr.count = 0 /\ pr.chain = <<>>
    /\ pr.pc # "idle" => pr.count > 0
    /\ pr.inserted => pr.pc \in {"requisition", "rollback"}
    /\ pr.pc = "requisition" => pr.inserted
    /\ pr.undone <= Len(pr.chain)
    /\ pr.undone > 0 => pr.pc = "rollback" /\ ~pr.inserted
    /\ pr.pc \in {"index", "tail", "requisition"} =>
          /\ LastNo + Len(pr.chain) < No(q.tailIndex + pr.count - 1)
          /\ pr.base = KeyOf(LastNo + Len(pr.chain)) % IndexMod
    /\ pr.pc = "rollback" =>
          LastNo + Len(pr.chain) < No(q.tailIndex + pr.count - 1)
    /\ pr.pc \in {"fill", "publish"} =>
          LastNo + Len(pr.chain) = No(q.tailIndex + pr.count - 1)
    /\ q.tailIndex > 0 \/ pr.chain # <<>> \/ pr.inserted \/ pr.pc = "tail"
          => index.headers # <<>>
    /\ pr.pc # "idle" =>
          pr.tailBlock = IF pr.chain = <<>> THEN pr.startBlock
                                            ELSE pr.chain[Len(pr.chain)]
    /\ index.headers # <<>> => q.hasProducer
    /\ index.headers = <<>> => index.entries = <<>>
    /\ q.destroyed => Quiet

\* The number of entries of the last header.
Cap(I) == I.headers[Len(I.headers)].capacity

-----------------------------------------------------------------------------
(***************************************************************************)
(* The counters                                                            *)
(***************************************************************************)

Below(S, t) == Cardinality(S \cap (0..(t - 1)))
Drawn == 0..(q.dequeueOptimisticCount - 1)
Pending == {co[c].index : c \in At({"recheck"})}
Won(lost) == Drawn \ (lost \cup Pending)

\* dequeueOptimisticCount deals out tickets.  A ticket is pending, lost or won.
\* The overcommit that the holder of a ticket has loaded counts tickets before
\* its own that were lost.
Tickets(lost) ==
    /\ Cardinality(lost) = q.dequeueOvercommit
    /\ \A c \in At({"check", "count"}) :
          co[c].overcommit <= q.dequeueOvercommit
    /\ \A c \in At({"recheck"}) :
          /\ co[c].index \in Drawn \ lost
          /\ co[c].overcommit <= Below(lost, co[c].index)
    /\ \A c, d \in At({"recheck"}) : c # d => co[c].index # co[d].index
    /\ Cardinality(Won(lost)) = q.headIndex + Cardinality(At({"claim"}))
    /\ \A t \in Won(lost) : t + 1 - Below(lost, t) <= q.tailIndex

Permits ==
    /\ q.byPermit =>
          /\ q.dequeueOvercommit = 0
          /\ q.tailIndex = q.headIndex + q.permits + Cardinality(At(Trying))
    /\ ~q.byPermit =>
          q.dequeueOvercommit + Cardinality(At(Trying \ {"claim"}))
            <= MaxOvercommit + Cardinality(Consumers)

Counters ==
    /\ Permits
    /\ \E lost \in SUBSET Drawn : Tickets(lost)
    /\ \A c \in At({"size_head", "overcommit", "check"}) : co[c].tail <= q.tailIndex
    /\ \A c \in At(Served) : co[c].index < q.headIndex
    /\ \A c, d \in At(Served) : c # d => co[c].index # co[d].index

\* What the counters are for: no element is claimed that was not enqueued.
ClaimsAreCovered == q.headIndex + Cardinality(At({"claim"})) <= q.tailIndex

-----------------------------------------------------------------------------
(***************************************************************************)
(* Arithmetic                                                              *)
(***************************************************************************)

LEMMA DivMod ==
  ASSUME NEW a \in Int, NEW n \in Nat, n > 0
  PROVE  /\ a = n * (a \div n) + (a % n)
         /\ a % n \in 0..(n - 1)
         /\ a \div n \in Int
  OBVIOUS

LEMMA TimesLess ==
  ASSUME NEW n \in Nat, NEW k \in Int, NEW j \in Int, k < j
  PROVE  n * k + n <= n * j
  OBVIOUS

LEMMA DivModUnique ==
  ASSUME NEW a \in Int, NEW n \in Nat, NEW k \in Int, NEW r \in 0..(n - 1),
         a = n * k + r
  PROVE  a % n = r /\ a \div n = k
  <1>1. a = n * (a \div n) + (a % n) /\ a % n \in 0..(n-1) /\ a \div n \in Int
    BY DivMod
  <1>2. ~ (a \div n < k)
    BY <1>1, TimesLess
  <1>3. ~ (k < a \div n)
    BY <1>1, TimesLess
  <1> QED
    BY <1>1, <1>2, <1>3

LEMMA ModPeriod ==
  ASSUME NEW a \in Int, NEW n \in Nat, n > 0, NEW k \in Int
  PROVE  (a + n * k) % n = a % n
  <1>1. PICK j \in Int, r \in 0..(n - 1) : a = n * j + r /\ a % n = r
    BY DivMod
  <1>2. a + n * k = n * (j + k) + r /\ j + k \in Int /\ a + n * k \in Int
    BY <1>1
  <1>3. (a + n * k) % n = r
    BY <1>2, DivModUnique
  <1> QED
    BY <1>1, <1>3

LEMMA BoundsFacts ==
  /\ Disciplines \subseteq BOOLEAN
  /\ \A d \in Disciplines : MaxIndex[d] \in Nat /\ 2 * MaxIndex[d] < IndexMod
  /\ FALSE \in Disciplines =>
        2 * (MaxIndex[FALSE] + MaxOvercommit + Cardinality(Consumers)) <= IndexMod
  <1>1. ASSUME NEW d \in Disciplines PROVE MaxIndex[d] \in Nat /\ 2 * MaxIndex[d] < IndexMod
    <2>1. PICK m \in Nat : m = MaxIndex[d] /\ 2 * (m + BLOCK_SIZE) <= IndexMod
      BY BoundsAssumption
    <2>2. BLOCK_SIZE \in Nat /\ BLOCK_SIZE > 1 /\ IndexMod \in Nat
      BY SizesAssumption
    <2> QED
      BY <2>1, <2>2
  <1> QED
    BY <1>1, BoundsAssumption

\* Keys of blocks.
LEMMA KeyType ==
  ASSUME NEW x \in Int
  PROVE  /\ KeyOf(x) \in Int /\ (x >= 0 => KeyOf(x) \in Nat)
         /\ KeyOf(x + 1) = KeyOf(x) + BLOCK_SIZE
         /\ KeyOf(x) # INVALID_BLOCK_BASE
         /\ BLOCK_SIZE \in Nat /\ BLOCK_SIZE > 1
  <1>0. BLOCK_SIZE \in Nat /\ BLOCK_SIZE > 1
    BY SizesAssumption
  <1>1. KeyOf(x) # 1
    <2>1. CASE x <= 0
      <3>1. BLOCK_SIZE * x <= 0
        BY <1>0, <2>1
      <3> QED
        BY <3>1, <1>0 DEF KeyOf
    <2>2. CASE x > 0
      <3>1. BLOCK_SIZE * 0 + BLOCK_SIZE <= BLOCK_SIZE * x
        BY <1>0, <2>2, TimesLess
      <3> QED
        BY <3>1, <1>0 DEF KeyOf
    <2> QED
      BY <2>1, <2>2
  <1>2. x >= 0 => KeyOf(x) \in Nat
    BY <1>0 DEF KeyOf
  <1>3. KeyOf(x) \in Int /\ KeyOf(x + 1) = KeyOf(x) + BLOCK_SIZE
    BY <1>0 DEF KeyOf
  <1> QED
    BY <1>0, <1>1, <1>2, <1>3 DEF INVALID_BLOCK_BASE

LEMMA KeyMono ==
  ASSUME NEW x \in Int, NEW y \in Int
  PROVE  /\ x < y => KeyOf(x) + BLOCK_SIZE <= KeyOf(y)
         /\ x <= y => KeyOf(x) <= KeyOf(y)
         /\ KeyOf(x) < KeyOf(y) => x < y
         /\ KeyOf(x) = KeyOf(y) => x = y
  <1>1. KeyOf(x) \in Int /\ KeyOf(y) \in Int /\ BLOCK_SIZE \in Nat /\ BLOCK_SIZE > 1
    BY KeyType
  <1>2. x < y => KeyOf(x) + BLOCK_SIZE <= KeyOf(y)
    BY <1>1, TimesLess DEF KeyOf
  <1>3. y < x => KeyOf(y) + BLOCK_SIZE <= KeyOf(x)
    BY <1>1, TimesLess DEF KeyOf
  <1> QED
    BY <1>1, <1>2, <1>3

LEMMA NoFacts ==
  ASSUME NEW i \in Int
  PROVE  /\ No(i) \in Int /\ Slot(i) \in 0..(BLOCK_SIZE - 1)
         /\ i = KeyOf(No(i)) + Slot(i)
         /\ KeyOf(No(i)) <= i /\ i < KeyOf(No(i)) + BLOCK_SIZE
         /\ i >= 0 => No(i) >= 0
  <1>0. BLOCK_SIZE \in Nat /\ BLOCK_SIZE > 1
    BY SizesAssumption
  <1>1. /\ i = BLOCK_SIZE * (i \div BLOCK_SIZE) + (i % BLOCK_SIZE)
        /\ i % BLOCK_SIZE \in 0..(BLOCK_SIZE - 1) /\ i \div BLOCK_SIZE \in Int
    BY <1>0, DivMod
  <1>2. ASSUME i >= 0, No(i) < 0 PROVE FALSE
    <2>1. BLOCK_SIZE * (i \div BLOCK_SIZE) + BLOCK_SIZE <= BLOCK_SIZE * 0
      BY <1>0, <1>1, <1>2, TimesLess DEF No
    <2> QED
      BY <2>1, <1>0, <1>1, <1>2
  <1> QED
    BY <1>0, <1>1, <1>2 DEF No, Slot, KeyOf

LEMMA NoUnique ==
  ASSUME NEW i \in Int, NEW x \in Int, KeyOf(x) <= i, i < KeyOf(x) + BLOCK_SIZE
  PROVE  No(i) = x /\ Slot(i) = i - KeyOf(x)
  <1>0. BLOCK_SIZE \in Nat /\ KeyOf(x) \in Int
    BY SizesAssumption DEF KeyOf
  <1>1. i - KeyOf(x) \in 0..(BLOCK_SIZE - 1) /\ i = BLOCK_SIZE * x + (i - KeyOf(x))
    BY <1>0 DEF KeyOf
  <1> QED
    BY <1>0, <1>1, DivModUnique DEF No, Slot

\* Indices that are less than half the range apart are compared as numbers.
LEMMA CircularLess ==
  ASSUME NEW a \in Int, NEW b \in Int, 2 * (a - b) <= IndexMod,
         2 * (b - a) < IndexMod
  PROVE  circular_less_than(a, b) <=> a < b
  <1>0. IndexMod \in Nat /\ IndexMod > 0
    BY SizesAssumption
  <1>1. CASE a < b
    <2>1. (a - b) % IndexMod = a - b + IndexMod
      BY <1>0, <1>1
    <2> QED
      BY <1>0, <1>1, <2>1 DEF circular_less_than
  <1>2. CASE ~(a < b)
    <2>1. (a - b) % IndexMod = a - b
      BY <1>0, <1>2
    <2> QED
      BY <1>0, <1>2, <2>1 DEF circular_less_than
  <1> QED
    BY <1>1, <1>2

-----------------------------------------------------------------------------
(***************************************************************************)
(* What the steps do to the records                                        *)
(***************************************************************************)

LEMMA ModType ==
  ASSUME NEW a \in Int
  PROVE  a % IndexMod \in Nat /\ a % IndexMod < IndexMod
  BY SizesAssumption, DivMod

LEMMA LocalSet ==
  ASSUME CoType, NEW c \in Consumers, NEW r \in Local, co' = [co EXCEPT ![c] = r]
  PROVE  /\ CoType' /\ co'[c] = r
         /\ \A d \in Consumers : d # c => co'[d] = co[d]
  BY DEF CoType

LEMMA IdleLocal == IdleConsumer \in Local /\ [IdleConsumer EXCEPT !.pc = "size_tail"] \in Local
  BY DEF IdleConsumer, Local, ConsumerPcs, None

LEMMA QTypeNext == ASSUME TypeInv, [Next]_vars PROVE QType'
  <1> USE DEF TypeInv, QType
  <1>1. CASE UNCHANGED q
    BY <1>1
  <1>2. CASE AddProducer
    BY <1>2 DEF AddProducer
  <1>3. ASSUME NEW b \in Blocks, RequisitionBlock(b) PROVE QType'
    BY <1>3, SizesAssumption DEF RequisitionBlock
  <1>4. CASE Publish
    <2>1. pr.count \in Nat
      BY DEF PrType, ProducerRec
    <2>2. (q.tailIndex + pr.count) % IndexMod \in Nat
      BY <2>1, ModType
    <2> QED
      <3>1. PICK p \in Nat : p = IF q.byPermit THEN q.permits + pr.count ELSE 0
        BY <2>1, BoundsFacts
      <3>2. PICK t \in Nat : t = (q.tailIndex + pr.count) % IndexMod
        BY <2>2
      <3>3. q' = [q EXCEPT !.tailIndex = t, !.permits = p]
        BY <1>4, <3>1, <3>2 DEF Publish, NewTail, start
      <3> QED
        BY <3>3
  <1>5. ASSUME NEW c \in Consumers, TryDequeue(c) PROVE QType'
    BY <1>5, BoundsFacts DEF TryDequeue
  <1>6. ASSUME NEW c \in Consumers, CountDequeue(c) PROVE QType'
    <2>1. (q.dequeueOptimisticCount + 1) % IndexMod \in Nat
      BY ModType
    <2> QED
      BY <1>6, <2>1 DEF CountDequeue
  <1>7. ASSUME NEW c \in Consumers, Overcommit(c) PROVE QType'
    <2>1. (q.dequeueOvercommit + 1) % IndexMod \in Nat
      BY ModType
    <2> QED
      BY <1>7, <2>1 DEF Overcommit
  <1>8. ASSUME NEW c \in Consumers, Claim(c) PROVE QType'
    <2>1. (q.headIndex + 1) % IndexMod \in Nat
      BY ModType
    <2> QED
      BY <1>8, <2>1 DEF Claim
  <1>9. CASE Destroy
    BY <1>9 DEF Destroy
  <1> HIDE DEF TypeInv, QType
  <1>10. ASSUME NEW c \in Consumers, Consumer(c) PROVE QType'
    BY <1>10, <1>1, <1>6, <1>7, <1>8 DEF Consumer, SizeTail, SizeHead, LooksEmpty,
       LoadTail, LoadOvercommit, CheckCount, Recheck, LoadHeader, LoadIndexTail,
       LoadTailKey, MoveElement, SetEmpty, Unlink, AddBlockToFreeList
  <1>11. CASE Producer
    BY <1>11, <1>1, <1>3, <1>4 DEF Producer, InsertKey, GrowIndex, InsertFails,
       InsertTail, RequisitionFails, RewindInserted, RewindBlock, EnqueueFails, Fill
  <1>12. ASSUME NEW n \in 1..MaxBatch, EnqueueBulk(n) PROVE QType'
    BY <1>1, <1>12 DEF EnqueueBulk
  <1>13. CASE Finished \/ UNCHANGED vars
    BY <1>1, <1>13 DEF Finished, vars
  <1> QED
    BY <1>2, <1>5, <1>9, <1>10, <1>11, <1>12, <1>13 DEF Next


LEMMA HeaderAt ==
  ASSUME NEW I, IsIndex(I), NEW h \in 1..Len(I.headers)
  PROVE  /\ I.headers[h] \in HeaderRec
         /\ I.headers[h].capacity \in Nat /\ I.headers[h].capacity > 0
         /\ I.headers[h].tail \in 0..(I.headers[h].capacity - 1)
         /\ I.headers[h].index \in [0..(I.headers[h].capacity - 1) -> 1..Len(I.entries)]
  <1>1. I.headers \in Seq(HeaderRec)
    BY DEF IsIndex
  <1>2. I.headers[h] \in HeaderRec
    BY <1>1
  <1>3. I.headers[h].capacity \in Nat
    BY <1>2 DEF HeaderRec
  <1> QED
    BY <1>2, <1>3 DEF IsIndex

LEMMA HeaderFacts ==
  ASSUME NEW I, IsIndex(I), I.headers # <<>>
  PROVE  /\ Len(I.headers) \in 1..Len(I.headers) /\ Cap(I) \in Nat /\ Cap(I) > 0
         /\ I.headers[Len(I.headers)].tail \in 0..(Cap(I) - 1)
         /\ I.headers[Len(I.headers)].index \in [0..(Cap(I) - 1) -> 1..Len(I.entries)]
         /\ I.headers[Len(I.headers)] \in HeaderRec
  <1>0. I.headers \in Seq(HeaderRec)
    BY DEF IsIndex
  <1>1. PICK n \in Nat : n = Len(I.headers) /\ n \in 1..Len(I.headers)
    BY <1>0
  <1>2. I.headers[n] \in HeaderRec
    BY <1>0, <1>1
  <1>3. I.headers[n].capacity \in Nat
    BY <1>2 DEF HeaderRec
  <1> QED
    BY <1>1, <1>2, <1>3 DEF IsIndex, Cap

\* A change of one entry ...
LEMMA EntrySet ==
  ASSUME NEW I, IsIndex(I), NEW e \in 1..Len(I.entries), NEW r \in EntryRec
  PROVE  LET J == [I EXCEPT !.entries[e] = r] IN
         /\ IsIndex(J) /\ J.headers = I.headers /\ Len(J.entries) = Len(I.entries)
         /\ J.entries[e] = r
         /\ \A f \in 1..Len(I.entries) : f # e => J.entries[f] = I.entries[f]
  <1> DEFINE J == [I EXCEPT !.entries[e] = r]
  <1>1. J.headers = I.headers /\ J.entries = [I.entries EXCEPT ![e] = r]
    BY DEF IsIndex
  <1>2. J.entries \in Seq(EntryRec) /\ Len(J.entries) = Len(I.entries)
    BY <1>1 DEF IsIndex
  <1>3. J \in [headers : Seq(HeaderRec), entries : Seq(EntryRec)]
    BY <1>1, <1>2 DEF IsIndex
  <1>4. IsIndex(J)
    BY <1>1, <1>2, <1>3 DEF IsIndex
  <1>5. J.entries[e] = r /\ \A f \in 1..Len(I.entries) : f # e => J.entries[f] = I.entries[f]
    BY <1>1 DEF IsIndex
  <1> QED
    BY <1>1, <1>2, <1>4, <1>5

\* ... and of the tail of the last header.
LEMMA TailSet ==
  ASSUME NEW I, IsIndex(I), I.headers # <<>>, NEW t \in 0..(Cap(I) - 1)
  PROVE  LET J == [I EXCEPT !.headers[Len(I.headers)].tail = t] IN
         /\ IsIndex(J) /\ J.entries = I.entries /\ Len(J.headers) = Len(I.headers)
         /\ J.headers[Len(I.headers)].tail = t
         /\ \A h \in 1..Len(I.headers) :
               /\ J.headers[h].capacity = I.headers[h].capacity
               /\ J.headers[h].index = I.headers[h].index
               /\ h # Len(I.headers) => J.headers[h] = I.headers[h]
  <1> DEFINE n == Len(I.headers)
             J == [I EXCEPT !.headers[n].tail = t]
  <1>1. n \in 1..Len(I.headers) /\ Cap(I) \in Nat /\ I.headers[n] \in HeaderRec
    BY HeaderFacts
  <1>2. PICK r \in HeaderRec : r = [I.headers[n] EXCEPT !.tail = t]
    <2>1. t \in Nat
      BY <1>1
    <2> QED
      BY <1>1, <2>1 DEF HeaderRec
  <1>3. r.tail = t /\ r.capacity = I.headers[n].capacity /\ r.index = I.headers[n].index
    BY <1>1, <1>2 DEF HeaderRec
  <1>4. J.entries = I.entries /\ J.headers = [I.headers EXCEPT ![n] = r]
    BY <1>2 DEF IsIndex
  <1> HIDE DEF J
  <1>5. J.headers \in Seq(HeaderRec) /\ Len(J.headers) = Len(I.headers)
    BY <1>1, <1>4 DEF IsIndex
  <1>6. J.headers[n] = r /\ \A h \in 1..n : h # n => J.headers[h] = I.headers[h]
    BY <1>1, <1>4 DEF IsIndex
  <1>7. J \in [headers : Seq(HeaderRec), entries : Seq(EntryRec)]
    BY <1>4, <1>5 DEF IsIndex, J
  <1>8. \A h \in 1..n : /\ J.headers[h].capacity = I.headers[h].capacity
                        /\ J.headers[h].index = I.headers[h].index
    BY <1>3, <1>6
  <1>9. \A h \in 1..n : J.headers[h].tail \in 0..(J.headers[h].capacity - 1)
    BY <1>3, <1>6 DEF IsIndex, Cap
  <1>10. IsIndex(J)
    BY <1>4, <1>5, <1>7, <1>8, <1>9 DEF IsIndex
  <1> QED
    BY <1>3, <1>4, <1>5, <1>6, <1>8, <1>10 DEF J

LEMMA KeySet ==
  ASSUME NEW I, IsIndex(I), NEW e \in 1..Len(I.entries), NEW k \in Nat
  PROVE  LET J == [I EXCEPT !.entries[e].key = k] IN
         /\ IsIndex(J) /\ J.headers = I.headers /\ Len(J.entries) = Len(I.entries)
         /\ J.entries[e].key = k
         /\ \A f \in 1..Len(I.entries) : /\ J.entries[f].value = I.entries[f].value
                                         /\ f # e => J.entries[f].key = I.entries[f].key
  <1>1. I.entries[e] \in EntryRec
    BY DEF IsIndex
  <1>2. PICK r \in EntryRec : r = [I.entries[e] EXCEPT !.key = k]
    BY <1>1 DEF EntryRec
  <1>3. r.key = k /\ r.value = I.entries[e].value
    BY <1>1, <1>2 DEF EntryRec
  <1>4. PICK J : J = [I EXCEPT !.entries[e] = r]
    OBVIOUS
  <1>5. J = [I EXCEPT !.entries[e].key = k]
    BY <1>2, <1>4
  <1>6. /\ IsIndex(J) /\ J.headers = I.headers /\ Len(J.entries) = Len(I.entries)
        /\ J.entries[e] = r
        /\ \A f \in 1..Len(I.entries) : f # e => J.entries[f] = I.entries[f]
    BY <1>4, EntrySet
  <1> QED
    BY <1>3, <1>5, <1>6

LEMMA ValueSet ==
  ASSUME NEW I, IsIndex(I), NEW e \in 1..Len(I.entries), NEW b \in 0..MaxBlocks
  PROVE  LET J == [I EXCEPT !.entries[e].value = b] IN
         /\ IsIndex(J) /\ J.headers = I.headers /\ Len(J.entries) = Len(I.entries)
         /\ J.entries[e].value = b
         /\ \A f \in 1..Len(I.entries) : /\ J.entries[f].key = I.entries[f].key
                                         /\ f # e => J.entries[f].value = I.entries[f].value
  <1>1. I.entries[e] \in EntryRec
    BY DEF IsIndex
  <1>2. PICK r \in EntryRec : r = [I.entries[e] EXCEPT !.value = b]
    BY <1>1 DEF EntryRec
  <1>3. r.value = b /\ r.key = I.entries[e].key
    BY <1>1, <1>2 DEF EntryRec
  <1>4. PICK J : J = [I EXCEPT !.entries[e] = r]
    OBVIOUS
  <1>5. J = [I EXCEPT !.entries[e].value = b]
    BY <1>2, <1>4
  <1>6. /\ IsIndex(J) /\ J.headers = I.headers /\ Len(J.entries) = Len(I.entries)
        /\ J.entries[e] = r
        /\ \A f \in 1..Len(I.entries) : f # e => J.entries[f] = I.entries[f]
    BY <1>4, EntrySet
  <1> QED
    BY <1>3, <1>5, <1>6

\* A further header with n new entries (new_block_index).
HeaderFits(r, m) ==
    /\ r \in HeaderRec /\ r.capacity > 0 /\ r.tail \in 0..(r.capacity - 1)
    /\ r.index \in [0..(r.capacity - 1) -> 1..m]

Extends(J, I, r, n) ==
    /\ Len(J.headers) = Len(I.headers) + 1 /\ J.headers[Len(I.headers) + 1] = r
    /\ \A h \in 1..Len(I.headers) : J.headers[h] = I.headers[h]
    /\ Len(J.entries) = Len(I.entries) + n
    /\ \A e \in 1..Len(I.entries) : J.entries[e] = I.entries[e]
    /\ \A e \in (Len(I.entries) + 1)..(Len(I.entries) + n) :
          J.entries[e] = [key |-> INVALID_BLOCK_BASE, value |-> null]

LEMMA HeaderAdded ==
  ASSUME NEW I, IsIndex(I), NEW r, NEW n \in Nat, HeaderFits(r, Len(I.entries) + n),
         NEW J, J = [headers |-> Append(I.headers, r),
                     entries |-> I.entries \o NewEntries(n)]
  PROVE  IsIndex(J) /\ Extends(J, I, r, n)
  <1> USE DEF HeaderFits
  <1>1. NewEntries(n) \in Seq(EntryRec) /\ Len(NewEntries(n)) = n
    <2>1. [key |-> INVALID_BLOCK_BASE, value |-> null] \in EntryRec
      BY SizesAssumption DEF EntryRec, INVALID_BLOCK_BASE, null
    <2> QED
      BY <2>1 DEF NewEntries
  <1>2. /\ J.headers = Append(I.headers, r) /\ J.entries = I.entries \o NewEntries(n)
        /\ I.headers \in Seq(HeaderRec) /\ I.entries \in Seq(EntryRec)
    BY DEF IsIndex
  <1>3. /\ J.headers \in Seq(HeaderRec) /\ Len(J.headers) = Len(I.headers) + 1
        /\ J.headers[Len(I.headers) + 1] = r
        /\ \A h \in 1..Len(I.headers) : J.headers[h] = I.headers[h]
    BY <1>2
  <1>4. /\ J.entries \in Seq(EntryRec) /\ Len(J.entries) = Len(I.entries) + n
        /\ \A e \in 1..Len(I.entries) : J.entries[e] = I.entries[e]
    <2>1. PICK s \in Seq(EntryRec), t \in Seq(EntryRec) :
             s = I.entries /\ t = NewEntries(n)
      BY <1>1, <1>2
    <2>2. s \o t \in Seq(EntryRec) /\ Len(s \o t) = Len(s) + Len(t)
      OBVIOUS
    <2>3. \A e \in 1..Len(s) : (s \o t)[e] = s[e]
      OBVIOUS
    <2> QED
      BY <1>1, <1>2, <2>1, <2>2, <2>3
  <1>5. \A e \in (Len(I.entries) + 1)..(Len(I.entries) + n) :
               J.entries[e] = [key |-> INVALID_BLOCK_BASE, value |-> null]
    <2> SUFFICES ASSUME NEW e \in (Len(I.entries) + 1)..(Len(I.entries) + n)
                 PROVE  J.entries[e] = [key |-> INVALID_BLOCK_BASE, value |-> null]
      OBVIOUS
    <2>0. PICK s \in Seq(EntryRec), t \in Seq(EntryRec) :
             s = I.entries /\ t = NewEntries(n)
      BY <1>1, <1>2
    <2>1. J.entries[e] = NewEntries(n)[e - Len(I.entries)] /\ e - Len(I.entries) \in 1..n
      <3>1. Len(s) \in Nat /\ Len(t) = n
        BY <2>0, <1>1
      <3>2. e \in (Len(s) + 1)..(Len(s) + Len(t))
        BY <2>0, <3>1
      <3>3. (s \o t)[e] = t[e - Len(s)]
        BY <3>1, <3>2
      <3>4. J.entries = s \o t
        BY <1>2, <2>0, Zenon
      <3>5. e - Len(s) \in 1..n
        BY <3>1, <3>2
      <3> QED
        BY <2>0, <3>3, <3>4, <3>5, Zenon
    <2> QED
      BY <2>1 DEF NewEntries
  <1>6. J \in [headers : Seq(HeaderRec), entries : Seq(EntryRec)]
    <2>1. J = [headers |-> J.headers, entries |-> J.entries]
      BY <1>2
    <2> QED
      BY <2>1, <1>3, <1>4
  <1>7. ASSUME NEW h \in 1..Len(J.headers)
        PROVE  /\ J.headers[h].capacity > 0
               /\ J.headers[h].tail \in 0..(J.headers[h].capacity - 1)
               /\ J.headers[h].index \in
                     [0..(J.headers[h].capacity - 1) -> 1..Len(J.entries)]
    <2>0. Len(I.headers) \in Nat /\ Len(I.entries) \in Nat
      BY <1>2
    <2>1. CASE h = Len(I.headers) + 1
      BY <1>3, <1>4, <2>1
    <2>2. CASE h # Len(I.headers) + 1
      <3>1. h \in 1..Len(I.headers)
        BY <2>0, <2>2, <1>3
      <3>2. PICK g : g = I.headers[h].index
        OBVIOUS
      <3>3. g \in [0..(I.headers[h].capacity - 1) -> 1..Len(I.entries)]
        BY <3>1, <3>2 DEF IsIndex
      <3>4. 1..Len(I.entries) \subseteq 1..Len(J.entries)
        BY <1>4, <2>0
      <3>5. g \in [0..(I.headers[h].capacity - 1) -> 1..Len(J.entries)]
        BY <3>3, <3>4
      <3> QED
        BY <1>3, <3>1, <3>2, <3>5 DEF IsIndex
    <2> QED
      BY <2>1, <2>2
  <1> QED
    BY <1>3, <1>4, <1>5, <1>6, <1>7 DEF IsIndex, Extends

\* The header the producer works with, and the entries it finds there.
LEMMA EntryForType ==
  ASSUME NEW I, IsIndex(I), NEW h \in 1..Len(I.headers), NEW t \in Nat,
         NEW k \in Int, NEW i \in Int
  PROVE  EntryFor(I.headers[h], t, k, i) \in 1..Len(I.entries)
  <1>1. PICK n \in Nat : n = I.headers[h].capacity /\ n > 0
    BY HeaderAt
  <1>2. BlockOffset(Base(i), k) \in Int
    <2>0. BLOCK_SIZE \in Nat /\ BLOCK_SIZE > 0 /\ IndexMod \in Nat /\ IndexMod > 0
      BY SizesAssumption
    <2>1. Base(i) \in Int
      <3>1. PICK j \in Int : j = i % IndexMod
        BY <2>0
      <3>2. j \div BLOCK_SIZE \in Int
        BY <2>0
      <3> QED
        BY <2>0, <3>1, <3>2 DEF Base
    <2>2. PICK d \in Int : d = (Base(i) - k) % IndexMod
      BY <2>0, <2>1
    <2>3. PICK e \in Int : e = IF d >= IndexMod \div 2 THEN d - IndexMod ELSE d
      <3>1. d - IndexMod \in Int
        BY <2>0
      <3> QED
        BY <3>1, Zenon
    <2>4. e \div BLOCK_SIZE \in Int
      BY <2>0
    <2> QED
      BY <2>2, <2>3, <2>4 DEF BlockOffset
  <1>3. PICK p \in 0..(n - 1) : p = (t + BlockOffset(Base(i), k)) % n
    <2>1. t + BlockOffset(Base(i), k) \in Int
      BY <1>2
    <2> QED
      BY <1>1, <2>1, DivMod
  <1>4. I.headers[h].index \in [0..(n - 1) -> 1..Len(I.entries)]
    BY <1>1 DEF IsIndex
  <1> QED
    BY <1>1, <1>3, <1>4 DEF EntryFor

LEMMA CurrentType ==
  ASSUME IsIndex(index), index.headers # <<>>
  PROVE  /\ header \in HeaderRec /\ Cap(index) = header.capacity
         /\ NextEntry \in 1..Len(index.entries)
         /\ header.index[header.tail] \in 1..Len(index.entries)
         /\ \A i \in Int : CurrentEntry(i) \in 1..Len(index.entries)
         /\ \A d \in Int : (header.tail + d) % header.capacity \in 0..(Cap(index) - 1)
  <1>1. /\ Len(index.headers) \in 1..Len(index.headers)
        /\ Cap(index) \in Nat /\ Cap(index) > 0 /\ header \in HeaderRec
        /\ Cap(index) = header.capacity /\ header.tail \in 0..(Cap(index) - 1)
        /\ header.index \in [0..(Cap(index) - 1) -> 1..Len(index.entries)]
    BY HeaderFacts DEF header, Cap
  <1>2. ASSUME NEW d \in Int
        PROVE  (header.tail + d) % header.capacity \in 0..(Cap(index) - 1)
    BY <1>1, DivMod
  <1>3. NextEntry \in 1..Len(index.entries)
    <2>1. PICK p \in 0..(Cap(index) - 1) : p = (header.tail + 1) % header.capacity
      BY <1>2
    <2>2. header.index[p] \in 1..Len(index.entries)
      BY <1>1
    <2> QED
      BY <2>1, <2>2 DEF NextEntry
  <1>4. header.index[header.tail] \in 1..Len(index.entries)
    BY <1>1
  <1>5. ASSUME NEW i \in Int PROVE CurrentEntry(i) \in 1..Len(index.entries)
    <2>1. index.entries[header.index[header.tail]].key \in Int
      <3>1. index.entries[header.index[header.tail]] \in EntryRec
        BY <1>4 DEF IsIndex
      <3> QED
        BY <3>1 DEF EntryRec
    <2>2. header.tail \in Nat
      BY <1>1
    <2>3. header = index.headers[Len(index.headers)]
      BY DEF header
    <2> QED
      BY <1>1, <2>1, <2>2, <2>3, EntryForType DEF CurrentEntry
  <1> QED
    BY <1>1, <1>2, <1>3, <1>4, <1>5

LEMMA WithTailSet ==
  ASSUME IsIndex(index), index.headers # <<>>, NEW d \in Int, NEW J, J = WithTail(d)
  PROVE  /\ IsIndex(J) /\ J.entries = index.entries
         /\ Len(J.headers) = Len(index.headers)
         /\ J.headers[Len(index.headers)].tail = (header.tail + d) % header.capacity
         /\ \A h \in 1..Len(index.headers) :
               /\ J.headers[h].capacity = index.headers[h].capacity
               /\ J.headers[h].index = index.headers[h].index
               /\ h # Len(index.headers) => J.headers[h] = index.headers[h]
  <1>1. PICK t \in 0..(Cap(index) - 1) : t = (header.tail + d) % header.capacity
    BY CurrentType
  <1>2. J = [index EXCEPT !.headers[Len(index.headers)].tail = t]
    BY <1>1 DEF WithTail, header
  <1> QED
    BY <1>1, <1>2, TailSet

LEMMA BaseType == ASSUME NEW i \in Int PROVE Base(i) \in Nat
  <1>1. BLOCK_SIZE \in Nat /\ BLOCK_SIZE > 1
    BY SizesAssumption
  <1>2. PICK j \in Nat : j = i % IndexMod
    BY ModType
  <1>3. PICK k \in Nat : k = j \div BLOCK_SIZE
    BY <1>1
  <1>4. k * BLOCK_SIZE \in Nat
    BY <1>1
  <1> QED
    BY <1>2, <1>3, <1>4 DEF Base

LEMMA NextBaseType == TypeInv => NextBase \in Nat /\ NextBase < IndexMod
  <1> SUFFICES ASSUME TypeInv PROVE NextBase \in Nat /\ NextBase < IndexMod
    OBVIOUS
  <1>1. pr.base + BLOCK_SIZE \in Int
    BY SizesAssumption DEF TypeInv, PrType, ProducerRec
  <1> QED
    BY <1>1, ModType DEF NextBase

LEMMA FirstIndexType ==
  /\ IsIndex(FirstIndex) /\ Len(FirstIndex.headers) = 1
  /\ FirstIndex.headers[1].capacity = IMPLICIT_INITIAL_INDEX_SIZE
  /\ FirstIndex.headers[1].tail = IMPLICIT_INITIAL_INDEX_SIZE - 1
  /\ FirstIndex.headers[1].index = [i \in 0..(IMPLICIT_INITIAL_INDEX_SIZE - 1) |-> i + 1]
  /\ Len(FirstIndex.entries) = IMPLICIT_INITIAL_INDEX_SIZE
  /\ \A e \in 1..Len(FirstIndex.entries) :
        FirstIndex.entries[e] = [key |-> INVALID_BLOCK_BASE, value |-> null]
  <1>1. PICK n \in Nat : n = IMPLICIT_INITIAL_INDEX_SIZE /\ n > 1
    BY SizesAssumption
  <1>2. PICK f : f = [i \in 0..(n - 1) |-> i + 1]
    OBVIOUS
  <1>3. f \in [0..(n - 1) -> 1..n] /\ f \in [0..(n - 1) -> Nat]
    BY <1>1, <1>2
  <1>4. f \in Ring
    BY <1>1, <1>3 DEF Ring
  <1>5. PICK r : r = [capacity |-> n, tail |-> n - 1, index |-> f]
    OBVIOUS
  <1>6. /\ r \in HeaderRec /\ r.capacity = n /\ r.tail = n - 1 /\ r.index = f
        /\ n - 1 \in 0..(n - 1)
    BY <1>1, <1>4, <1>5 DEF HeaderRec
  <1>7. PICK E : E = [headers |-> <<>>, entries |-> <<>>]
    OBVIOUS
  <1>8. IsIndex(E) /\ E.headers = <<>> /\ E.entries = <<>>
    BY <1>7 DEF IsIndex
  <1>9. PICK s : s = NewEntries(n)
    OBVIOUS
  <1>10. s \in Seq(EntryRec)
    <2>1. [key |-> INVALID_BLOCK_BASE, value |-> null] \in EntryRec
      BY SizesAssumption DEF EntryRec, INVALID_BLOCK_BASE, null
    <2> QED
      BY <1>1, <1>9, <2>1 DEF NewEntries
  <1>11. <<>> \o s = s /\ Append(<<>>, r) = <<r>>
    BY <1>10, <1>6
  <1>12. FirstIndex = [headers |-> <<r>>, entries |-> s]
    BY <1>1, <1>2, <1>5, <1>9 DEF FirstIndex
  <1>13. FirstIndex = [headers |-> Append(E.headers, r),
                       entries |-> E.entries \o NewEntries(n)]
    BY <1>8, <1>9, <1>11, <1>12
  <1>14. Len(E.headers) = 0 /\ Len(E.entries) = 0
    BY <1>8
  <1>15. HeaderFits(r, Len(E.entries) + n)
    BY <1>1, <1>3, <1>6, <1>14 DEF HeaderFits
  <1>16. PICK F : F = FirstIndex
    OBVIOUS
  <1>17. F = [headers |-> Append(E.headers, r), entries |-> E.entries \o NewEntries(n)]
    BY <1>13, <1>16
  <1>18. IsIndex(F) /\ Extends(F, E, r, n)
    BY <1>8, <1>15, <1>17, HeaderAdded
  <1> QED
    BY <1>1, <1>2, <1>6, <1>14, <1>16, <1>18 DEF Extends

\* The larger index: first the old entries from the one after the tail.
LEMMA LargerIndexType ==
  ASSUME IsIndex(index), index.headers # <<>>, NEW J, J = LargerIndex
  PROVE  /\ IsIndex(J)
         /\ Len(J.headers) = Len(index.headers) + 1
         /\ \A h \in 1..Len(index.headers) : J.headers[h] = index.headers[h]
         /\ Cap(J) = 2 * Cap(index)
         /\ J.headers[Len(J.headers)].tail = Cap(index) - 1
         /\ \A p \in 0..(Cap(index) - 1) :
               J.headers[Len(J.headers)].index[p] =
                  header.index[(header.tail + 1 + p) % Cap(index)]
         /\ \A p \in Cap(index)..(2 * Cap(index) - 1) :
               J.headers[Len(J.headers)].index[p] = Len(index.entries) + 1 + p - Cap(index)
         /\ Len(J.entries) = Len(index.entries) + Cap(index)
         /\ \A e \in 1..Len(index.entries) : J.entries[e] = index.entries[e]
         /\ \A e \in (Len(index.entries) + 1)..Len(J.entries) :
               J.entries[e] = [key |-> INVALID_BLOCK_BASE, value |-> null]
  <1>1. PICK n \in Nat : n = Cap(index) /\ n > 0 /\ n = header.capacity
    BY HeaderFacts, CurrentType
  <1>2. PICK l \in Nat : l = Len(index.entries)
    BY DEF IsIndex
  <1>3. PICK f : f = [i \in 0..(2 * n - 1) |->
                        IF i < n THEN OldEntry(header, i) ELSE l + 1 + i - n]
    OBVIOUS
  <1>4. /\ header.tail \in 0..(n - 1) /\ header.index \in [0..(n - 1) -> 1..l]
        /\ Len(index.headers) \in Nat
    <2>1. /\ header.tail \in 0..(Cap(index) - 1)
          /\ header.index \in [0..(Cap(index) - 1) -> 1..Len(index.entries)]
      BY HeaderFacts DEF header
    <2>2. Len(index.headers) \in Nat
      BY DEF IsIndex
    <2> QED
      BY <1>1, <1>2, <2>1, <2>2
  <1>5. \A i \in 0..(n - 1) :
           OldEntry(header, i) = header.index[(header.tail + 1 + i) % n]
    BY <1>1 DEF OldEntry
  <1>6. \A i \in 0..(n - 1) : header.index[(header.tail + 1 + i) % n] \in 1..l
    <2> SUFFICES ASSUME NEW i \in 0..(n - 1)
                 PROVE  header.index[(header.tail + 1 + i) % n] \in 1..l
      OBVIOUS
    <2>1. PICK p \in 0..(n - 1) : p = (header.tail + 1 + i) % n
      <3>1. header.tail + 1 + i \in Int
        BY <1>4
      <3> QED
        BY <1>1, <3>1, DivMod
    <2> QED
      BY <1>4, <2>1
  <1>7. f \in [0..(2 * n - 1) -> 1..(l + n)]
    <2>1. \A i \in 0..(n - 1) : OldEntry(header, i) \in 1..l
      BY <1>5, <1>6
    <2>2. \A i \in 0..(2 * n - 1) :
             (IF i < n THEN OldEntry(header, i) ELSE l + 1 + i - n) \in 1..(l + n)
      BY <1>1, <1>2, <2>1
    <2> QED
      BY <1>3, <2>2
  <1>8. f \in Ring
    <2>1. f \in [0..(2 * n - 1) -> Nat] /\ 2 * n \in Nat
      BY <1>7
    <2> QED
      BY <2>1 DEF Ring
  <1>9. PICK r : r = [capacity |-> 2 * n, tail |-> n - 1, index |-> f]
    OBVIOUS
  <1>10. /\ r \in HeaderRec /\ r.capacity = 2 * n /\ r.tail = n - 1 /\ r.index = f
         /\ r.capacity > 0 /\ r.tail \in 0..(r.capacity - 1)
    BY <1>1, <1>8, <1>9 DEF HeaderRec
  <1>11. HeaderFits(r, Len(index.entries) + n)
    BY <1>2, <1>7, <1>10 DEF HeaderFits
  <1>12. J = [headers |-> Append(index.headers, r),
              entries |-> index.entries \o NewEntries(n)]
    BY <1>1, <1>2, <1>3, <1>9 DEF LargerIndex
  <1>13. IsIndex(J) /\ Extends(J, index, r, n)
    BY <1>11, <1>12, HeaderAdded
  <1>14. \A p \in 0..(n - 1) : f[p] = header.index[(header.tail + 1 + p) % n]
    BY <1>1, <1>3, <1>5
  <1>15. \A p \in n..(2 * n - 1) : f[p] = l + 1 + p - n
    BY <1>1, <1>3
  <1>16. J.headers[Len(J.headers)] = r
    BY <1>13 DEF Extends
  <1>17. Cap(J) = 2 * n
    BY <1>10, <1>16 DEF Cap
  <1> QED
    BY <1>1, <1>2, <1>10, <1>13, <1>14, <1>15, <1>16, <1>17 DEF Extends

LEMMA IndexTypeNext ==
  ASSUME TypeInv, ProducerInv, [Next]_vars
  PROVE  /\ IsIndex(index') /\ Len(index.headers) <= Len(index'.headers)
         /\ Len(index.entries) <= Len(index'.entries)
         /\ \A h \in 1..Len(index.headers) :
               /\ index'.headers[h].capacity = index.headers[h].capacity
               /\ index'.headers[h].index = index.headers[h].index
  <1> DEFINE Same == /\ IsIndex(index') /\ Len(index.headers) <= Len(index'.headers)
                     /\ Len(index.entries) <= Len(index'.entries)
                     /\ \A h \in 1..Len(index.headers) :
                           /\ index'.headers[h].capacity = index.headers[h].capacity
                           /\ index'.headers[h].index = index.headers[h].index
  <1>0. IsIndex(index) /\ Len(index.headers) \in Nat /\ Len(index.entries) \in Nat
    BY DEF TypeInv, IsIndex
  <1>1. CASE UNCHANGED index
    BY <1>0, <1>1
  <1>2. CASE AddProducer
    <2>1. CASE index' = FirstIndex
      <3>1. index.headers = <<>>
        BY <1>2, <1>0 DEF AddProducer, ProducerInv
      <3>2. Len(index.headers) = 0 /\ Len(index'.headers) = 1 /\ IsIndex(index')
        BY <2>1, <3>1, FirstIndexType
      <3>3. index.entries = <<>> /\ Len(index.entries) = 0
        BY <3>1 DEF ProducerInv
      <3>4. Len(index'.entries) \in Nat
        BY <3>2 DEF IsIndex
      <3>5. 1..Len(index.headers) = {}
        BY <3>2
      <3> QED
        BY <3>2, <3>3, <3>4, <3>5
    <2> QED
      BY <1>1, <1>2, <2>1 DEF AddProducer
  <1>3. CASE InsertKey
    <2>1. index.headers # <<>>
      BY <1>3 DEF InsertKey, MayInsert
    <2>2. NextEntry \in 1..Len(index.entries)
      BY <1>0, <2>1, CurrentType
    <2>3. IsIndex(index') /\ index'.headers = index.headers
             /\ Len(index'.entries) = Len(index.entries)
      BY <1>0, <1>3, <2>2, NextBaseType, KeySet DEF InsertKey
    <2> QED
      BY <1>0, <2>3
  <1>4. CASE GrowIndex
    <2>1. index.headers # <<>> /\ index' = LargerIndex
      BY <1>4 DEF GrowIndex, MayInsert
    <2>2. /\ IsIndex(index') /\ Len(index'.headers) = Len(index.headers) + 1
          /\ \A h \in 1..Len(index.headers) : index'.headers[h] = index.headers[h]
          /\ Len(index'.entries) = Len(index.entries) + Cap(index)
      BY <1>0, <2>1, LargerIndexType
    <2>3. Cap(index) \in Nat
      BY <1>0, <2>1, HeaderFacts
    <2>4. Len(index.headers) <= Len(index'.headers)
      BY <1>0, <2>2
    <2>5. Len(index.entries) <= Len(index'.entries)
      BY <1>0, <2>2, <2>3
    <2> QED
      BY <2>2, <2>4, <2>5
  <1>5. ASSUME NEW d \in Int, NEW J, J = WithTail(d), index.headers # <<>>,
               NEW e, e \in 1..Len(index.entries), NEW b, b \in 0..MaxBlocks,
               index' = J \/ index' = [J EXCEPT !.entries[e].value = b]
        PROVE  Same
    <2>1. /\ IsIndex(J) /\ J.entries = index.entries
          /\ Len(J.headers) = Len(index.headers)
          /\ \A h \in 1..Len(index.headers) :
               /\ J.headers[h].capacity = index.headers[h].capacity
               /\ J.headers[h].index = index.headers[h].index
      BY <1>0, <1>5, WithTailSet
    <2>2. e \in 1..Len(J.entries)
      BY <2>1, <1>5
    <2>3. IsIndex(index') /\ index'.headers = J.headers
             /\ Len(index'.entries) = Len(J.entries)
      <3>1. CASE index' = J
        BY <3>1, <2>1
      <3>2. CASE index' = [J EXCEPT !.entries[e].value = b]
        BY <3>2, <2>1, <2>2, <1>5, ValueSet
      <3> QED
        BY <3>1, <3>2, <1>5
    <2> QED
      BY <1>0, <2>1, <2>3
  <1>6. null \in 0..MaxBlocks
    BY SizesAssumption DEF null
  <1>7. CASE InsertTail
    <2>1. index.headers # <<>> /\ index' = WithTail(1)
      BY <1>7 DEF InsertTail, ProducerInv
    <2>2. header.index[header.tail] \in 1..Len(index.entries)
      BY <1>0, <2>1, CurrentType
    <2> QED
      BY <2>1, <2>2, <1>5, <1>6
  <1>8. CASE RewindInserted
    <2>1. index.headers # <<>> /\ -1 \in Int
          /\ index' = [WithTail(-1) EXCEPT
                          !.entries[header.index[header.tail]].value = null]
      BY <1>8 DEF RewindInserted, ProducerInv
    <2>2. header.index[header.tail] \in 1..Len(index.entries)
      BY <1>0, <2>1, CurrentType
    <2>3. PICK d \in Int : d = -1
      OBVIOUS
    <2>4. PICK J, e : J = WithTail(d) /\ e = header.index[header.tail]
      OBVIOUS
    <2>5. J = WithTail(d) /\ e \in 1..Len(index.entries) /\ index.headers # <<>>
      BY <2>1, <2>2, <2>4, Zenon
    <2>6. index' = [J EXCEPT !.entries[e].value = null]
      BY <2>1, <2>3, <2>4, Zenon
    <2> QED
      BY <2>5, <2>6, <1>5, <1>6
  <1>9. CASE RewindBlock
    <2>0. pr.chain \in Seq(Blocks) /\ pr.undone \in Nat
      BY DEF TypeInv, PrType, ProducerRec
    <2>1. index.headers # <<>>
      BY <1>9, <2>0 DEF RewindBlock, ProducerInv
    <2>2. PICK i : i = Base(start - 1) + (pr.undone + 1) * BLOCK_SIZE
      OBVIOUS
    <2>3. index' = [WithTail(-1) EXCEPT !.entries[CurrentEntry(i)].value = null]
      BY <1>9, <2>2 DEF RewindBlock, Rewound
    <2>4. i \in Int
      <3>1. q.tailIndex - 1 \in Int
        BY DEF TypeInv, QType
      <3>2. PICK j \in Int : j = (q.tailIndex - 1) % IndexMod
        BY <3>1, ModType
      <3>3. BLOCK_SIZE \in Nat /\ j \div BLOCK_SIZE \in Int
        BY <3>2, SizesAssumption
      <3>4. Base(start - 1) = (j \div BLOCK_SIZE) * BLOCK_SIZE
        BY <3>2 DEF Base, start
      <3> QED
        BY <2>0, <2>2, <3>3, <3>4
    <2>5. CurrentEntry(i) \in 1..Len(index.entries)
      BY <1>0, <2>1, <2>4, CurrentType
    <2>6. PICK d \in Int : d = -1
      OBVIOUS
    <2>7. PICK J, e : J = WithTail(d) /\ e = CurrentEntry(i)
      OBVIOUS
    <2>8. J = WithTail(d) /\ e \in 1..Len(index.entries) /\ index.headers # <<>>
      BY <2>1, <2>5, <2>7, Zenon
    <2>9. index' = [J EXCEPT !.entries[e].value = null]
      BY <2>3, <2>6, <2>7, Zenon
    <2> QED
      BY <2>8, <2>9, <1>5, <1>6
  <1>10. ASSUME NEW e \in 1..Len(index.entries), NEW b \in 0..MaxBlocks,
                index' = [index EXCEPT !.entries[e].value = b]
         PROVE  Same
    <2>1. IsIndex(index') /\ index'.headers = index.headers
             /\ Len(index'.entries) = Len(index.entries)
      BY <1>0, <1>10, ValueSet
    <2> QED
      BY <1>0, <2>1
  <1>11. ASSUME NEW b \in Blocks, RequisitionBlock(b) PROVE Same
    <2>1. index.headers # <<>>
      BY <1>11 DEF RequisitionBlock, ProducerInv
    <2>2. PICK e \in 1..Len(index.entries) : e = CurrentEntry(NextBase)
      <3>1. NextBase \in Int
        BY NextBaseType
      <3> QED
        BY <1>0, <2>1, <3>1, CurrentType
    <2>3. b \in 0..MaxBlocks
      BY SizesAssumption DEF Blocks
    <2>4. index' = [index EXCEPT !.entries[e].value = b]
      BY <1>11, <2>2 DEF RequisitionBlock
    <2> QED
      BY <2>2, <2>3, <2>4, <1>10
  <1>12. ASSUME NEW c \in Consumers, Unlink(c) PROVE Same
    <2>1. co[c].entry \in 1..Len(index.entries)
      BY <1>12 DEF Unlink, Step, TypeInv, LoadedOK
    <2>2. index' = [index EXCEPT !.entries[co[c].entry].value = null]
      BY <1>12 DEF Unlink
    <2> QED
      BY <2>1, <2>2, <1>6, <1>10
  <1>13. ASSUME NEW c \in Consumers, TryDequeue(c) \/ Consumer(c) PROVE Same
    BY <1>13, <1>1, <1>12 DEF Consumer, TryDequeue, SizeTail, SizeHead, LooksEmpty,
       LoadTail, LoadOvercommit, CheckCount, CountDequeue, Recheck, Overcommit, Claim,
       LoadHeader, LoadIndexTail, LoadTailKey, MoveElement, SetEmpty, AddBlockToFreeList
  <1>14. CASE Producer
    BY <1>14, <1>1, <1>3, <1>4, <1>7, <1>8, <1>9, <1>11 DEF Producer, InsertFails,
       RequisitionFails, EnqueueFails, Fill, Publish
  <1>15. ASSUME NEW n \in 1..MaxBatch, EnqueueBulk(n) PROVE Same
    BY <1>1, <1>15 DEF EnqueueBulk
  <1>16. CASE Destroy \/ Finished \/ UNCHANGED vars
    BY <1>1, <1>16 DEF Destroy, Finished, vars
  <1> QED
    BY <1>2, <1>13, <1>14, <1>15, <1>16 DEF Next

-----------------------------------------------------------------------------
(***************************************************************************)
(* The steps of the consumers                                              *)
(***************************************************************************)

OthersStay(c) == \A d \in Consumers : d # c => co'[d] = co[d]

LEMMA StepFields ==
  ASSUME CoType, NEW c \in Consumers, NEW from, NEW r \in Local, Step(c, from, r)
  PROVE  CoType' /\ co[c].pc = from /\ co'[c] = r /\ OthersStay(c)
  BY LocalSet DEF Step, OthersStay

LEMMA FailFields ==
  ASSUME TypeInv, NEW c \in Consumers, Fails(c)
  PROVE  /\ CoType' /\ OthersStay(c)
         /\ co'[c].pc = IF q.byPermit THEN "size_tail" ELSE "idle"
  <1>1. PICK r \in Local : /\ r = [IdleConsumer EXCEPT
                                     !.pc = IF q.byPermit THEN "size_tail" ELSE "idle"]
                           /\ r.pc = IF q.byPermit THEN "size_tail" ELSE "idle"
    BY IdleLocal DEF IdleConsumer
  <1>2. co' = [co EXCEPT ![c] = r]
    BY <1>1 DEF Fails
  <1> QED
    BY <1>1, <1>2, LocalSet DEF TypeInv, OthersStay

LEMMA LooksEmptyFields ==
  ASSUME TypeInv, NEW c \in Consumers, LooksEmpty(c)
  PROVE  /\ CoType' /\ OthersStay(c)
         /\ co[c].pc \in {"size_tail", "size_head", "check"}
         /\ co'[c].pc = IF q.byPermit THEN "size_tail" ELSE "idle"
         /\ UNCHANGED <<q, index, block, pr>>
  BY FailFields DEF LooksEmpty

LEMMA OvercommitFields ==
  ASSUME TypeInv, NEW c \in Consumers, Overcommit(c)
  PROVE  /\ CoType' /\ OthersStay(c)
         /\ co[c].pc = "recheck" /\ ~Granted(c)
         /\ co'[c].pc = IF q.byPermit THEN "size_tail" ELSE "idle"
         /\ q' = [q EXCEPT !.dequeueOvercommit = (@ + 1) % IndexMod]
         /\ UNCHANGED <<index, block, pr>>
  BY FailFields DEF Overcommit

LEMMA TryDequeueFields ==
  ASSUME TypeInv, NEW c \in Consumers, TryDequeue(c)
  PROVE  /\ CoType' /\ OthersStay(c) /\ co[c].pc = "idle"
         /\ co'[c].pc = "size_tail"
         /\ UNCHANGED <<index, block, pr>>
  BY DEF TryDequeue, IdleConsumer, None, Step, TypeInv, CoType, Local,
     ConsumerPcs, OthersStay

LEMMA SizeTailFields ==
  ASSUME TypeInv, NEW c \in Consumers, SizeTail(c)
  PROVE  /\ CoType' /\ OthersStay(c) /\ co[c].pc = "size_tail"
         /\ co'[c].pc = "size_head"
         /\ co'[c].tail = q.tailIndex
         /\ UNCHANGED <<q, index, block, pr>>
  BY DEF SizeTail, Step, TypeInv, CoType, Local,
     ConsumerPcs, OthersStay, QType

LEMMA SizeHeadFields ==
  ASSUME TypeInv, NEW c \in Consumers, SizeHead(c)
  PROVE  /\ CoType' /\ OthersStay(c) /\ co[c].pc = "size_head"
         /\ co'[c].pc = "tail"
         /\ co'[c].tail = 0
         /\ UNCHANGED <<q, index, block, pr>>
  BY DEF SizeHead, Step, TypeInv, CoType, Local,
     ConsumerPcs, OthersStay

LEMMA LoadTailFields ==
  ASSUME TypeInv, NEW c \in Consumers, LoadTail(c)
  PROVE  /\ CoType' /\ OthersStay(c) /\ co[c].pc = "tail"
         /\ co'[c].pc = "overcommit"
         /\ co'[c].tail = q.tailIndex
         /\ UNCHANGED <<q, index, block, pr>>
  BY DEF LoadTail, Step, TypeInv, CoType, Local,
     ConsumerPcs, OthersStay, QType

LEMMA LoadOvercommitFields ==
  ASSUME TypeInv, NEW c \in Consumers, LoadOvercommit(c)
  PROVE  /\ CoType' /\ OthersStay(c) /\ co[c].pc = "overcommit"
         /\ co'[c].pc = "check"
         /\ co'[c].overcommit = q.dequeueOvercommit
         /\ co'[c].tail = co[c].tail
         /\ UNCHANGED <<q, index, block, pr>>
  BY DEF LoadOvercommit, Step, TypeInv, CoType, Local,
     ConsumerPcs, OthersStay, QType

LEMMA CheckCountFields ==
  ASSUME TypeInv, NEW c \in Consumers, CheckCount(c)
  PROVE  /\ CoType' /\ OthersStay(c) /\ co[c].pc = "check"
         /\ co'[c].pc = "count"
         /\ co'[c].overcommit = co[c].overcommit
         /\ UNCHANGED <<q, index, block, pr>>
  BY DEF CheckCount, Step, TypeInv, CoType, Local,
     ConsumerPcs, OthersStay

LEMMA CountDequeueFields ==
  ASSUME TypeInv, NEW c \in Consumers, CountDequeue(c)
  PROVE  /\ CoType' /\ OthersStay(c) /\ co[c].pc = "count"
         /\ co'[c].pc = "recheck"
         /\ co'[c].index = q.dequeueOptimisticCount
         /\ co'[c].overcommit = co[c].overcommit
         /\ q' = [q EXCEPT !.dequeueOptimisticCount = (@ + 1) % IndexMod]
         /\ UNCHANGED <<index, block, pr>>
  BY DEF CountDequeue, Step, TypeInv, CoType, Local,
     ConsumerPcs, OthersStay, QType

LEMMA RecheckFields ==
  ASSUME TypeInv, NEW c \in Consumers, Recheck(c)
  PROVE  /\ CoType' /\ OthersStay(c) /\ co[c].pc = "recheck"
         /\ co'[c].pc = "claim"
         /\ Granted(c)
         /\ UNCHANGED <<q, index, block, pr>>
  BY DEF Recheck, Step, TypeInv, CoType, Local,
     ConsumerPcs, OthersStay

LEMMA ClaimFields ==
  ASSUME TypeInv, NEW c \in Consumers, Claim(c)
  PROVE  /\ CoType' /\ OthersStay(c) /\ co[c].pc = "claim"
         /\ co'[c].pc = "header"
         /\ co'[c].index = q.headIndex
         /\ q' = [q EXCEPT !.headIndex = (@ + 1) % IndexMod]
         /\ UNCHANGED <<index, block, pr>>
  BY DEF Claim, Step, TypeInv, CoType, Local,
     ConsumerPcs, OthersStay, QType

LEMMA LoadHeaderFields ==
  ASSUME TypeInv, NEW c \in Consumers, LoadHeader(c)
  PROVE  /\ CoType' /\ OthersStay(c) /\ co[c].pc = "header"
         /\ co'[c].pc = "slot"
         /\ co'[c].header = Len(index.headers)
         /\ co'[c].index = co[c].index
         /\ UNCHANGED <<q, index, block, pr>>
  <1>1. Len(index.headers) \in Nat
    BY DEF TypeInv, IsIndex
  <1> QED
    BY <1>1 DEF LoadHeader, Step, TypeInv, CoType, Local,
       ConsumerPcs, OthersStay

LEMMA LoadIndexTailFields ==
  ASSUME TypeInv, NEW c \in Consumers, LoadIndexTail(c)
  PROVE  /\ CoType' /\ OthersStay(c) /\ co[c].pc = "slot"
         /\ co'[c].pc = "key"
         /\ co'[c].slot = index.headers[co[c].header].tail
         /\ co'[c].index = co[c].index
         /\ co'[c].header = co[c].header
         /\ UNCHANGED <<q, index, block, pr>>
  <1>1. index.headers[co[c].header].tail \in Nat
    <2>1. co[c].header \in 1..Len(index.headers)
      BY DEF TypeInv, LoadedOK, LoadIndexTail, Step
    <2> QED
      BY <2>1, HeaderAt DEF TypeInv
  <1> QED
    BY <1>1 DEF LoadIndexTail, Step, TypeInv, CoType, Local,
       ConsumerPcs, OthersStay

\* get_block_index_index_for_index, from what the consumer has loaded.
LoadedEntry(c) ==
    LET h == index.headers[co[c].header] IN
    EntryFor(h, co[c].slot, index.entries[h.index[co[c].slot]].key, co[c].index)

LEMMA LoadedEntryType ==
  ASSUME TypeInv, NEW c \in Consumers, co[c].pc = "key"
  PROVE  LoadedEntry(c) \in 1..Len(index.entries) /\ LoadedEntry(c) \in Nat
  <1>1. PICK h \in 1..Len(index.headers) : h = co[c].header
    BY DEF TypeInv, LoadedOK
  <1>2. co[c].slot \in 0..(index.headers[h].capacity - 1) /\ co[c].index \in Int
    BY <1>1 DEF TypeInv, LoadedOK, CoType, Local
  <1>3. co[c].slot \in Nat
    BY <1>1, <1>2, HeaderAt DEF TypeInv
  <1>4. index.entries[index.headers[h].index[co[c].slot]].key \in Int
    <2>1. PICK e \in 1..Len(index.entries) : e = index.headers[h].index[co[c].slot]
      BY <1>2, HeaderAt DEF TypeInv
    <2>2. index.entries[e] \in EntryRec
      BY <2>1 DEF TypeInv, IsIndex
    <2> QED
      BY <2>1, <2>2 DEF EntryRec
  <1>5. LoadedEntry(c) \in 1..Len(index.entries)
    BY <1>1, <1>2, <1>3, <1>4, EntryForType DEF TypeInv, LoadedEntry
  <1>6. Len(index.entries) \in Nat
    BY DEF TypeInv, IsIndex
  <1>7. 1..Len(index.entries) \subseteq Nat
    BY <1>6
  <1> QED
    BY <1>5, <1>7, Zenon

LEMMA LoadTailKeyFields ==
  ASSUME TypeInv, NEW c \in Consumers, LoadTailKey(c)
  PROVE  /\ CoType' /\ OthersStay(c) /\ co[c].pc = "key"
         /\ co'[c].pc = "value"
         /\ co'[c].entry = LoadedEntry(c)
         /\ co'[c].index = co[c].index
         /\ UNCHANGED <<q, index, block, pr>>
  <1>1. PICK e \in Nat : e = LoadedEntry(c)
    BY LoadedEntryType DEF LoadTailKey, Step
  <1>2. Step(c, "key", [co[c] EXCEPT !.pc = "value", !.header = 0, !.slot = 0, !.entry = e])
    BY <1>1 DEF LoadTailKey, LoadedEntry
  <1>3. UNCHANGED <<q, index, block, pr>>
    BY DEF LoadTailKey
  <1> QED
    BY <1>1, <1>2, <1>3 DEF Step, TypeInv, CoType, Local,
       ConsumerPcs, OthersStay

LEMMA BlockHeldType ==
  ASSUME TypeInv, NEW c \in Consumers, co[c].pc \in {"value", "set_empty", "unlink"}
  PROVE  BlockHeld(c) \in 0..MaxBlocks
  <1>1. PICK e \in 1..Len(index.entries) : e = co[c].entry
    BY DEF TypeInv, LoadedOK
  <1>2. index.entries[e] \in EntryRec
    BY DEF TypeInv, IsIndex
  <1> QED
    BY <1>1, <1>2 DEF EntryRec, BlockHeld

LEMMA MoveElementFields ==
  ASSUME TypeInv, NEW c \in Consumers, MoveElement(c)
  PROVE  /\ CoType' /\ OthersStay(c) /\ co[c].pc = "value"
         /\ co'[c].pc = "set_empty"
         /\ co'[c].item = IF BlockHeld(c) = null THEN None
                          ELSE block[BlockHeld(c)].elements[Slot(co[c].index)]
         /\ co'[c].index = co[c].index /\ co'[c].entry = co[c].entry
         /\ UNCHANGED <<q, index, pr>>
  <1>1. PICK i : i = IF BlockHeld(c) = null THEN None
                     ELSE block[BlockHeld(c)].elements[Slot(co[c].index)]
    OBVIOUS
  <1>2. i \in Int
    <2>1. CASE BlockHeld(c) = null
      BY <1>1, <2>1 DEF None
    <2>2. CASE BlockHeld(c) # null
      <3>1. PICK b \in Blocks : b = BlockHeld(c)
        <4>1. BlockHeld(c) \in 0..MaxBlocks
          BY BlockHeldType DEF MoveElement, Step
        <4> QED
          BY <4>1, <2>2, SizesAssumption DEF Blocks, null
      <3>2. block[b].elements \in [0..(BLOCK_SIZE - 1) -> Int]
        BY DEF TypeInv, BlockType, BlockRec
      <3>3. Slot(co[c].index) \in 0..(BLOCK_SIZE - 1)
        <4>1. co[c].index \in Int
          BY DEF TypeInv, CoType, Local
        <4> QED
          BY <4>1, NoFacts
      <3> QED
        BY <1>1, <2>2, <3>1, <3>2, <3>3
    <2> QED
      BY <2>1, <2>2
  <1>3. Step(c, "value", [co[c] EXCEPT !.pc = "set_empty", !.item = i])
    BY <1>1 DEF MoveElement
  <1>4. UNCHANGED <<q, index, pr>>
    BY DEF MoveElement
  <1>5. /\ CoType' /\ OthersStay(c) /\ co[c].pc = "value"
        /\ co'[c].pc = "set_empty" /\ co'[c].item = i
        /\ co'[c].index = co[c].index /\ co'[c].entry = co[c].entry
    BY <1>2, <1>3 DEF Step, TypeInv, CoType, Local, ConsumerPcs, OthersStay
  <1> QED
    BY <1>1, <1>4, <1>5

LEMMA SetEmptyFields ==
  ASSUME TypeInv, NEW c \in Consumers, SetEmpty(c)
  PROVE  /\ CoType' /\ OthersStay(c) /\ co[c].pc = "set_empty"
         /\ EmptiedBy(block[BlockHeld(c)].elementsCompletelyDequeued) =>
               /\ co'[c].pc = "unlink" /\ co'[c].index = co[c].index
               /\ co'[c].entry = co[c].entry /\ co'[c].item = co[c].item
         /\ ~EmptiedBy(block[BlockHeld(c)].elementsCompletelyDequeued) =>
               co'[c].pc = "idle"
         /\ UNCHANGED <<q, index, pr>>
  <1>1. CASE EmptiedBy(block[BlockHeld(c)].elementsCompletelyDequeued)
    <2>1. Step(c, "set_empty", [co[c] EXCEPT !.pc = "unlink"])
      BY <1>1 DEF SetEmpty
    <2>2. /\ CoType' /\ OthersStay(c) /\ co[c].pc = "set_empty"
          /\ co'[c].pc = "unlink" /\ co'[c].index = co[c].index
          /\ co'[c].entry = co[c].entry /\ co'[c].item = co[c].item
      BY <2>1 DEF Step, TypeInv, CoType, Local, ConsumerPcs, OthersStay
    <2> QED
      BY <1>1, <2>2 DEF SetEmpty
  <1>2. CASE ~EmptiedBy(block[BlockHeld(c)].elementsCompletelyDequeued)
    <2>1. Step(c, "set_empty", IdleConsumer)
      BY <1>2 DEF SetEmpty
    <2>2. CoType' /\ OthersStay(c) /\ co[c].pc = "set_empty" /\ co'[c] = IdleConsumer
      BY <2>1, IdleLocal, StepFields DEF TypeInv
    <2>3. IdleConsumer.pc = "idle"
      BY DEF IdleConsumer
    <2> QED
      BY <1>2, <2>2, <2>3 DEF SetEmpty
  <1> QED
    BY <1>1, <1>2

LEMMA UnlinkFields ==
  ASSUME TypeInv, NEW c \in Consumers, Unlink(c)
  PROVE  /\ CoType' /\ OthersStay(c) /\ co[c].pc = "unlink"
         /\ co'[c].pc = "release" /\ co'[c].header = BlockHeld(c)
         /\ co'[c].index = co[c].index /\ co'[c].item = co[c].item
         /\ index' = [index EXCEPT !.entries[co[c].entry].value = null]
         /\ UNCHANGED <<q, block, pr>>
  <1>1. PICK b \in Nat : b = BlockHeld(c)
    <2>1. BlockHeld(c) \in 0..MaxBlocks /\ 0..MaxBlocks \subseteq Nat
      BY BlockHeldType DEF Unlink, Step
    <2> QED
      BY <2>1
  <1>2. Step(c, "unlink", [co[c] EXCEPT !.pc = "release", !.header = b])
    BY <1>1 DEF Unlink
  <1>3. /\ CoType' /\ OthersStay(c) /\ co[c].pc = "unlink"
        /\ co'[c].pc = "release" /\ co'[c].header = b
        /\ co'[c].index = co[c].index /\ co'[c].item = co[c].item
    BY <1>2 DEF Step, TypeInv, CoType, Local, ConsumerPcs, OthersStay
  <1> QED
    BY <1>1, <1>3 DEF Unlink

LEMMA ReleaseFields ==
  ASSUME TypeInv, NEW c \in Consumers, AddBlockToFreeList(c)
  PROVE  /\ CoType' /\ OthersStay(c) /\ co[c].pc = "release" /\ co'[c].pc = "idle"
         /\ UNCHANGED <<q, index, pr>>
  <1>1. Step(c, "release", IdleConsumer)
    BY DEF AddBlockToFreeList
  <1>2. IdleConsumer.pc = "idle"
    BY DEF IdleConsumer
  <1>3. CoType' /\ OthersStay(c) /\ co[c].pc = "release" /\ co'[c] = IdleConsumer
    BY <1>1, IdleLocal, StepFields DEF TypeInv
  <1> QED
    BY <1>2, <1>3 DEF AddBlockToFreeList

LEMMA CoTypeNext == ASSUME TypeInv, [Next]_vars PROVE CoType'
  <1>1. CASE UNCHANGED co
    BY <1>1 DEF TypeInv, CoType
  <1>2. ASSUME NEW c \in Consumers, TryDequeue(c) \/ Consumer(c) PROVE CoType'
    BY <1>2, LooksEmptyFields, OvercommitFields, TryDequeueFields, SizeTailFields,
       SizeHeadFields, LoadTailFields, LoadOvercommitFields, CheckCountFields,
       CountDequeueFields, RecheckFields, ClaimFields, LoadHeaderFields,
       LoadIndexTailFields, LoadTailKeyFields, MoveElementFields, SetEmptyFields,
       UnlinkFields, ReleaseFields DEF Consumer
  <1>3. CASE Producer
    BY <1>1, <1>3 DEF Producer, InsertKey, GrowIndex, InsertFails, InsertTail,
       RequisitionBlock, RequisitionFails, RewindInserted, RewindBlock, EnqueueFails,
       Fill, Publish
  <1>4. CASE AddProducer \/ Destroy \/ Finished \/ UNCHANGED vars
    BY <1>1, <1>4 DEF AddProducer, Destroy, Finished, vars
  <1>5. ASSUME NEW n \in 1..MaxBatch, EnqueueBulk(n) PROVE CoType'
    BY <1>1, <1>5 DEF EnqueueBulk
  <1> QED
    BY <1>2, <1>3, <1>4, <1>5 DEF Next

-----------------------------------------------------------------------------
(***************************************************************************)
(* The steps of the producer                                               *)
(***************************************************************************)

LEMMA ProducerType ==
  ASSUME NEW r \in ProducerRec
  PROVE  /\ r.chain \in Seq(Blocks) /\ Append(r.chain, 1) # <<>>
         /\ <<>> \in Seq(Blocks) /\ null \in 0..MaxBlocks
         /\ Blocks \subseteq 0..MaxBlocks
  BY SizesAssumption DEF ProducerRec, null, Blocks

LEMMA EnqueueBulkFields ==
  ASSUME TypeInv, NEW n \in 1..MaxBatch, EnqueueBulk(n)
  PROVE  pr' = [pc |-> IF Base(start - 1) = Base(start + n - 1) THEN "fill" ELSE "index",
                tailBlock |-> pr.tailBlock, startBlock |-> pr.tailBlock,
                count |-> n, base |-> Base(start - 1), chain |-> <<>>,
                inserted |-> FALSE, undone |-> 0]
  BY DEF EnqueueBulk, TypeInv, PrType, ProducerRec

LEMMA InsertKeyFields ==
  ASSUME TypeInv, InsertKey
  PROVE  pr' = [pc |-> "tail", tailBlock |-> pr.tailBlock,
                startBlock |-> pr.startBlock, count |-> pr.count,
                base |-> pr.base, chain |-> pr.chain, inserted |-> pr.inserted,
                undone |-> pr.undone]
  BY DEF InsertKey, TypeInv, PrType, ProducerRec

LEMMA InsertFailsFields ==
  ASSUME TypeInv, InsertFails
  PROVE  pr' = [pc |-> "rollback", tailBlock |-> pr.tailBlock,
                startBlock |-> pr.startBlock, count |-> pr.count,
                base |-> pr.base, chain |-> pr.chain, inserted |-> pr.inserted,
                undone |-> pr.undone]
  BY DEF InsertFails, TypeInv, PrType, ProducerRec

LEMMA InsertTailFields ==
  ASSUME TypeInv, InsertTail
  PROVE  pr' = [pc |-> "requisition", tailBlock |-> pr.tailBlock,
                startBlock |-> pr.startBlock, count |-> pr.count,
                base |-> pr.base, chain |-> pr.chain, inserted |-> TRUE,
                undone |-> pr.undone]
  BY DEF InsertTail, TypeInv, PrType, ProducerRec

LEMMA RequisitionBlockFields ==
  ASSUME TypeInv, NEW b \in Blocks, RequisitionBlock(b)
  PROVE  pr' = [pc |-> IF NextBase = LastBase THEN "fill" ELSE "index",
                tailBlock |-> b, startBlock |-> pr.startBlock,
                count |-> pr.count, base |-> NextBase,
                chain |-> Append(pr.chain, b), inserted |-> FALSE,
                undone |-> pr.undone]
  BY DEF RequisitionBlock, TypeInv, PrType, ProducerRec

LEMMA RequisitionFailsFields ==
  ASSUME TypeInv, RequisitionFails
  PROVE  pr' = [pc |-> "rollback", tailBlock |-> pr.tailBlock,
                startBlock |-> pr.startBlock, count |-> pr.count,
                base |-> pr.base, chain |-> pr.chain, inserted |-> pr.inserted,
                undone |-> pr.undone]
  BY DEF RequisitionFails, TypeInv, PrType, ProducerRec

LEMMA RewindInsertedFields ==
  ASSUME TypeInv, RewindInserted
  PROVE  pr' = [pc |-> pr.pc, tailBlock |-> pr.tailBlock,
                startBlock |-> pr.startBlock, count |-> pr.count,
                base |-> pr.base, chain |-> pr.chain, inserted |-> FALSE,
                undone |-> pr.undone]
  BY DEF RewindInserted, TypeInv, PrType, ProducerRec

LEMMA RewindBlockFields ==
  ASSUME TypeInv, RewindBlock
  PROVE  pr' = [pc |-> pr.pc, tailBlock |-> pr.tailBlock,
                startBlock |-> pr.startBlock, count |-> pr.count,
                base |-> pr.base, chain |-> pr.chain, inserted |-> pr.inserted,
                undone |-> pr.undone + 1]
  BY DEF RewindBlock, TypeInv, PrType, ProducerRec

LEMMA EnqueueFailsFields ==
  ASSUME TypeInv, EnqueueFails
  PROVE  pr' = [pc |-> "idle", tailBlock |-> pr.startBlock,
                startBlock |-> null, count |-> 0, base |-> pr.base,
                chain |-> <<>>, inserted |-> pr.inserted, undone |-> 0]
  BY DEF EnqueueFails, TypeInv, PrType, ProducerRec

LEMMA FillFields ==
  ASSUME TypeInv, Fill
  PROVE  pr' = [pc |-> "publish", tailBlock |-> pr.tailBlock,
                startBlock |-> pr.startBlock, count |-> pr.count,
                base |-> pr.base, chain |-> pr.chain, inserted |-> pr.inserted,
                undone |-> pr.undone]
  BY DEF Fill, TypeInv, PrType, ProducerRec

LEMMA PublishFields ==
  ASSUME TypeInv, Publish
  PROVE  pr' = [pc |-> "idle", tailBlock |-> pr.tailBlock, startBlock |-> null,
                count |-> 0, base |-> pr.base, chain |-> <<>>,
                inserted |-> pr.inserted, undone |-> pr.undone]
  BY DEF Publish, TypeInv, PrType, ProducerRec


LEMMA PrTypeNext == ASSUME TypeInv, [Next]_vars PROVE PrType'
  <1> USE DEF PrType
  <1>0. PICK p \in ProducerRec : p = pr
    BY DEF TypeInv
  <1>1. /\ p.pc \in ProducerPcs /\ p.tailBlock \in 0..MaxBlocks
        /\ p.startBlock \in 0..MaxBlocks /\ p.count \in Nat /\ p.base \in Nat
        /\ p.chain \in Seq(Blocks) /\ p.inserted \in BOOLEAN /\ p.undone \in Nat
        /\ <<>> \in Seq(Blocks) /\ null \in 0..MaxBlocks /\ Blocks \subseteq 0..MaxBlocks
    BY ProducerType DEF ProducerRec
  <1>2. CASE UNCHANGED pr
    BY <1>2 DEF TypeInv
  <1>3. ASSUME NEW n \in 1..MaxBatch, EnqueueBulk(n) PROVE PrType'
    <2>1. PICK b \in Nat : b = Base(start - 1)
      <3>1. start - 1 \in Int
        BY DEF TypeInv, QType, start
      <3> QED
        BY <3>1, BaseType
    <2>2. PICK s \in Seq(Blocks) : s = <<>>
      BY <1>1
    <2>3. PICK a \in ProducerPcs :
             a = IF Base(start - 1) = Base(start + n - 1) THEN "fill" ELSE "index"
      BY DEF ProducerPcs
    <2>4. n \in Nat
      BY SizesAssumption
    <2>5. pr' = [pc |-> a, tailBlock |-> p.tailBlock, startBlock |-> p.tailBlock,
                 count |-> n, base |-> b, chain |-> s, inserted |-> FALSE, undone |-> 0]
      BY <1>0, <1>3, <2>1, <2>2, <2>3, EnqueueBulkFields
    <2> QED
      BY <1>1, <2>4, <2>5 DEF ProducerRec
  <1>4. CASE InsertKey
    BY <1>0, <1>1, <1>4, InsertKeyFields DEF ProducerRec, ProducerPcs
  <1>5. CASE InsertFails
    BY <1>0, <1>1, <1>5, InsertFailsFields DEF ProducerRec, ProducerPcs
  <1>6. CASE InsertTail
    <2>1. PICK a \in ProducerPcs, t \in BOOLEAN : a = "requisition" /\ t = TRUE
      BY DEF ProducerPcs
    <2>2. pr' = [pc |-> a, tailBlock |-> p.tailBlock, startBlock |-> p.startBlock,
                 count |-> p.count, base |-> p.base, chain |-> p.chain,
                 inserted |-> t, undone |-> p.undone]
      BY <1>0, <1>6, <2>1, InsertTailFields
    <2> QED
      BY <1>1, <2>2 DEF ProducerRec
  <1>7. ASSUME NEW b \in Blocks, RequisitionBlock(b) PROVE PrType'
    <2>1. PICK k \in Nat : k = NextBase
      BY NextBaseType
    <2>2. PICK s \in Seq(Blocks) : s = Append(p.chain, b)
      <3>1. \A s \in Seq(Blocks) : Append(s, b) \in Seq(Blocks)
        OBVIOUS
      <3> QED
        BY <1>1, <3>1
    <2>3. PICK a \in ProducerPcs : a = IF NextBase = LastBase THEN "fill" ELSE "index"
      BY DEF ProducerPcs
    <2>4. b \in 0..MaxBlocks
      BY <1>1
    <2>5. pr' = [pc |-> a, tailBlock |-> b, startBlock |-> p.startBlock,
                 count |-> p.count, base |-> k, chain |-> s, inserted |-> FALSE,
                 undone |-> p.undone]
      BY <1>0, <1>7, <2>1, <2>2, <2>3, RequisitionBlockFields
    <2> QED
      BY <1>1, <2>4, <2>5 DEF ProducerRec
  <1>8. CASE RequisitionFails
    BY <1>0, <1>1, <1>8, RequisitionFailsFields DEF ProducerRec, ProducerPcs
  <1>9. CASE RewindInserted
    <2>1. PICK t \in BOOLEAN : t = FALSE
      OBVIOUS
    <2>2. pr' = [pc |-> p.pc, tailBlock |-> p.tailBlock, startBlock |-> p.startBlock,
                 count |-> p.count, base |-> p.base, chain |-> p.chain,
                 inserted |-> t, undone |-> p.undone]
      BY <1>0, <1>9, <2>1, RewindInsertedFields
    <2> QED
      BY <1>1, <2>2 DEF ProducerRec
  <1>10. CASE RewindBlock
    <2>1. PICK u \in Nat : u = p.undone + 1
      BY <1>1
    <2>2. pr' = [pc |-> p.pc, tailBlock |-> p.tailBlock, startBlock |-> p.startBlock,
                 count |-> p.count, base |-> p.base, chain |-> p.chain,
                 inserted |-> p.inserted, undone |-> u]
      BY <1>0, <1>10, <2>1, RewindBlockFields
    <2> QED
      BY <1>1, <2>2 DEF ProducerRec
  <1>11. CASE EnqueueFails
    <2>1. PICK s \in Seq(Blocks) : s = <<>>
      BY <1>1
    <2>2. pr' = [pc |-> "idle", tailBlock |-> p.startBlock, startBlock |-> null,
                 count |-> 0, base |-> p.base, chain |-> s, inserted |-> p.inserted,
                 undone |-> 0]
      BY <1>0, <1>11, <2>1, EnqueueFailsFields
    <2> QED
      BY <1>1, <2>2 DEF ProducerRec, ProducerPcs
  <1>12. CASE Fill
    BY <1>0, <1>1, <1>12, FillFields DEF ProducerRec, ProducerPcs
  <1>13. CASE Publish
    <2>1. PICK s \in Seq(Blocks) : s = <<>>
      BY <1>1
    <2>2. pr' = [pc |-> "idle", tailBlock |-> p.tailBlock, startBlock |-> null,
                 count |-> 0, base |-> p.base, chain |-> s, inserted |-> p.inserted,
                 undone |-> p.undone]
      BY <1>0, <1>13, <2>1, PublishFields
    <2> QED
      BY <1>1, <2>2 DEF ProducerRec, ProducerPcs
  <1>14. CASE Producer
    BY <1>2, <1>4, <1>5, <1>6, <1>7, <1>8, <1>9, <1>10, <1>11, <1>12, <1>13, <1>14
    DEF Producer, GrowIndex
  <1>15. ASSUME NEW c \in Consumers, TryDequeue(c) \/ Consumer(c) PROVE PrType'
    BY <1>2, <1>15 DEF TryDequeue, Consumer, SizeTail, SizeHead, LooksEmpty, LoadTail,
       LoadOvercommit, CheckCount, CountDequeue, Recheck, Overcommit, Claim, LoadHeader,
       LoadIndexTail, LoadTailKey, MoveElement, SetEmpty, Unlink, AddBlockToFreeList
  <1>16. CASE AddProducer \/ Destroy \/ Finished \/ UNCHANGED vars
    BY <1>2, <1>16 DEF AddProducer, Destroy, Finished, vars
  <1> QED
    BY <1>3, <1>14, <1>15, <1>16 DEF Next

LEMMA BlockAt ==
  ASSUME BlockType, NEW b \in Blocks
  PROVE  /\ block[b] \in BlockRec
         /\ block[b].state \in {"none", "pool", "free", "used"}
         /\ block[b].elementsCompletelyDequeued \in Nat
         /\ block[b].elements \in [0..(BLOCK_SIZE - 1) -> Int]
  BY DEF BlockType, BlockRec

LEMMA GivenBackFacts ==
  ASSUME BlockType, NEW b \in Blocks
  PROVE  /\ GivenBack(b) \in BlockRec
         /\ GivenBack(b).state = IF b <= PoolSize THEN "free" ELSE "none"
         /\ GivenBack(b).elementsCompletelyDequeued = block[b].elementsCompletelyDequeued
         /\ GivenBack(b).elements = block[b].elements
  <1>1. PICK s \in {"none", "pool", "free", "used"} :
           s = IF b <= PoolSize THEN "free" ELSE "none"
    OBVIOUS
  <1>2. GivenBack(b) = [block[b] EXCEPT !.state = s]
    BY <1>1 DEF GivenBack
  <1> QED
    BY <1>1, <1>2, BlockAt DEF BlockRec

\* The blocks after each step that changes one.
LEMMA RequisitionBlockBlocks ==
  ASSUME TypeInv, NEW b \in Blocks, RequisitionBlock(b)
  PROVE  /\ BlockType'
         /\ \A x \in Blocks : x # b => block'[x] = block[x]
         /\ block'[b].state = "used" /\ block'[b].elementsCompletelyDequeued = 0
         /\ block'[b].elements = block[b].elements
  <1>1. block[b] \in BlockRec
    BY BlockAt DEF TypeInv
  <1>2. PICK r \in BlockRec : r = Reset(b)
    <2>1. Reset(b) \in BlockRec
      BY <1>1 DEF Reset, BlockRec
    <2> QED
      BY <2>1
  <1>3. r.state = "used" /\ r.elementsCompletelyDequeued = 0 /\ r.elements = block[b].elements
    BY <1>1, <1>2 DEF Reset, BlockRec
  <1>4. block' = [block EXCEPT ![b] = r]
    BY <1>2 DEF RequisitionBlock
  <1> QED
    BY <1>3, <1>4 DEF TypeInv, BlockType

LEMMA EnqueueFailsBlocks ==
  ASSUME TypeInv, EnqueueFails
  PROVE  /\ BlockType'
         /\ \A b \in Blocks :
               /\ block'[b].elementsCompletelyDequeued = block[b].elementsCompletelyDequeued
               /\ block'[b].elements = block[b].elements
               /\ (\E k \in DOMAIN pr.chain : pr.chain[k] = b) =>
                     block'[b].state = IF b <= PoolSize THEN "free" ELSE "none"
               /\ (\A k \in DOMAIN pr.chain : pr.chain[k] # b) =>
                     block'[b] = block[b]
  <1>1. block' = [b \in Blocks |->
                    IF \E k \in DOMAIN pr.chain : pr.chain[k] = b THEN GivenBack(b)
                                                                  ELSE block[b]]
    BY DEF EnqueueFails
  <1>2. \A b \in Blocks : block[b] \in BlockRec /\ GivenBack(b) \in BlockRec
    BY BlockAt, GivenBackFacts DEF TypeInv
  <1>3. BlockType'
    BY <1>1, <1>2 DEF BlockType
  <1> QED
    BY <1>1, <1>3, GivenBackFacts DEF TypeInv

LEMMA MoveElementBlocks ==
  ASSUME TypeInv, NEW c \in Consumers, MoveElement(c)
  PROVE  /\ BlockType'
         /\ \A x \in Blocks : x # BlockHeld(c) => block'[x] = block[x]
         /\ \A x \in Blocks :
               /\ block'[x].state = block[x].state
               /\ block'[x].elementsCompletelyDequeued = block[x].elementsCompletelyDequeued
         /\ BlockHeld(c) \in Blocks =>
               \A s \in 0..(BLOCK_SIZE - 1) :
                  block'[BlockHeld(c)].elements[s] =
                     IF s = Slot(co[c].index) THEN None
                                              ELSE block[BlockHeld(c)].elements[s]
  <1>0. PICK s : s = Slot(co[c].index)
    OBVIOUS
  <1>1. block' = [x \in Blocks |-> IF x # BlockHeld(c) THEN block[x]
                                   ELSE [block[x] EXCEPT !.elements[s] = None]]
    BY <1>0 DEF MoveElement
  <1>2. ASSUME NEW x \in Blocks
        PROVE  /\ [block[x] EXCEPT !.elements[s] = None] \in BlockRec
               /\ [block[x] EXCEPT !.elements[s] = None].state = block[x].state
               /\ [block[x] EXCEPT !.elements[s] = None].elementsCompletelyDequeued
                     = block[x].elementsCompletelyDequeued
               /\ [block[x] EXCEPT !.elements[s] = None].elements =
                     [block[x].elements EXCEPT ![s] = None]
    <2>1. block[x] \in BlockRec
      BY BlockAt DEF TypeInv
    <2>2. PICK e : e = [block[x].elements EXCEPT ![s] = None]
      OBVIOUS
    <2>3. e \in [0..(BLOCK_SIZE - 1) -> Int]
      <3>1. PICK f \in [0..(BLOCK_SIZE - 1) -> Int] : f = block[x].elements
        BY <2>1 DEF BlockRec
      <3>2. PICK m \in Int : m = None
        BY DEF None
      <3>3. e = [f EXCEPT ![s] = m]
        BY <2>2, <3>1, <3>2
      <3> QED
        BY <3>3
    <2>4. [block[x] EXCEPT !.elements[s] = None] = [block[x] EXCEPT !.elements = e]
      BY <2>2
    <2> QED
      BY <2>1, <2>2, <2>3, <2>4 DEF BlockRec
  <1>3. \A x \in Blocks : block[x] \in BlockRec
    BY BlockAt DEF TypeInv
  <1>4. BlockType'
    BY <1>1, <1>2, <1>3 DEF BlockType
  <1>5. \A x \in Blocks : x # BlockHeld(c) => block'[x] = block[x]
    BY <1>1
  <1>6. \A x \in Blocks :
               /\ block'[x].state = block[x].state
               /\ block'[x].elementsCompletelyDequeued = block[x].elementsCompletelyDequeued
    BY <1>1, <1>2
  <1>7. ASSUME NEW b \in Blocks, b = BlockHeld(c), NEW r \in 0..(BLOCK_SIZE - 1)
        PROVE  block'[b].elements[r] = IF r = s THEN None ELSE block[b].elements[r]
    <2>1. block'[b].elements = [block[b].elements EXCEPT ![s] = None]
      BY <1>1, <1>2, <1>7
    <2>2. block[b].elements \in [0..(BLOCK_SIZE - 1) -> Int]
      BY BlockAt DEF TypeInv
    <2> QED
      BY <2>1, <2>2
  <1> QED
    BY <1>0, <1>4, <1>5, <1>6, <1>7

LEMMA SetEmptyBlocks ==
  ASSUME TypeInv, NEW c \in Consumers, SetEmpty(c)
  PROVE  /\ BlockType'
         /\ \A x \in Blocks : x # BlockHeld(c) => block'[x] = block[x]
         /\ \A x \in Blocks : /\ block'[x].state = block[x].state
                              /\ block'[x].elements = block[x].elements
         /\ BlockHeld(c) \in Blocks =>
               block'[BlockHeld(c)].elementsCompletelyDequeued =
                  block[BlockHeld(c)].elementsCompletelyDequeued + 1
  <1>1. block' = [block EXCEPT ![BlockHeld(c)].elementsCompletelyDequeued = @ + 1]
    BY DEF SetEmpty
  <1>2. CASE BlockHeld(c) \in Blocks
    <2>1. PICK b \in Blocks : b = BlockHeld(c)
      BY <1>2
    <2>2. block[b] \in BlockRec
      BY BlockAt DEF TypeInv
    <2>3. PICK r \in BlockRec :
             r = [block[b] EXCEPT !.elementsCompletelyDequeued = @ + 1]
      <3>1. [block[b] EXCEPT !.elementsCompletelyDequeued = @ + 1] \in BlockRec
        BY <2>2 DEF BlockRec
      <3> QED
        BY <3>1
    <2>4. /\ r.state = block[b].state /\ r.elements = block[b].elements
          /\ r.elementsCompletelyDequeued = block[b].elementsCompletelyDequeued + 1
      BY <2>2, <2>3 DEF BlockRec
    <2>5. block' = [block EXCEPT ![b] = r]
      BY <1>1, <2>1, <2>3
    <2> QED
      BY <2>1, <2>4, <2>5 DEF TypeInv, BlockType
  <1>3. CASE BlockHeld(c) \notin Blocks
    <2>1. block' = block
      BY <1>1, <1>3 DEF TypeInv, BlockType
    <2> QED
      BY <1>3, <2>1 DEF TypeInv, BlockType
  <1> QED
    BY <1>2, <1>3

LEMMA ReleaseBlocks ==
  ASSUME TypeInv, NEW c \in Consumers, AddBlockToFreeList(c)
  PROVE  /\ BlockType'
         /\ \A x \in Blocks : x # co[c].header => block'[x] = block[x]
         /\ \A x \in Blocks :
               /\ block'[x].elements = block[x].elements
               /\ block'[x].elementsCompletelyDequeued = block[x].elementsCompletelyDequeued
         /\ co[c].header \in Blocks =>
               block'[co[c].header].state = IF co[c].header <= PoolSize THEN "free" ELSE "none"
  <1>1. block' = [block EXCEPT ![co[c].header] = GivenBack(co[c].header)]
    BY DEF AddBlockToFreeList
  <1>2. CASE co[c].header \in Blocks
    <2>1. PICK b \in Blocks : b = co[c].header
      BY <1>2
    <2>2. PICK r \in BlockRec : r = GivenBack(b)
      BY GivenBackFacts DEF TypeInv
    <2>3. /\ r.state = IF b <= PoolSize THEN "free" ELSE "none"
          /\ r.elements = block[b].elements
          /\ r.elementsCompletelyDequeued = block[b].elementsCompletelyDequeued
      BY <2>2, GivenBackFacts DEF TypeInv
    <2>4. block' = [block EXCEPT ![b] = r]
      BY <1>1, <2>1, <2>2
    <2> QED
      BY <2>1, <2>3, <2>4 DEF TypeInv, BlockType
  <1>3. CASE co[c].header \notin Blocks
    <2>1. block' = block
      BY <1>1, <1>3 DEF TypeInv, BlockType
    <2> QED
      BY <1>3, <2>1 DEF TypeInv, BlockType
  <1> QED
    BY <1>2, <1>3

LEMMA FillBlocks ==
  ASSUME TypeInv, Fill
  PROVE  /\ BlockType'
         /\ \A b \in Blocks :
               /\ block'[b].state = block[b].state
               /\ block'[b].elementsCompletelyDequeued = block[b].elementsCompletelyDequeued
               /\ \A s \in 0..(BLOCK_SIZE - 1) :
                     \/ /\ block'[b].elements[s] \in NewElements
                        /\ BlockOf(block'[b].elements[s]) = b
                        /\ Slot(block'[b].elements[s]) = s
                     \/ /\ block'[b].elements[s] = block[b].elements[s]
                        /\ \A i \in NewElements : ~(BlockOf(i) = b /\ Slot(i) = s)
  <1> DEFINE Here(b, s, i) == BlockOf(i) = b /\ Slot(i) = s
             New(b) == [s \in 0..(BLOCK_SIZE - 1) |->
                           IF \E i \in NewElements : Here(b, s, i)
                           THEN CHOOSE i \in NewElements : Here(b, s, i)
                           ELSE block[b].elements[s]]
  <1>0. NewElements \subseteq Int
    <2>1. \A k \in 0..(pr.count - 1) : (start + k) % IndexMod \in Int
      <3>1. start \in Int
        BY DEF TypeInv, QType, start
      <3> QED
        BY <3>1, ModType
    <2> QED
      BY <2>1 DEF NewElements
  <1>1. ASSUME NEW b \in Blocks
        PROVE  /\ block[b] \in BlockRec /\ DOMAIN block[b].elements = 0..(BLOCK_SIZE - 1)
               /\ New(b) \in [0..(BLOCK_SIZE - 1) -> Int]
    <2>1. block[b] \in BlockRec /\ block[b].elements \in [0..(BLOCK_SIZE - 1) -> Int]
      BY BlockAt DEF TypeInv
    <2>2. ASSUME NEW s \in 0..(BLOCK_SIZE - 1), \E i \in NewElements : Here(b, s, i)
          PROVE  (CHOOSE i \in NewElements : Here(b, s, i)) \in Int
      <3>1. (CHOOSE i \in NewElements : Here(b, s, i)) \in NewElements
        BY <2>2
      <3> QED
        BY <1>0, <3>1
    <2>3. ASSUME NEW s \in 0..(BLOCK_SIZE - 1) PROVE New(b)[s] \in Int
      <3>1. block[b].elements[s] \in Int
        BY <2>1
      <3>2. New(b)[s] = IF \E i \in NewElements : Here(b, s, i)
                           THEN CHOOSE i \in NewElements : Here(b, s, i)
                           ELSE block[b].elements[s]
        BY Zenon
      <3> QED
        BY <2>2, <3>1, <3>2, Zenon
    <2>4. New(b) \in [0..(BLOCK_SIZE - 1) -> Int]
      BY <2>3, Zenon
    <2> QED
      BY <2>1, <2>4
  <1>2. ASSUME NEW b \in Blocks
        PROVE  block'[b] = [block[b] EXCEPT !.elements = New(b)]
    BY <1>1 DEF Fill
  <1> HIDE DEF New
  <1>3. ASSUME NEW b \in Blocks
        PROVE  /\ block'[b] \in BlockRec /\ block'[b].state = block[b].state
               /\ block'[b].elementsCompletelyDequeued = block[b].elementsCompletelyDequeued
               /\ block'[b].elements = New(b)
    <2>1. PICK r \in BlockRec : r = block[b]
      BY <1>1
    <2>2. PICK e \in [0..(BLOCK_SIZE - 1) -> Int] : e = New(b)
      BY <1>1
    <2>3. block'[b] = [r EXCEPT !.elements = e]
      BY <1>2, <2>1, <2>2
    <2> QED
      BY <2>1, <2>2, <2>3 DEF BlockRec
  <1>4. DOMAIN block' = Blocks /\ block' = [b \in DOMAIN block' |-> block'[b]]
    BY DEF Fill
  <1>5. BlockType'
    BY <1>3, <1>4 DEF BlockType
  <1>6. ASSUME NEW b \in Blocks, NEW s \in 0..(BLOCK_SIZE - 1)
        PROVE  \/ /\ block'[b].elements[s] \in NewElements
                  /\ Here(b, s, block'[b].elements[s])
               \/ /\ block'[b].elements[s] = block[b].elements[s]
                  /\ \A i \in NewElements : ~Here(b, s, i)
    <2>1. block'[b].elements[s] = IF \E i \in NewElements : Here(b, s, i)
                           THEN CHOOSE i \in NewElements : Here(b, s, i)
                           ELSE block[b].elements[s]
      BY <1>3 DEF New
    <2> HIDE DEF Here
    <2> QED
      BY <2>1, Zenon
  <1> QED
    BY <1>3, <1>5, <1>6

\* What the destructor frees.
Of(i) == index.entries[CurrentEntry(i)].value
Passed == {Of(i) : i \in {j \in Remaining : Base(j) # Base((q.tailIndex - 1) % IndexMod)}}

LEMMA DestroyBlocks ==
  ASSUME TypeInv, Destroy
  PROVE  /\ BlockType'
         /\ \A b \in Blocks :
               /\ block'[b].state =
                     IF b \in Passed \cup LastBlock
                     THEN IF b <= PoolSize THEN "free" ELSE "none"
                     ELSE block[b].state
               /\ \A s \in 0..(BLOCK_SIZE - 1) :
                     block'[b].elements[s] =
                        IF \E i \in Remaining : Of(i) = b /\ Slot(i) = s THEN None
                        ELSE block[b].elements[s]
  <1> DEFINE Was(b) == IF b \in Passed \cup LastBlock THEN GivenBack(b) ELSE block[b]
             New(b) == [s \in DOMAIN Was(b).elements |->
                           IF \E i \in Remaining : Of(i) = b /\ Slot(i) = s THEN None
                           ELSE Was(b).elements[s]]
  <1>1. block' = [b \in Blocks |-> [Was(b) EXCEPT !.elements = New(b)]]
    BY DEF Destroy, Of, Passed
  <1>2. ASSUME NEW b \in Blocks
        PROVE  /\ Was(b) \in BlockRec /\ Was(b).elements = block[b].elements
               /\ Was(b).state = IF b \in Passed \cup LastBlock
                                 THEN IF b <= PoolSize THEN "free" ELSE "none"
                                 ELSE block[b].state
               /\ DOMAIN block[b].elements = 0..(BLOCK_SIZE - 1)
               /\ block[b].elements \in [0..(BLOCK_SIZE - 1) -> Int]
    BY BlockAt, GivenBackFacts DEF TypeInv
  <1> HIDE DEF Was
  <1>3. ASSUME NEW b \in Blocks
        PROVE  /\ New(b) \in [0..(BLOCK_SIZE - 1) -> Int]
               /\ \A s \in 0..(BLOCK_SIZE - 1) : New(b)[s] =
                    IF \E i \in Remaining : Of(i) = b /\ Slot(i) = s THEN None
                    ELSE block[b].elements[s]
    <2>1. DOMAIN Was(b).elements = 0..(BLOCK_SIZE - 1) /\ Was(b).elements = block[b].elements
      BY <1>2
    <2>2. \A s \in 0..(BLOCK_SIZE - 1) : New(b)[s] =
                    IF \E i \in Remaining : Of(i) = b /\ Slot(i) = s THEN None
                    ELSE block[b].elements[s]
      BY <2>1, Zenon
    <2>3. None \in Int /\ \A s \in 0..(BLOCK_SIZE - 1) : block[b].elements[s] \in Int
      <3>1. None \in Int
        BY DEF None
      <3> QED
        BY <1>2, <3>1
    <2>4. ASSUME NEW s \in 0..(BLOCK_SIZE - 1) PROVE New(b)[s] \in Int
      BY <2>2, <2>3, Zenon
    <2>5. New(b) = [s \in 0..(BLOCK_SIZE - 1) |-> New(b)[s]]
      BY <2>1
    <2>6. New(b) \in [0..(BLOCK_SIZE - 1) -> Int]
      BY <2>4, <2>5, Zenon
    <2> QED
      BY <2>2, <2>6
  <1> HIDE DEF New
  <1>4. ASSUME NEW b \in Blocks
        PROVE  /\ block'[b] \in BlockRec /\ block'[b].state = Was(b).state
               /\ block'[b].elements = New(b)
    <2>1. PICK r \in BlockRec : r = Was(b)
      BY <1>2
    <2>2. PICK e \in [0..(BLOCK_SIZE - 1) -> Int] : e = New(b)
      BY <1>3
    <2>3. block'[b] = [r EXCEPT !.elements = e]
      BY <1>1, <2>1, <2>2
    <2> QED
      BY <2>1, <2>2, <2>3 DEF BlockRec
  <1>5. BlockType'
    BY <1>1, <1>4 DEF BlockType
  <1> QED
    BY <1>2, <1>3, <1>4, <1>5

LEMMA BlockTypeNext == ASSUME TypeInv, [Next]_vars PROVE BlockType'
  <1>1. CASE UNCHANGED block
    BY <1>1 DEF TypeInv, BlockType
  <1>2. CASE Producer
    BY <1>1, <1>2, RequisitionBlockBlocks, EnqueueFailsBlocks, FillBlocks
    DEF Producer, InsertKey, GrowIndex, InsertFails, InsertTail, RequisitionFails,
        RewindInserted, RewindBlock, Publish
  <1>3. ASSUME NEW c \in Consumers, TryDequeue(c) \/ Consumer(c) PROVE BlockType'
    BY <1>1, <1>3, MoveElementBlocks, SetEmptyBlocks, ReleaseBlocks
    DEF TryDequeue, Consumer, SizeTail, SizeHead, LooksEmpty, LoadTail,
        LoadOvercommit, CheckCount, CountDequeue, Recheck, Overcommit, Claim, LoadHeader,
        LoadIndexTail, LoadTailKey, Unlink
  <1>4. CASE AddProducer \/ Finished \/ UNCHANGED vars
    BY <1>1, <1>4 DEF AddProducer, Finished, vars
  <1>5. ASSUME NEW n \in 1..MaxBatch, EnqueueBulk(n) PROVE BlockType'
    BY <1>1, <1>5 DEF EnqueueBulk
  <1>6. CASE Destroy
    BY <1>6, DestroyBlocks
  <1> QED
    BY <1>2, <1>3, <1>4, <1>5, <1>6 DEF Next

\* An element is enqueued only after the block index exists.
HeaderReady == \A c \in Consumers : co[c].pc = "header" => index.headers # <<>>

LEMMA LoadedNext ==
  ASSUME TypeInv, ProducerInv, HeaderReady, [Next]_vars
  PROVE  LoadedOK'
  <1> DEFINE L(C, I, c) ==
               /\ C[c].pc \in {"slot", "key"} => C[c].header \in 1..Len(I.headers)
               /\ C[c].pc = "key" =>
                     C[c].slot \in 0..(I.headers[C[c].header].capacity - 1)
               /\ C[c].pc \in {"value", "set_empty", "unlink"} =>
                     C[c].entry \in 1..Len(I.entries)
  <1>0. /\ IsIndex(index) /\ Len(index.headers) \in Nat /\ Len(index.entries) \in Nat
        /\ \A c \in Consumers : L(co, index, c)
    BY DEF TypeInv, IsIndex, LoadedOK
  <1>1. ASSUME NEW I, IsIndex(I), Len(index.headers) <= Len(I.headers),
               Len(index.entries) <= Len(I.entries),
               \A h \in 1..Len(index.headers) :
                  I.headers[h].capacity = index.headers[h].capacity,
               NEW C, NEW c \in Consumers, C[c] = co[c]
        PROVE  L(C, I, c)
    <2>1. Len(I.headers) \in Nat /\ Len(I.entries) \in Nat
      BY <1>1 DEF IsIndex
    <2>2. 1..Len(index.headers) \subseteq 1..Len(I.headers)
          /\ 1..Len(index.entries) \subseteq 1..Len(I.entries)
      BY <1>0, <1>1, <2>1
    <2>3. L(co, index, c)
      BY <1>0
    <2>4. \A h \in 1..Len(index.headers) : 0..(index.headers[h].capacity - 1) = 0..(I.headers[h].capacity - 1)
      BY <1>1
    <2> QED
      BY <1>1, <2>2, <2>3, <2>4
  <1>2. /\ IsIndex(index') /\ Len(index.headers) <= Len(index'.headers)
        /\ Len(index.entries) <= Len(index'.entries)
        /\ \A h \in 1..Len(index.headers) :
              index'.headers[h].capacity = index.headers[h].capacity
    BY IndexTypeNext
  <1>3. CASE UNCHANGED co
    BY <1>1, <1>2, <1>3 DEF LoadedOK
  <1>4. ASSUME NEW c \in Consumers, OthersStay(c), L(co', index', c) PROVE LoadedOK'
    <2>1. \A d \in Consumers : L(co', index', d)
      BY <1>1, <1>2, <1>4 DEF OthersStay
    <2> QED
      BY <2>1 DEF LoadedOK
  <1>5. ASSUME NEW c \in Consumers, OthersStay(c),
               co'[c].pc \notin {"slot", "key", "value", "set_empty", "unlink"}
        PROVE  LoadedOK'
    BY <1>4, <1>5
  <1>6. ASSUME NEW c \in Consumers, LoadHeader(c) PROVE LoadedOK'
    <2>1. Len(index.headers) \in 1..Len(index.headers)
      BY <1>0, <1>6, HeaderFacts, LoadHeaderFields DEF HeaderReady
    <2> QED
      BY <1>4, <1>6, <2>1, LoadHeaderFields
  <1>7. ASSUME NEW c \in Consumers, LoadIndexTail(c) PROVE LoadedOK'
    <2>1. PICK h \in 1..Len(index.headers) : h = co[c].header
      BY <1>0, <1>7, LoadIndexTailFields
    <2>2. index.headers[h].tail \in 0..(index.headers[h].capacity - 1)
      BY <1>0, HeaderAt
    <2> QED
      BY <1>4, <1>7, <2>1, <2>2, LoadIndexTailFields
  <1>8. ASSUME NEW c \in Consumers, LoadTailKey(c) PROVE LoadedOK'
    <2>1. co[c].pc = "key"
      BY <1>8 DEF LoadTailKey, Step
    <2>2. LoadedEntry(c) \in 1..Len(index.entries)
      BY <2>1, LoadedEntryType
    <2> QED
      BY <1>4, <1>8, <2>2, LoadTailKeyFields
  <1>9. ASSUME NEW c \in Consumers, MoveElement(c) PROVE LoadedOK'
    BY <1>0, <1>4, <1>9, MoveElementFields
  <1>10. ASSUME NEW c \in Consumers, SetEmpty(c) PROVE LoadedOK'
    BY <1>0, <1>4, <1>5, <1>10, SetEmptyFields
  <1>11. ASSUME NEW c \in Consumers, TryDequeue(c) \/ Consumer(c) PROVE LoadedOK'
    <2>1. CASE LooksEmpty(c)
      BY <1>5, <2>1, LooksEmptyFields
    <2>2. CASE Overcommit(c)
      BY <1>5, <2>2, OvercommitFields
    <2>3. CASE TryDequeue(c) \/ SizeTail(c) \/ SizeHead(c) \/ LoadTail(c)
      BY <1>5, <2>3, TryDequeueFields, SizeTailFields, SizeHeadFields, LoadTailFields
    <2>4. CASE LoadOvercommit(c) \/ CheckCount(c) \/ CountDequeue(c) \/ Recheck(c)
      BY <1>5, <2>4, LoadOvercommitFields, CheckCountFields, CountDequeueFields,
         RecheckFields
    <2>5. CASE Claim(c) \/ Unlink(c) \/ AddBlockToFreeList(c)
      BY <1>5, <2>5, ClaimFields, UnlinkFields, ReleaseFields
    <2> QED
      BY <1>6, <1>7, <1>8, <1>9, <1>10, <1>11, <2>1, <2>2, <2>3, <2>4, <2>5 DEF Consumer
  <1>12. CASE Producer
    BY <1>3, <1>12 DEF Producer, InsertKey, GrowIndex, InsertFails, InsertTail,
       RequisitionBlock, RequisitionFails, RewindInserted, RewindBlock, EnqueueFails,
       Fill, Publish
  <1>13. CASE AddProducer \/ Destroy \/ Finished \/ UNCHANGED vars
    BY <1>3, <1>13 DEF AddProducer, Destroy, Finished, vars
  <1>14. ASSUME NEW n \in 1..MaxBatch, EnqueueBulk(n) PROVE LoadedOK'
    BY <1>3, <1>14 DEF EnqueueBulk
  <1> QED
    BY <1>11, <1>12, <1>13, <1>14 DEF Next

LEMMA TypeNext ==
  ASSUME TypeInv, ProducerInv, HeaderReady, [Next]_vars
  PROVE  TypeInv'
  <1>1. IsIndex(index')
    BY IndexTypeNext
  <1> QED
    BY <1>1, QTypeNext, BlockTypeNext, PrTypeNext, CoTypeNext, LoadedNext DEF TypeInv

LEMMA TypeInit == Init => TypeInv
  <1> SUFFICES ASSUME Init PROVE TypeInv
    OBVIOUS
  <1>1. QType
    <2>1. q \in [tailIndex : {0}, headIndex : {0}, dequeueOptimisticCount : {0},
                 dequeueOvercommit : {0}, hasProducer : {FALSE}, poolIndex : {0},
                 permits : {0}, destroyed : {FALSE}, byPermit : Disciplines]
      BY DEF Init
    <2>2. {FALSE} \subseteq BOOLEAN /\ {0} \subseteq 0..PoolSize /\ {0} \subseteq Nat
      BY SizesAssumption
    <2> QED
      BY <2>1, <2>2 DEF QType
  <1>2. IsIndex(index)
    BY DEF Init, IsIndex
  <1>3. BlockType
    <2>1. ASSUME NEW b \in Blocks PROVE block[b] \in BlockRec
      <3>1. PICK s \in {"none", "pool", "free", "used"} :
               s = IF b <= PoolSize THEN "pool" ELSE "none"
        OBVIOUS
      <3>2. PICK e \in [0..(BLOCK_SIZE - 1) -> Int] : e = NoElements
        <4>1. NoElements \in [0..(BLOCK_SIZE - 1) -> Int]
          BY DEF NoElements, None
        <4> QED
          BY <4>1
      <3>3. block[b] = [state |-> s, elementsCompletelyDequeued |-> 0, elements |-> e]
        BY <3>1, <3>2 DEF Init, NewBlock
      <3> QED
        BY <3>3 DEF BlockRec
    <2>2. block = [b \in Blocks |-> block[b]]
      BY DEF Init
    <2> QED
      BY <2>1, <2>2 DEF BlockType
  <1>4. PrType
    <2>1. pr = [pc |-> "idle", tailBlock |-> 0, startBlock |-> 0, count |-> 0,
                base |-> 0, chain |-> <<>>, inserted |-> FALSE, undone |-> 0]
      BY DEF Init, null
    <2>2. PICK s \in Seq(Blocks) : s = <<>>
      <3>1. <<>> \in Seq(Blocks)
        OBVIOUS
      <3> QED
        BY <3>1
    <2>3. PICK a \in ProducerPcs : a = "idle"
      BY DEF ProducerPcs
    <2>4. PICK f \in BOOLEAN : f = FALSE
      OBVIOUS
    <2>5. PICK n \in 0..MaxBlocks : n = 0
      BY SizesAssumption
    <2>6. pr = [pc |-> a, tailBlock |-> n, startBlock |-> n, count |-> 0,
                base |-> 0, chain |-> s, inserted |-> f, undone |-> 0]
      BY <2>1, <2>2, <2>3, <2>4, <2>5
    <2> QED
      BY <2>6 DEF PrType, ProducerRec
  <1>5. CoType
    BY IdleLocal DEF Init, CoType
  <1>6. LoadedOK
    BY DEF Init, IdleConsumer, LoadedOK
  <1> QED
    BY <1>1, <1>2, <1>3, <1>4, <1>5, <1>6 DEF TypeInv

-----------------------------------------------------------------------------
(***************************************************************************)
(* The numbers of the blocks that an enqueue needs                         *)
(***************************************************************************)

FilledNo == LastNo + Len(pr.chain)
FinalNo  == No(q.tailIndex + pr.count - 1)

LEMMA NoMono ==
  ASSUME NEW i \in Int, NEW j \in Int, i <= j
  PROVE  No(i) <= No(j)
  <1>1. No(i) \in Int /\ No(j) \in Int /\ KeyOf(No(i)) <= i /\ j < KeyOf(No(j)) + BLOCK_SIZE
    BY NoFacts
  <1>2. No(j) < No(i) => KeyOf(No(j)) + BLOCK_SIZE <= KeyOf(No(i))
    BY <1>1, KeyMono
  <1>3. KeyOf(No(i)) \in Int /\ KeyOf(No(j)) \in Int /\ BLOCK_SIZE \in Int
    BY <1>1, KeyType
  <1> QED
    BY <1>1, <1>2, <1>3

LEMMA ModAdd ==
  ASSUME NEW a \in Int, NEW b \in Int
  PROVE  ((a % IndexMod) + b) % IndexMod = (a + b) % IndexMod
  <1>0. IndexMod \in Nat /\ IndexMod > 0
    BY SizesAssumption
  <1>1. PICK j \in Int, r \in 0..(IndexMod - 1) : a = IndexMod * j + r /\ a % IndexMod = r
    BY <1>0, DivMod
  <1>2. a + b = (r + b) + IndexMod * j /\ r + b \in Int
    BY <1>0, <1>1
  <1>3. ((r + b) + IndexMod * j) % IndexMod = (r + b) % IndexMod
    BY <1>0, <1>2, ModPeriod
  <1> QED
    BY <1>1, <1>2, <1>3

LEMMA ModSmall ==
  ASSUME NEW a \in Int, 0 <= a, a < IndexMod
  PROVE  a % IndexMod = a
  BY SizesAssumption

\* The block size divides the range of index_t.
LEMMA BlocksPerRange ==
  \E g \in Nat : IndexMod = BLOCK_SIZE * g /\ g > 1 /\ 2 * BLOCK_SIZE <= IndexMod
  <1>0. BLOCK_SIZE \in Nat /\ BLOCK_SIZE > 1 /\ IndexMod \in Nat /\ IndexMod > 0
        /\ IndexMod % (2 * BLOCK_SIZE) = 0
    BY SizesAssumption
  <1>1. PICK n \in Nat : n = 2 * BLOCK_SIZE /\ n > 0
    BY <1>0
  <1>2. IndexMod = n * (IndexMod \div n) + (IndexMod % n) /\ IndexMod \div n \in Int
    BY <1>0, <1>1, DivMod
  <1>3. PICK j \in Int : IndexMod = n * j
    BY <1>0, <1>1, <1>2
  <1>4. j > 0
    <2>1. CASE j <= 0
      <3>1. n * j <= 0
        BY <1>1, <2>1
      <3> QED
        BY <1>0, <1>3, <3>1
    <2> QED
      BY <2>1
  <1>5. 2 * j \in Nat /\ IndexMod = BLOCK_SIZE * (2 * j) /\ 2 * j > 1
    BY <1>0, <1>1, <1>3, <1>4
  <1>6. n <= n * j
    BY <1>1, <1>4
  <1> QED
    BY <1>1, <1>3, <1>5, <1>6

LEMMA BaseNo ==
  ASSUME NEW i \in Int
  PROVE  Base(i) = KeyOf(No(i)) % IndexMod
  <1>0. BLOCK_SIZE \in Nat /\ BLOCK_SIZE > 1 /\ IndexMod \in Nat /\ IndexMod > 0
    BY SizesAssumption
  <1>1. PICK g \in Nat : IndexMod = BLOCK_SIZE * g
    BY BlocksPerRange
  <1>2. PICK j \in Int, r \in 0..(IndexMod - 1) : i = IndexMod * j + r /\ i % IndexMod = r
    BY <1>0, DivMod
  <1>3. PICK x \in Int, s \in 0..(BLOCK_SIZE - 1) :
           /\ x = No(r) /\ r = KeyOf(x) + s /\ KeyOf(x) <= r /\ x >= 0
    BY <1>2, NoFacts
  <1>4. KeyOf(x) \in Nat /\ KeyOf(x) = BLOCK_SIZE * x
    <2>1. KeyOf(x) \in Nat
      BY <1>3, KeyType
    <2> QED
      BY <2>1 DEF KeyOf
  <1>5. PICK y \in Int : y = g * j
    BY <1>1
  <1>6. IndexMod * j = BLOCK_SIZE * y
    BY <1>0, <1>1, <1>5
  <1>7. i = BLOCK_SIZE * (y + x) + s
    BY <1>0, <1>2, <1>3, <1>4, <1>6
  <1>8. No(i) = y + x
    BY <1>0, <1>7, DivModUnique DEF No
  <1>9. KeyOf(No(i)) = KeyOf(x) + IndexMod * j
    BY <1>0, <1>4, <1>6, <1>8 DEF KeyOf
  <1>10. KeyOf(No(i)) % IndexMod = KeyOf(x) % IndexMod
    <2>1. PICK k \in Int : k = KeyOf(x)
      BY <1>4
    <2>2. (k + IndexMod * j) % IndexMod = k % IndexMod
      BY <1>0, ModPeriod
    <2> QED
      BY <1>9, <2>1, <2>2
  <1>11. KeyOf(x) % IndexMod = KeyOf(x)
    BY <1>0, <1>2, <1>3, <1>4, ModSmall
  <1>12. Base(i) = No(r) * BLOCK_SIZE
    BY <1>2 DEF Base, No
  <1>13. Base(i) = KeyOf(x)
    BY <1>0, <1>3, <1>12 DEF KeyOf
  <1> QED
    BY <1>10, <1>11, <1>13

\* ... of an index in range.
LEMMA BaseInRange ==
  ASSUME NEW i \in Int, 0 <= i, i < IndexMod
  PROVE  Base(i) = KeyOf(No(i))
  <1>1. /\ KeyOf(No(i)) <= i /\ No(i) >= 0 /\ No(i) \in Int
    BY NoFacts
  <1>2. KeyOf(No(i)) \in Nat
    BY <1>1, KeyType
  <1>3. KeyOf(No(i)) % IndexMod = KeyOf(No(i))
    BY <1>1, <1>2, ModSmall, SizesAssumption
  <1> QED
    BY <1>3, BaseNo

LEMMA ProducerFacts ==
  ASSUME TypeInv, ProducerInv
  PROVE  /\ q.tailIndex \in Nat /\ pr.count \in Nat
         /\ 2 * (q.tailIndex + pr.count) < IndexMod
         /\ LastNo \in Int /\ LastNo >= -1 /\ (q.tailIndex > 0 => LastNo >= 0)
         /\ (q.tailIndex = 0 => LastNo = -1)
         /\ Len(pr.chain) \in Nat /\ FilledNo \in Int /\ FinalNo \in Int
         /\ LastNo <= FinalNo
         /\ Base(start - 1) = KeyOf(LastNo) % IndexMod
         /\ pr.pc # "idle" => LastBase = KeyOf(FinalNo)
         /\ pr.pc \in {"index", "tail", "requisition"} =>
               NextBase = KeyOf(FilledNo + 1) /\ FilledNo + 1 >= 0
  <1>1. q.tailIndex \in Nat /\ pr.count \in Nat /\ pr.chain \in Seq(Blocks)
    BY DEF TypeInv, QType, PrType, ProducerRec
  <1>2. 2 * (q.tailIndex + pr.count) < IndexMod
    <2>1. q.byPermit \in Disciplines
      BY DEF TypeInv, QType
    <2>2. PICK m \in Nat : m = MaxIndex[q.byPermit] /\ 2 * m < IndexMod
      BY <2>1, BoundsFacts
    <2>3. q.tailIndex + pr.count <= m
      BY <2>2 DEF ProducerInv
    <2> QED
      BY <1>1, <2>2, <2>3, SizesAssumption
  <1>3. PICK t \in Int, u \in Int : t = q.tailIndex - 1 /\ u = q.tailIndex + pr.count - 1
    BY <1>1
  <1>4. LastNo \in Int
    BY <1>3, NoFacts DEF LastNo
  <1>5. q.tailIndex > 0 => LastNo >= 0
    <2>1. t >= 0 => No(t) >= 0
      BY NoFacts
    <2> QED
      BY <1>3, <1>1, <2>1 DEF LastNo
  <1>6. q.tailIndex = 0 => LastNo = -1
    <2>1. KeyOf(-1) = -BLOCK_SIZE /\ BLOCK_SIZE \in Nat /\ BLOCK_SIZE > 1
      BY SizesAssumption DEF KeyOf
    <2>2. No(-1) = -1
      BY <2>1, NoUnique
    <2> QED
      BY <2>2 DEF LastNo
  <1>7. Len(pr.chain) \in Nat /\ FilledNo \in Int
    BY <1>1, <1>4 DEF FilledNo
  <1>8. FinalNo \in Int
    BY <1>3, NoFacts DEF FinalNo
  <1>9. LastNo <= FinalNo
    BY <1>1, NoMono DEF LastNo, FinalNo
  <1>10. Base(start - 1) = KeyOf(LastNo) % IndexMod
    BY <1>1, BaseNo DEF start, LastNo
  <1>11. ASSUME pr.pc # "idle" PROVE LastBase = KeyOf(FinalNo)
    <2>1. pr.count > 0
      BY <1>11 DEF ProducerInv
    <2>2. 0 <= q.tailIndex + pr.count - 1 /\ q.tailIndex + pr.count - 1 < IndexMod
      BY <1>1, <1>2, <2>1, SizesAssumption
    <2> QED
      BY <1>1, <2>2, BaseInRange DEF LastBase, FinalNo, start
  <1>12. ASSUME pr.pc \in {"index", "tail", "requisition"}
         PROVE  NextBase = KeyOf(FilledNo + 1) /\ FilledNo + 1 >= 0
    <2>1. FilledNo < FinalNo /\ pr.base = KeyOf(FilledNo) % IndexMod
      BY <1>12 DEF ProducerInv, FilledNo, FinalNo
    <2>2. FilledNo + 1 >= 0
      BY <1>4, <1>5, <1>6, <1>1, <1>7 DEF FilledNo
    <2>3. KeyOf(FilledNo) \in Int /\ KeyOf(FilledNo + 1) = KeyOf(FilledNo) + BLOCK_SIZE
      BY <1>7, KeyType
    <2>4. NextBase = KeyOf(FilledNo + 1) % IndexMod
      <3>1. PICK k \in Int, b \in Int : k = KeyOf(FilledNo) /\ b = BLOCK_SIZE
        BY <2>3, SizesAssumption
      <3>2. ((k % IndexMod) + b) % IndexMod = (k + b) % IndexMod
        BY ModAdd
      <3> QED
        BY <2>1, <2>3, <3>1, <3>2 DEF NextBase
    <2>5. KeyOf(FilledNo + 1) \in Nat
      <3>1. FilledNo + 1 \in Int
        BY <1>7
      <3> QED
        BY <2>2, <3>1, KeyType
    <2>6. KeyOf(FilledNo + 1) <= KeyOf(FinalNo)
      <3>1. FilledNo + 1 \in Int /\ FilledNo + 1 <= FinalNo
        BY <1>7, <1>8, <2>1
      <3> QED
        BY <1>8, <3>1, KeyMono
    <2>7. KeyOf(FinalNo) <= q.tailIndex + pr.count - 1 /\ KeyOf(FinalNo) \in Int
      <3>1. KeyOf(No(u)) <= u
        BY NoFacts
      <3> QED
        BY <1>3, <1>8, <3>1, KeyType DEF FinalNo
    <2>8. KeyOf(FilledNo + 1) < IndexMod
      BY <1>1, <1>2, <2>5, <2>6, <2>7, SizesAssumption
    <2> QED
      BY <2>2, <2>4, <2>5, <2>8, ModSmall
  <1>13. LastNo >= -1
    BY <1>1, <1>4, <1>5, <1>6
  <1> QED
    BY <1>1, <1>2, <1>4, <1>5, <1>6, <1>7, <1>8, <1>9, <1>10, <1>11, <1>12, <1>13

\* The block index is never empty again, and its producer exists.
LEMMA IndexStays ==
  ASSUME TypeInv, ProducerInv, [Next]_vars
  PROVE  /\ index.headers # <<>> => index'.headers # <<>>
         /\ index'.headers = <<>> => index' = index
         /\ index'.headers # <<>> => index.headers # <<>> \/ q'.hasProducer
         /\ q.hasProducer => q'.hasProducer
  <1>0. IsIndex(index) /\ IsIndex(index') /\ Len(index.headers) <= Len(index'.headers)
    BY IndexTypeNext DEF TypeInv
  <1>1. Len(index.headers) \in Nat /\ Len(index'.headers) \in Nat
    BY <1>0 DEF IsIndex
  <1>2. index.headers # <<>> => index'.headers # <<>>
    <2>1. index.headers # <<>> => Len(index.headers) > 0
      BY <1>0, HeaderFacts, <1>1
    <2>2. index'.headers = <<>> => Len(index'.headers) = 0
      OBVIOUS
    <2> QED
      BY <1>0, <1>1, <2>1, <2>2
  <1>3. index.headers # <<>> \/ index' = index \/ (AddProducer /\ index' = FirstIndex)
    <2>1. CASE Producer
      <3>1. CASE RewindBlock
        <4>1. pr.chain # <<>>
          <5>1. pr.undone < Len(pr.chain) /\ pr.undone \in Nat
            BY <3>1 DEF RewindBlock, TypeInv, PrType, ProducerRec
          <5>2. pr.chain = <<>> => Len(pr.chain) = 0
            OBVIOUS
          <5> QED
            BY <5>1, <5>2
        <4> QED
          BY <4>1 DEF ProducerInv
      <3>2. CASE InsertTail \/ RewindInserted \/ \E b \in Blocks : RequisitionBlock(b)
        BY <3>2 DEF InsertTail, RewindInserted, RequisitionBlock, ProducerInv
      <3> QED
        BY <2>1, <3>1, <3>2 DEF Producer, InsertKey, GrowIndex, MayInsert, InsertFails,
           RequisitionFails, EnqueueFails, Fill, Publish
    <2>2. ASSUME NEW c \in Consumers, Unlink(c) PROVE index.headers # <<>>
      <3>1. co[c].entry \in 1..Len(index.entries)
        BY <2>2 DEF Unlink, Step, TypeInv, LoadedOK
      <3>2. index.entries = <<>> => 1..Len(index.entries) = {}
        OBVIOUS
      <3> QED
        BY <3>1, <3>2 DEF ProducerInv
    <2>3. ASSUME NEW c \in Consumers, TryDequeue(c) \/ Consumer(c)
          PROVE  index.headers # <<>> \/ index' = index
      BY <2>2, <2>3
      DEF TryDequeue, Consumer, SizeTail, SizeHead, LooksEmpty, LoadTail,
        LoadOvercommit, CheckCount, CountDequeue, Recheck, Overcommit, Claim, LoadHeader,
        LoadIndexTail, LoadTailKey, MoveElement, SetEmpty, AddBlockToFreeList
    <2>4. CASE AddProducer \/ Destroy \/ Finished \/ UNCHANGED vars
      BY <2>4 DEF AddProducer, Destroy, Finished, vars
    <2>5. ASSUME NEW n \in 1..MaxBatch, EnqueueBulk(n) PROVE index' = index
      BY <2>5 DEF EnqueueBulk
    <2> QED
      BY <2>1, <2>3, <2>4, <2>5 DEF Next
  <1>4. ASSUME AddProducer PROVE q'.hasProducer
    BY <1>4 DEF AddProducer, TypeInv, QType
  <1>5. q.hasProducer => q'.hasProducer
    <2>1. CASE q' = q
      BY <2>1
    <2>2. CASE Producer
      BY <2>1, <2>2 DEF Producer, InsertKey, GrowIndex, InsertFails, InsertTail,
         RequisitionBlock, RequisitionFails, RewindInserted, RewindBlock, EnqueueFails,
         Fill, Publish, TypeInv, QType
    <2>3. ASSUME NEW c \in Consumers, TryDequeue(c) \/ Consumer(c)
          PROVE  q.hasProducer => q'.hasProducer
      <3>1. CASE CountDequeue(c) \/ Overcommit(c) \/ Claim(c) \/ TryDequeue(c)
        BY <3>1 DEF CountDequeue, Overcommit, Claim, TryDequeue, TypeInv, QType
      <3> QED
        BY <2>1, <2>3, <3>1
        DEF Consumer, SizeTail, SizeHead, LooksEmpty, LoadTail,
          LoadOvercommit, CheckCount, Recheck, LoadHeader,
          LoadIndexTail, LoadTailKey, MoveElement, SetEmpty, Unlink, AddBlockToFreeList
    <2>4. CASE AddProducer \/ Destroy \/ Finished \/ UNCHANGED vars
      BY <1>4, <2>1, <2>4 DEF Destroy, Finished, vars, TypeInv, QType
    <2>5. ASSUME NEW n \in 1..MaxBatch, EnqueueBulk(n) PROVE q' = q
      BY <2>5 DEF EnqueueBulk
    <2> QED
      BY <2>1, <2>2, <2>3, <2>4, <2>5 DEF Next
  <1>6. index.headers # <<>> \/ index' = index \/ index'.headers # <<>>
    <2>1. Len(FirstIndex.headers) = 1
      BY FirstIndexType
    <2>2. FirstIndex.headers = <<>> => Len(FirstIndex.headers) = 0
      OBVIOUS
    <2> QED
      BY <1>3, <2>1, <2>2
  <1> QED
    BY <1>2, <1>3, <1>4, <1>5, <1>6

LEMMA DestroyedStays == ASSUME TypeInv, ProducerInv, [Next]_vars, q.destroyed PROVE UNCHANGED vars
  <1>1. Quiet
    BY DEF ProducerInv
  <1>2. ~Producer
    BY <1>1 DEF Quiet, Producer, InsertKey, MayInsert, GrowIndex, InsertFails, InsertTail,
       RequisitionBlock, RequisitionFails, RewindInserted, RewindBlock, EnqueueFails,
       Fill, Publish
  <1>3. ASSUME NEW c \in Consumers PROVE ~TryDequeue(c) /\ ~Consumer(c)
    BY <1>1 DEF Quiet, TryDequeue, Consumer, Step, SizeTail, SizeHead, LooksEmpty, LoadTail,
        LoadOvercommit, CheckCount, CountDequeue, Recheck, Overcommit, Claim, LoadHeader,
        LoadIndexTail, LoadTailKey, MoveElement, SetEmpty, Unlink, AddBlockToFreeList
  <1> QED
    BY <1>2, <1>3 DEF Next, AddProducer, EnqueueBulk, Destroy, Finished

\* What ProducerInv says of the producer itself: p is its state, t the tail.
Enqueuing(p, t) ==
    /\ p.pc = "idle" => p.count = 0 /\ p.chain = <<>>
    /\ p.pc # "idle" => p.count > 0
    /\ p.inserted => p.pc \in {"requisition", "rollback"}
    /\ p.pc = "requisition" => p.inserted
    /\ p.undone <= Len(p.chain)
    /\ p.undone > 0 => p.pc = "rollback" /\ ~p.inserted
    /\ p.pc \in {"index", "tail", "requisition"} =>
          /\ No(t - 1) + Len(p.chain) < No(t + p.count - 1)
          /\ p.base = KeyOf(No(t - 1) + Len(p.chain)) % IndexMod
    /\ p.pc = "rollback" =>
          No(t - 1) + Len(p.chain) < No(t + p.count - 1)
    /\ p.pc \in {"fill", "publish"} =>
          No(t - 1) + Len(p.chain) = No(t + p.count - 1)
    /\ p.pc # "idle" =>
          p.tailBlock = IF p.chain = <<>> THEN p.startBlock
                                          ELSE p.chain[Len(p.chain)]

\* The block index exists when the producer needs it.
Indexed(p, t, I) ==
    t > 0 \/ p.chain # <<>> \/ p.inserted \/ p.pc = "tail" => I.headers # <<>>

LEMMA ProducerInvParts ==
  ProducerInv <=>
    /\ q.tailIndex + pr.count <= MaxIndex[q.byPermit]
    /\ Enqueuing(pr, q.tailIndex)
    /\ Indexed(pr, q.tailIndex, index)
    /\ index.headers # <<>> => q.hasProducer
    /\ index.headers = <<>> => index.entries = <<>>
    /\ q.destroyed => Quiet
  BY DEF ProducerInv, Enqueuing, Indexed, LastNo

LEMMA EnqueuingNext ==
  ASSUME TypeInv, ProducerInv, Producer \/ \E n \in 1..MaxBatch : EnqueueBulk(n)
  PROVE  /\ Enqueuing(pr', q'.tailIndex) /\ Indexed(pr', q'.tailIndex, index)
         /\ q'.tailIndex + pr'.count <= MaxIndex[q'.byPermit]
         /\ \/ q'.tailIndex = q.tailIndex
            \/ Publish /\ q'.tailIndex = q.tailIndex + pr.count
         /\ q'.byPermit = q.byPermit /\ q'.destroyed = q.destroyed
         /\ q'.headIndex = q.headIndex
         /\ q'.dequeueOvercommit = q.dequeueOvercommit
         /\ q'.dequeueOptimisticCount = q.dequeueOptimisticCount
  <1> DEFINE Stays == /\ q'.tailIndex = q.tailIndex /\ q'.byPermit = q.byPermit
                      /\ q'.destroyed = q.destroyed /\ q'.headIndex = q.headIndex
                      /\ q'.dequeueOvercommit = q.dequeueOvercommit
                      /\ q'.dequeueOptimisticCount = q.dequeueOptimisticCount
             Good == /\ Enqueuing(pr', q'.tailIndex) /\ Indexed(pr', q'.tailIndex, index)
                     /\ q'.tailIndex + pr'.count <= MaxIndex[q'.byPermit]
  <1>0. PICK t \in Nat : t = q.tailIndex
    BY DEF TypeInv, QType
  <1>1. Enqueuing(pr, t) /\ Indexed(pr, t, index) /\ t + pr.count <= MaxIndex[q.byPermit]
    BY <1>0, ProducerInvParts
  <1>2. /\ pr.chain \in Seq(Blocks) /\ Len(pr.chain) \in Nat /\ pr.count \in Nat
        /\ pr.undone \in Nat /\ pr.inserted \in BOOLEAN
    BY DEF TypeInv, PrType, ProducerRec
  <1>3. PICK x \in Int, y \in Int : x = No(t - 1) /\ y = FinalNo
    BY <1>0, ProducerFacts DEF LastNo
  <1>4. ASSUME NEW n \in 1..MaxBatch, EnqueueBulk(n) PROVE Good /\ Stays
    <2>0. Stays /\ n \in Nat /\ n > 0
      <3>1. Stays
        BY <1>4 DEF EnqueueBulk
      <3>2. n \in Nat /\ n > 0
        BY SizesAssumption
      <3> QED
        BY <3>1, <3>2
    <2>1. t + n <= MaxIndex[q.byPermit] /\ 2 * (t + n) < IndexMod
      <3>1. q.byPermit \in Disciplines
        BY DEF TypeInv, QType
      <3>2. t + n <= MaxIndex[q.byPermit]
        BY <1>0, <1>4 DEF EnqueueBulk, start
      <3> QED
        BY <1>0, <2>0, <3>1, <3>2, BoundsFacts, SizesAssumption
    <2>2. /\ pr'.pc = IF Base(start - 1) = Base(start + n - 1) THEN "fill" ELSE "index"
          /\ pr'.tailBlock = pr.tailBlock /\ pr'.startBlock = pr.tailBlock
          /\ pr'.count = n /\ pr'.base = Base(start - 1) /\ pr'.chain = <<>>
          /\ ~pr'.inserted /\ pr'.undone = 0
      BY <1>4, EnqueueBulkFields
    <2>3. Base(start - 1) = KeyOf(x) % IndexMod /\ x >= -1 /\ (t > 0 => x >= 0)
      BY <1>0, <1>3, ProducerFacts DEF LastNo
    <2>4. PICK u \in Int : u = t + n - 1 /\ 0 <= u /\ u < IndexMod /\ t - 1 <= u
      BY <1>0, <2>0, <2>1, SizesAssumption
    <2>5. PICK z \in Int : z = No(u) /\ x <= z /\ z >= 0 /\ KeyOf(z) <= u /\ Base(u) = KeyOf(z)
      <3>1. No(u) \in Int /\ No(u) >= 0 /\ KeyOf(No(u)) <= u
        BY <2>4, NoFacts
      <3>2. t - 1 \in Int
        BY <1>0
      <3> QED
        BY <1>3, <2>4, <3>1, <3>2, NoMono, BaseInRange
    <2>6. KeyOf(x) % IndexMod = KeyOf(z) <=> x = z
      <3>1. KeyOf(x) \in Int /\ KeyOf(z) \in Nat
        BY <2>5, KeyType
      <3>2. CASE x >= 0
        <4>1. KeyOf(x) \in Nat /\ KeyOf(x) <= KeyOf(z)
          BY <2>5, <3>2, KeyType, KeyMono
        <4>2. KeyOf(x) % IndexMod = KeyOf(x)
          BY <2>4, <2>5, <3>1, <4>1, ModSmall, SizesAssumption
        <4> QED
          BY <4>2, KeyMono
      <3>3. CASE x < 0
        <4>1. x = -1
          BY <2>3, <3>3
        <4>2. KeyOf(x) = -BLOCK_SIZE
          BY <4>1, SizesAssumption DEF KeyOf
        <4>3. 2 * BLOCK_SIZE <= IndexMod
          BY BlocksPerRange
        <4>4. (-BLOCK_SIZE) % IndexMod = IndexMod - BLOCK_SIZE
          BY <4>3, SizesAssumption
        <4>5. IndexMod - BLOCK_SIZE > u
          BY <4>3, <2>1, <2>4, <2>0, SizesAssumption
        <4> QED
          BY <2>5, <3>1, <3>3, <4>2, <4>4, <4>5, SizesAssumption
      <3> QED
        BY <3>2, <3>3
    <2>7. Base(start + n - 1) = KeyOf(z)
      BY <1>0, <2>4, <2>5 DEF start
    <2>8. (pr'.pc = "fill" /\ x = z) \/ (pr'.pc = "index" /\ x < z)
      BY <2>2, <2>3, <2>5, <2>6, <2>7
    <2>9. Len(pr'.chain) = 0 /\ No(t + pr'.count - 1) = z
      BY <2>2, <2>4, <2>5
    <2>10. Enqueuing(pr', t)
      BY <1>3, <2>0, <2>2, <2>3, <2>8, <2>9 DEF Enqueuing
    <2>11. Indexed(pr', t, index)
      BY <1>1, <2>2, <2>8 DEF Indexed
    <2> QED
      BY <1>0, <2>0, <2>1, <2>2, <2>10, <2>11
  <1>5. CASE InsertKey
    <2>1. Stays /\ MayInsert
      BY <1>5 DEF InsertKey
    <2>2. /\ pr'.pc = "tail" /\ pr'.tailBlock = pr.tailBlock /\ pr'.startBlock = pr.startBlock
          /\ pr'.count = pr.count /\ pr'.base = pr.base /\ pr'.chain = pr.chain
          /\ pr'.inserted = pr.inserted /\ pr'.undone = pr.undone
      BY <1>5, InsertKeyFields
    <2>3. Enqueuing(pr', t)
      BY <1>1, <2>1, <2>2 DEF Enqueuing, MayInsert
    <2>4. Indexed(pr', t, index)
      BY <1>1, <2>1 DEF Indexed, MayInsert
    <2> QED
      BY <1>0, <1>1, <2>1, <2>2, <2>3, <2>4
  <1>6. CASE GrowIndex
    BY <1>0, <1>1, <1>6 DEF GrowIndex
  <1>7. CASE InsertFails \/ RequisitionFails
    <2>1. Stays /\ pr.pc \in {"index", "requisition"}
      BY <1>7 DEF InsertFails, RequisitionFails
    <2>2. /\ pr'.pc = "rollback" /\ pr'.tailBlock = pr.tailBlock /\ pr'.startBlock = pr.startBlock
          /\ pr'.count = pr.count /\ pr'.base = pr.base /\ pr'.chain = pr.chain
          /\ pr'.inserted = pr.inserted /\ pr'.undone = pr.undone
      BY <1>7, InsertFailsFields, RequisitionFailsFields
    <2>3. Enqueuing(pr', t)
      BY <1>1, <2>1, <2>2 DEF Enqueuing
    <2>4. Indexed(pr', t, index)
      BY <1>1, <2>2 DEF Indexed
    <2> QED
      BY <1>0, <1>1, <2>1, <2>2, <2>3, <2>4
  <1>8. CASE InsertTail
    <2>1. Stays /\ pr.pc = "tail"
      BY <1>8 DEF InsertTail
    <2>2. /\ pr'.pc = "requisition" /\ pr'.tailBlock = pr.tailBlock
          /\ pr'.startBlock = pr.startBlock
          /\ pr'.count = pr.count /\ pr'.base = pr.base /\ pr'.chain = pr.chain
          /\ pr'.inserted /\ pr'.undone = pr.undone
      BY <1>8, InsertTailFields
    <2>3. Enqueuing(pr', t)
      BY <1>1, <1>2, <2>1, <2>2 DEF Enqueuing
    <2>4. Indexed(pr', t, index)
      BY <1>1, <2>1, <2>2 DEF Indexed
    <2> QED
      BY <1>0, <1>1, <2>1, <2>2, <2>3, <2>4
  <1>9. ASSUME NEW b \in Blocks, RequisitionBlock(b) PROVE Good /\ Stays
    <2>1. Stays /\ pr.pc = "requisition"
      BY <1>9 DEF RequisitionBlock, TypeInv, QType
    <2>2. /\ pr'.pc = IF NextBase = LastBase THEN "fill" ELSE "index"
          /\ pr'.tailBlock = b /\ pr'.startBlock = pr.startBlock
          /\ pr'.count = pr.count /\ pr'.base = NextBase /\ pr'.chain = Append(pr.chain, b)
          /\ ~pr'.inserted /\ pr'.undone = pr.undone
      BY <1>9, RequisitionBlockFields
    <2>3. /\ pr.inserted /\ pr.undone = 0 /\ x + Len(pr.chain) < y /\ pr.count > 0
      BY <1>0, <1>1, <1>2, <1>3, <2>1 DEF Enqueuing, FinalNo
    <2>4. PICK z \in Int : z = x + Len(pr.chain) + 1
      BY <1>2
    <2>5. NextBase = KeyOf(z) /\ LastBase = KeyOf(y) /\ NextBase \in Nat /\ NextBase < IndexMod
      BY <1>0, <1>3, <2>1, <2>4, ProducerFacts, NextBaseType DEF FilledNo, LastNo
    <2>6. KeyOf(z) % IndexMod = KeyOf(z) /\ (KeyOf(z) = KeyOf(y) => z = y)
      BY <2>5, ModSmall, KeyMono
    <2>7. Len(pr'.chain) = Len(pr.chain) + 1 /\ pr'.chain # <<>> /\ pr'.chain[Len(pr'.chain)] = b
      BY <1>2, <2>2
    <2>8. x + Len(pr'.chain) = z /\ z <= y /\ y = No(t + pr'.count - 1)
      <3>1. y = No(t + pr'.count - 1)
        BY <1>0, <1>3, <2>2 DEF FinalNo
      <3>2. PICK l \in Int, m \in Int : l = Len(pr.chain) /\ m = Len(pr'.chain) /\ m = l + 1
        BY <1>2, <2>7
      <3>3. x + l < y /\ z = x + l + 1
        BY <2>3, <2>4, <3>2
      <3>4. x + m = z /\ z <= y
        BY <3>2, <3>3
      <3> QED
        BY <3>1, <3>2, <3>4
    <2>9. (pr'.pc = "fill" /\ z = y) \/ (pr'.pc = "index" /\ z < y)
      BY <2>2, <2>5, <2>6, <2>8
    <2>10. Len(pr'.chain) >= 0 /\ pr'.undone = 0 /\ pr'.count > 0
           /\ pr'.base = KeyOf(z) % IndexMod
      BY <1>2, <2>2, <2>3, <2>5, <2>6, <2>7
    <2>11. Enqueuing(pr', t)
      BY <1>3, <2>2, <2>7, <2>8, <2>9, <2>10 DEF Enqueuing
    <2>12. Indexed(pr', t, index)
      BY <1>1, <2>3 DEF Indexed
    <2> QED
      BY <1>0, <1>1, <2>1, <2>2, <2>11, <2>12
  <1>10. CASE RewindInserted
    <2>1. Stays /\ pr.pc = "rollback" /\ pr.inserted
      BY <1>10 DEF RewindInserted
    <2>2. /\ pr'.pc = pr.pc /\ pr'.tailBlock = pr.tailBlock
          /\ pr'.startBlock = pr.startBlock
          /\ pr'.count = pr.count /\ pr'.base = pr.base /\ pr'.chain = pr.chain
          /\ ~pr'.inserted /\ pr'.undone = pr.undone
      BY <1>10, RewindInsertedFields
    <2>3. Enqueuing(pr', t)
      BY <1>1, <1>2, <2>1, <2>2 DEF Enqueuing
    <2>4. Indexed(pr', t, index)
      BY <1>1, <2>1, <2>2 DEF Indexed
    <2> QED
      BY <1>0, <1>1, <2>1, <2>2, <2>3, <2>4
  <1>11. CASE RewindBlock
    <2>1. Stays /\ pr.pc = "rollback" /\ ~pr.inserted /\ pr.undone < Len(pr.chain)
      BY <1>11 DEF RewindBlock
    <2>2. /\ pr'.pc = pr.pc /\ pr'.tailBlock = pr.tailBlock
          /\ pr'.startBlock = pr.startBlock
          /\ pr'.count = pr.count /\ pr'.base = pr.base /\ pr'.chain = pr.chain
          /\ pr'.inserted = pr.inserted /\ pr'.undone = pr.undone + 1
      BY <1>11, RewindBlockFields
    <2>3. Enqueuing(pr', t)
      BY <1>1, <1>2, <2>1, <2>2 DEF Enqueuing
    <2>4. Indexed(pr', t, index)
      BY <1>1, <2>1, <2>2 DEF Indexed
    <2> QED
      BY <1>0, <1>1, <2>1, <2>2, <2>3, <2>4
  <1>12. CASE EnqueueFails
    <2>1. Stays /\ pr.pc = "rollback" /\ ~pr.inserted
      BY <1>12 DEF EnqueueFails
    <2>2. /\ pr'.pc = "idle" /\ pr'.count = 0 /\ pr'.chain = <<>>
          /\ pr'.inserted = pr.inserted /\ pr'.undone = 0 /\ Len(pr'.chain) = 0
      BY <1>12, EnqueueFailsFields
    <2>3. Enqueuing(pr', t)
      BY <2>1, <2>2 DEF Enqueuing
    <2>4. Indexed(pr', t, index)
      BY <1>1, <2>1, <2>2 DEF Indexed
    <2>5. q'.tailIndex + pr'.count <= MaxIndex[q'.byPermit]
      <3>1. q.byPermit \in Disciplines
        BY DEF TypeInv, QType
      <3>2. MaxIndex[q.byPermit] \in Nat
        BY <3>1, BoundsFacts
      <3> QED
        BY <1>0, <1>1, <1>2, <2>1, <2>2, <3>2
    <2> QED
      BY <1>0, <2>1, <2>3, <2>4, <2>5
  <1>13. CASE Fill
    <2>1. Stays /\ pr.pc = "fill"
      BY <1>13 DEF Fill
    <2>2. /\ pr'.pc = "publish" /\ pr'.tailBlock = pr.tailBlock
          /\ pr'.startBlock = pr.startBlock
          /\ pr'.count = pr.count /\ pr'.base = pr.base /\ pr'.chain = pr.chain
          /\ pr'.inserted = pr.inserted /\ pr'.undone = pr.undone
      BY <1>13, FillFields
    <2>3. Enqueuing(pr', t)
      BY <1>1, <1>2, <2>1, <2>2 DEF Enqueuing
    <2>4. Indexed(pr', t, index)
      BY <1>1, <2>1, <2>2 DEF Indexed
    <2> QED
      BY <1>0, <1>1, <2>1, <2>2, <2>3, <2>4
  <1>14. CASE Publish
    <2>1. pr.pc = "publish" /\ pr.count > 0 /\ ~pr.inserted /\ pr.undone = 0
      BY <1>1, <1>2, <1>14 DEF Publish, Enqueuing
    <2>2. /\ pr'.pc = "idle" /\ pr'.count = 0 /\ pr'.chain = <<>>
          /\ pr'.inserted = pr.inserted /\ pr'.undone = pr.undone /\ Len(pr'.chain) = 0
      BY <1>14, PublishFields
    <2>3. NewTail = t + pr.count
      <3>1. 2 * (t + pr.count) < IndexMod
        BY <1>0, ProducerFacts
      <3>2. t + pr.count \in Int /\ 0 <= t + pr.count /\ t + pr.count < IndexMod
        BY <1>2, <3>1, SizesAssumption
      <3> QED
        BY <1>0, <3>2, ModSmall DEF NewTail, start
    <2>4. /\ q'.tailIndex = t + pr.count
          /\ q'.byPermit = q.byPermit
          /\ q'.destroyed = q.destroyed /\ q'.headIndex = q.headIndex
          /\ q'.dequeueOvercommit = q.dequeueOvercommit
          /\ q'.dequeueOptimisticCount = q.dequeueOptimisticCount
      BY <1>14, <2>3 DEF Publish, TypeInv, QType
    <2>5. Enqueuing(pr', t + pr.count)
      BY <2>1, <2>2 DEF Enqueuing
    <2>6. index.headers # <<>>
      <3>1. t > 0 \/ pr.chain # <<>>
        <4>1. t = 0 => x = -1
          BY <1>0, <1>3, ProducerFacts DEF LastNo
        <4>2. y >= 0
          <5>1. PICK u \in Int : u = q.tailIndex + pr.count - 1 /\ u >= 0
            BY <1>0, <1>2, <2>1
          <5> QED
            BY <1>3, <5>1, NoFacts DEF FinalNo
        <4>3. x + Len(pr.chain) = y
          BY <1>0, <1>1, <1>3, <2>1 DEF Enqueuing, FinalNo
        <4>4. pr.chain = <<>> => Len(pr.chain) = 0
          OBVIOUS
        <4> QED
          BY <1>2, <4>1, <4>2, <4>3, <4>4
      <3> QED
        BY <1>1, <3>1 DEF Indexed
    <2>7. Indexed(pr', t + pr.count, index)
      BY <2>6 DEF Indexed
    <2>8. q'.tailIndex + pr'.count <= MaxIndex[q'.byPermit]
      BY <1>0, <1>1, <1>2, <2>2, <2>4
    <2> QED
      BY <1>0, <1>14, <2>4, <2>5, <2>7, <2>8
  <1> QED
    BY <1>4, <1>5, <1>6, <1>7, <1>8, <1>9, <1>10, <1>11, <1>12, <1>13, <1>14 DEF Producer

\* What the steps of a consumer leave alone.
LEMMA ConsumerFrame ==
  ASSUME TypeInv, NEW c \in Consumers, TryDequeue(c) \/ Consumer(c)
  PROVE  /\ pr' = pr /\ q'.tailIndex = q.tailIndex /\ q'.byPermit = q.byPermit
         /\ q'.hasProducer = q.hasProducer /\ q'.destroyed = q.destroyed
         /\ q'.poolIndex = q.poolIndex
  <1>1. pr' = pr
    BY DEF Consumer, TryDequeue, SizeTail, SizeHead, LooksEmpty, LoadTail,
       LoadOvercommit, CheckCount, CountDequeue, Recheck, Overcommit, Claim, LoadHeader,
       LoadIndexTail, LoadTailKey, MoveElement, SetEmpty, Unlink, AddBlockToFreeList
  <1>2. CASE CountDequeue(c) \/ Overcommit(c) \/ Claim(c) \/ TryDequeue(c)
    BY <1>1, <1>2 DEF CountDequeue, Overcommit, Claim, TryDequeue, TypeInv, QType
  <1>3. CASE q' = q
    BY <1>1, <1>3
  <1> QED
    BY <1>2, <1>3 DEF Consumer, SizeTail, SizeHead, LooksEmpty, LoadTail,
       LoadOvercommit, CheckCount, Recheck, LoadHeader,
       LoadIndexTail, LoadTailKey, MoveElement, SetEmpty, Unlink, AddBlockToFreeList

LEMMA OtherFrame ==
  ASSUME TypeInv, AddProducer \/ Destroy \/ Finished \/ UNCHANGED vars
  PROVE  /\ pr' = pr /\ co' = co
         /\ q'.tailIndex = q.tailIndex /\ q'.byPermit = q.byPermit
         /\ q'.headIndex = q.headIndex
         /\ q'.dequeueOvercommit = q.dequeueOvercommit
         /\ q'.dequeueOptimisticCount = q.dequeueOptimisticCount
         /\ q'.poolIndex = q.poolIndex /\ q'.permits = q.permits
  BY DEF AddProducer, Destroy, Finished, vars, TypeInv, QType

LEMMA ProducerNext == ASSUME TypeInv, ProducerInv, [Next]_vars PROVE ProducerInv'
  <1>0. /\ q.tailIndex + pr.count <= MaxIndex[q.byPermit]
        /\ Enqueuing(pr, q.tailIndex) /\ Indexed(pr, q.tailIndex, index)
        /\ index.headers # <<>> => q.hasProducer
        /\ index.headers = <<>> => index.entries = <<>>
        /\ q.destroyed => Quiet
    BY ProducerInvParts
  <1>1. /\ index.headers # <<>> => index'.headers # <<>>
        /\ index'.headers = <<>> => index' = index
        /\ index'.headers # <<>> => index.headers # <<>> \/ q'.hasProducer
        /\ q.hasProducer => q'.hasProducer
    BY IndexStays
  <1>2. /\ index'.headers # <<>> => q'.hasProducer
        /\ index'.headers = <<>> => index'.entries = <<>>
    BY <1>0, <1>1
  <1> DEFINE TailKept == /\ q'.tailIndex + pr'.count <= MaxIndex[q'.byPermit]
                         /\ Enqueuing(pr', q'.tailIndex) /\ Indexed(pr', q'.tailIndex, index)
             Still == q'.destroyed => pr'.pc = "idle" /\ \A c \in Consumers : co'[c].pc = "idle"
  <1>3. ASSUME Producer \/ \E n \in 1..MaxBatch : EnqueueBulk(n) PROVE TailKept /\ Still
    <2>1. TailKept /\ q'.destroyed = q.destroyed
      BY <1>3, EnqueuingNext
    <2>2. ~q.destroyed
      <3>1. q.destroyed => pr.pc = "idle" /\ UNCHANGED vars
        BY DestroyedStays, <1>0 DEF Quiet
      <3> QED
        BY <1>3, <3>1 DEF Producer, InsertKey, MayInsert, GrowIndex, InsertFails, InsertTail,
           RequisitionBlock, RequisitionFails, RewindInserted, RewindBlock, EnqueueFails,
           Fill, Publish, EnqueueBulk
    <2> QED
      BY <2>1, <2>2
  <1>4. ASSUME NEW c \in Consumers, TryDequeue(c) \/ Consumer(c) PROVE TailKept /\ Still
    <2>1. /\ pr' = pr /\ q'.tailIndex = q.tailIndex /\ q'.byPermit = q.byPermit
          /\ q'.destroyed = q.destroyed
      BY <1>4, ConsumerFrame
    <2>2. q.destroyed => pr' = pr /\ co' = co
      BY DestroyedStays DEF vars
    <2> QED
      BY <1>0, <2>1, <2>2 DEF Quiet
  <1>5. CASE AddProducer \/ Destroy \/ Finished \/ UNCHANGED vars
    <2>1. /\ pr' = pr /\ co' = co /\ q'.tailIndex = q.tailIndex /\ q'.byPermit = q.byPermit
      BY <1>5, OtherFrame
    <2>2. q'.destroyed => Quiet
      <3>1. CASE Destroy
        BY <3>1 DEF Destroy
      <3>2. CASE ~Destroy
        BY <1>0, <1>5, <3>2 DEF AddProducer, Finished, vars, TypeInv, QType
      <3> QED
        BY <3>1, <3>2
    <2>3. TailKept /\ Still
      BY <1>0, <2>1, <2>2 DEF Quiet
    <2>4. (q.destroyed => Quiet)'
      BY <2>3 DEF Quiet
    <2>5. Indexed(pr', q'.tailIndex, index')
      BY <1>1, <2>3 DEF Indexed
    <2> QED
      BY <1>2, <2>3, <2>4, <2>5 DEF ProducerInv, Enqueuing, Indexed, LastNo
  <1>6. CASE TailKept /\ Still
    <2>1. (q.destroyed => Quiet)'
      BY <1>6 DEF Quiet
    <2>2. Indexed(pr', q'.tailIndex, index')
      BY <1>1, <1>6 DEF Indexed
    <2> QED
      BY <1>2, <1>6, <2>1, <2>2 DEF ProducerInv, Enqueuing, Indexed, LastNo
  <1> HIDE DEF TailKept, Still
  <1> QED
    BY <1>3, <1>4, <1>5, <1>6 DEF Next

LEMMA ProducerInit == Init => TypeInv /\ ProducerInv
  <1> SUFFICES ASSUME Init PROVE ProducerInv
    BY TypeInit
  <1>1. /\ q.tailIndex = 0 /\ q.byPermit \in Disciplines /\ ~q.destroyed
        /\ pr.count = 0 /\ pr.pc = "idle" /\ pr.chain = <<>> /\ ~pr.inserted
        /\ pr.undone = 0
        /\ index.headers = <<>> /\ index.entries = <<>>
    BY DEF Init
  <1>2. MaxIndex[q.byPermit] \in Nat
    BY <1>1, BoundsFacts
  <1>3. Len(pr.chain) = 0
    BY <1>1
  <1> QED
    BY <1>1, <1>2, <1>3 DEF ProducerInv

-----------------------------------------------------------------------------
(***************************************************************************)
(* The counters                                                            *)
(***************************************************************************)

LEMMA LeastNumber ==
  ASSUME NEW S \in SUBSET Nat, S # {}
  PROVE  \E x \in S : \A y \in S : x <= y
  <1>1. PICK x \in S : \A y \in S : ~(<<y, x>> \in OpToRel(<, Nat))
    BY NatLessThanWellFounded, WFMin, Zenon
  <1>2. ASSUME NEW y \in S, y < x PROVE <<y, x>> \in OpToRel(<, Nat)
    BY <1>2 DEF OpToRel
  <1>3. \A y \in S : ~(y < x)
    BY <1>1, <1>2, Zenon
  <1> QED
    BY <1>3

LEMMA Interval0 ==
  ASSUME NEW n \in Nat
  PROVE  IsFiniteSet(0..(n - 1)) /\ Cardinality(0..(n - 1)) = n
  <1>1. PICK m \in Int : m = n - 1
    OBVIOUS
  <1>2. IsFiniteSet(0..m) /\ Cardinality(0..m) = IF 0 > m THEN 0 ELSE m - 0 + 1
    BY FS_Interval
  <1> QED
    BY <1>1, <1>2

\* Numbers that are all less than t, once those of L below them are not
\* counted, are at most t.
LEMMA WonBound ==
  ASSUME NEW D \in Nat, NEW W \in SUBSET (0..(D - 1)), NEW L \in SUBSET (0..(D - 1)),
         W \cap L = {}, NEW t \in Nat,
         \A w \in W : w + 1 - Below(L, w) <= t
  PROVE  Cardinality(W) <= t
  <1>0. /\ IsFiniteSet(0..(D - 1)) /\ Cardinality(0..(D - 1)) = D
        /\ IsFiniteSet(W) /\ IsFiniteSet(L)
    BY Interval0, FS_Subset
  <1>1. CASE W = {}
    BY <1>1, FS_EmptySet
  <1>2. CASE W # {}
    <2> DEFINE S == {D - 1 - w : w \in W}
    <2>1. S \in SUBSET Nat /\ S # {}
      <3>1. \A w \in W : w \in Nat /\ w <= D - 1
        OBVIOUS
      <3>2. \A w \in W : D - 1 - w \in Nat
        BY <3>1
      <3> QED
        BY <1>2, <3>2
    <2>2. PICK s \in S : \A y \in S : s <= y
      BY <2>1, LeastNumber
    <2>3. PICK w \in W : s = D - 1 - w
      OBVIOUS
    <2>4. ASSUME NEW x \in W PROVE x <= w
      <3>1. D - 1 - x \in S /\ x \in Int /\ w \in Int
        OBVIOUS
      <3>2. s <= D - 1 - x
        BY <2>2, <3>1
      <3> QED
        BY <2>3, <3>1, <3>2
    <2>5. w \in Nat /\ w + 1 \in Nat
      OBVIOUS
    <2> DEFINE A == 0..((w + 1) - 1)
               B == L \cap (0..(w - 1))
    <2>6. IsFiniteSet(A) /\ Cardinality(A) = w + 1
      BY <2>5, Interval0
    <2>7. W \subseteq A \ B
      <3>1. \A x \in W : x \in 0..w /\ x \notin L
        BY <2>4, <2>5
      <3>2. A = 0..w
        BY <2>5
      <3> QED
        BY <3>1, <3>2
    <2>8. A \cap B = B
      BY <2>5
    <2> HIDE DEF A, B
    <2>9. /\ IsFiniteSet(A \ B)
          /\ Cardinality(A \ B) = Cardinality(A) - Cardinality(A \cap B)
      BY <2>6, FS_Difference
    <2>10. Cardinality(W) <= Cardinality(A \ B)
      BY <2>7, <2>9, FS_Subset
    <2>11. Cardinality(B) = Below(L, w) /\ w + 1 - Below(L, w) <= t
      BY DEF B, Below
    <2>12. Cardinality(W) \in Nat /\ Cardinality(A \ B) \in Nat /\ Cardinality(B) \in Nat
      <3>1. IsFiniteSet(B)
        BY <1>0, FS_Subset DEF B
      <3> QED
        BY <1>0, <2>9, <3>1, FS_CardinalityType
    <2>13. PICK a \in Nat, b \in Nat, m \in Nat :
               a = Cardinality(A \ B) /\ b = Cardinality(B) /\ m = Cardinality(W)
      BY <2>12
    <2>14. a = (w + 1) - b
      BY <2>6, <2>8, <2>9, <2>13, Zenon
    <2>15. b = Below(L, w) /\ w + 1 - Below(L, w) <= t /\ m <= a
      BY <2>10, <2>11, <2>13, Zenon
    <2>16. m <= t
      BY <2>5, <2>14, <2>15
    <2> QED
      BY <2>13, <2>16
  <1> QED
    BY <1>1, <1>2

LEMMA BelowFacts ==
  ASSUME NEW D \in Nat, NEW L \in SUBSET (0..(D - 1)), NEW t \in Nat
  PROVE  /\ Below(L, t) \in Nat /\ Below(L, t) <= t /\ Below(L, t) <= Cardinality(L)
         /\ t >= D => Below(L, t) = Cardinality(L)
         /\ \A x \in 0..(D - 1) : Below(L, t) <= Below(L \cup {x}, t)
         /\ IsFiniteSet(L) /\ Cardinality(L) \in Nat
  <1>1. IsFiniteSet(0..(t - 1)) /\ Cardinality(0..(t - 1)) = t /\ IsFiniteSet(0..(D - 1))
    BY Interval0
  <1>2. IsFiniteSet(L) /\ Cardinality(L) \in Nat
    BY <1>1, FS_Subset, FS_CardinalityType
  <1>3. /\ IsFiniteSet(L \cap (0..(t - 1)))
        /\ Cardinality(L \cap (0..(t - 1))) <= Cardinality(0..(t - 1))
    <2>1. L \cap (0..(t - 1)) \in SUBSET (0..(t - 1))
      OBVIOUS
    <2> QED
      BY <1>1, <2>1, FS_Subset
  <1>4. Cardinality(L \cap (0..(t - 1))) <= Cardinality(L)
    <2>1. L \cap (0..(t - 1)) \in SUBSET L
      OBVIOUS
    <2> QED
      BY <1>2, <2>1, FS_Subset
  <1>5. Below(L, t) \in Nat
    BY <1>3, FS_CardinalityType DEF Below
  <1>6. ASSUME t >= D PROVE L \cap (0..(t - 1)) = L
    <2>1. \A x \in 0..(D - 1) : x \in 0..(t - 1)
      BY <1>6
    <2> QED
      BY <2>1
  <1>7. ASSUME NEW x \in 0..(D - 1) PROVE Below(L, t) <= Below(L \cup {x}, t)
    <2>1. IsFiniteSet((L \cup {x}) \cap (0..(t - 1)))
      BY <1>1, FS_Subset
    <2>2. L \cap (0..(t - 1)) \in SUBSET ((L \cup {x}) \cap (0..(t - 1)))
      OBVIOUS
    <2> QED
      BY <2>1, <2>2, FS_Subset DEF Below
  <1> QED
    BY <1>1, <1>2, <1>3, <1>4, <1>5, <1>6, <1>7 DEF Below

\* The consumers at some of the steps.
LEMMA AtType == ASSUME NEW S PROVE /\ IsFiniteSet(At(S)) /\ Cardinality(At(S)) \in Nat
                                   /\ Cardinality(At(S)) <= Cardinality(Consumers)
                                   /\ \A c \in At(S) : Cardinality(At(S)) > 0
  <1>1. IsFiniteSet(Consumers) /\ At(S) \in SUBSET Consumers
    BY SizesAssumption DEF At
  <1>2. IsFiniteSet(At(S)) /\ Cardinality(At(S)) <= Cardinality(Consumers)
    BY <1>1, FS_Subset
  <1>3. Cardinality(At(S)) \in Nat
    BY <1>2, FS_CardinalityType
  <1>4. ASSUME NEW c \in At(S) PROVE Cardinality(At(S)) > 0
    <2>1. Cardinality(At(S)) # 0
      BY <1>2, FS_EmptySet
    <2> QED
      BY <1>3, <2>1
  <1> QED
    BY <1>2, <1>3, <1>4

LEMMA AtMove ==
  ASSUME NEW c \in Consumers, OthersStay(c), NEW S
  PROVE  /\ Cardinality(At(S)') = Cardinality(At(S))
                + (IF co'[c].pc \in S THEN 1 ELSE 0) - (IF co[c].pc \in S THEN 1 ELSE 0)
         /\ \A d \in Consumers : d # c => (d \in At(S)' <=> d \in At(S))
         /\ c \in At(S)' <=> co'[c].pc \in S
         /\ c \in At(S) <=> co[c].pc \in S
  <1>1. PICK A : A = At(S)
    OBVIOUS
  <1>2. PICK B : B = {d \in Consumers : co'[d].pc \in S}
    OBVIOUS
  <1>3. IsFiniteSet(A) /\ Cardinality(A) \in Nat
    BY <1>1, AtType
  <1>4. At(S)' = B
    BY <1>2 DEF At
  <1>5. /\ \A d \in Consumers : d # c => (d \in B <=> d \in A)
        /\ c \in B <=> co'[c].pc \in S
        /\ c \in A <=> co[c].pc \in S
        /\ A \subseteq Consumers /\ B \subseteq Consumers
    BY <1>1, <1>2 DEF OthersStay, At
  <1>6. /\ Cardinality(A \cup {c}) = IF c \in A THEN Cardinality(A) ELSE Cardinality(A) + 1
        /\ Cardinality(A \ {c}) = IF c \in A THEN Cardinality(A) - 1 ELSE Cardinality(A)
    BY <1>3, FS_AddElement, FS_RemoveElement
  <1>7. B = IF c \in B THEN A \cup {c} ELSE A \ {c}
    BY <1>5
  <1>8. Cardinality(B) = Cardinality(A) + (IF c \in B THEN 1 ELSE 0) - (IF c \in A THEN 1 ELSE 0)
    <2>1. CASE c \in B
      <3>1. B = A \cup {c}
        BY <1>7, <2>1
      <3> QED
        BY <1>3, <1>6, <2>1, <3>1
    <2>2. CASE c \notin B
      <3>1. B = A \ {c}
        BY <1>7, <2>2
      <3> QED
        BY <1>3, <1>6, <2>2, <3>1
    <2> QED
      BY <2>1, <2>2
  <1> QED
    BY <1>1, <1>4, <1>5, <1>8

LEMMA AtSum ==
  ASSUME NEW S, NEW R
  PROVE  /\ S \cap R = {} => Cardinality(At(S \cup R)) = Cardinality(At(S)) + Cardinality(At(R))
         /\ S \subseteq R => Cardinality(At(S)) <= Cardinality(At(R))
  <1>1. IsFiniteSet(At(S)) /\ IsFiniteSet(At(R)) /\ Cardinality(At(S)) \in Nat /\ Cardinality(At(R)) \in Nat
    BY AtType
  <1>2. At(S \cup R) = At(S) \cup At(R)
    BY DEF At
  <1>3. S \cap R = {} => At(S) \cap At(R) = {}
    BY DEF At
  <1>4. Cardinality(At(S) \cup At(R)) =
           Cardinality(At(S)) + Cardinality(At(R)) - Cardinality(At(S) \cap At(R))
    BY <1>1, FS_Union
  <1>5. S \cap R = {} => Cardinality(At(S) \cap At(R)) = 0
    BY <1>3, FS_EmptySet
  <1>6. S \subseteq R => At(S) \in SUBSET At(R)
    BY DEF At
  <1>7. S \subseteq R => Cardinality(At(S)) <= Cardinality(At(R))
    BY <1>1, <1>6, FS_Subset
  <1>8. ASSUME S \cap R = {}
        PROVE  Cardinality(At(S \cup R)) = Cardinality(At(S)) + Cardinality(At(R))
    <2>1. PICK a \in Nat, b \in Nat : a = Cardinality(At(S)) /\ b = Cardinality(At(R))
      BY <1>1
    <2>2. Cardinality(At(S) \cup At(R)) = a + b - 0
      BY <1>4, <1>5, <1>8, <2>1, Zenon
    <2>3. Cardinality(At(S \cup R)) = a + b - 0
      BY <1>2, <2>2, Zenon
    <2>4. a + b - 0 = a + b
      OBVIOUS
    <2> QED
      BY <2>1, <2>3, <2>4, Zenon
  <1> QED
    BY <1>7, <1>8, Zenon

\* No more elements are claimed, and no more attempts pending, than there are;
\* no counter wraps.
LEMMA CounterFacts ==
  ASSUME TypeInv, ProducerInv, Permits, NEW lost \in SUBSET Drawn, Tickets(lost)
  PROVE  /\ ClaimsAreCovered
         /\ q.dequeueOptimisticCount =
               q.dequeueOvercommit + Cardinality(At({"recheck"})) + q.headIndex
                  + Cardinality(At({"claim"}))
         /\ q.byPermit => lost = {}
         /\ 2 * q.dequeueOptimisticCount <= IndexMod
         /\ q.dequeueOptimisticCount + 1 < IndexMod
         /\ q.headIndex <= q.tailIndex /\ q.dequeueOvercommit <= q.dequeueOptimisticCount
         /\ Pending \in SUBSET Drawn /\ Pending \cap lost = {} /\ IsFiniteSet(lost)
         /\ q.byPermit =>
               /\ \A c \in At({"check", "count"}) : q.dequeueOptimisticCount < q.tailIndex
               /\ \A c \in At(Trying) : q.headIndex < q.tailIndex
               /\ q.dequeueOptimisticCount <= q.tailIndex
  <1>0. PICK D \in Nat, H \in Nat, t \in Nat, v \in Nat :
           /\ D = q.dequeueOptimisticCount /\ H = q.headIndex /\ t = q.tailIndex
           /\ v = q.dequeueOvercommit
    BY DEF TypeInv, QType
  <1>1. PICK w \in Nat, r \in Nat : /\ w = Cardinality(At({"claim"}))
                                    /\ r = Cardinality(At({"recheck"}))
    BY AtType
  <1>2. /\ Drawn = 0..(D - 1) /\ lost \in SUBSET (0..(D - 1))
        /\ Pending \in SUBSET Drawn /\ Pending \cap lost = {}
        /\ Won(lost) \in SUBSET (0..(D - 1)) /\ Won(lost) \cap lost = {}
    <2>1. Pending \subseteq Drawn \ lost
      BY DEF Pending, Tickets
    <2> QED
      BY <1>0, <2>1 DEF Drawn, Won
  <1>3. Cardinality(Won(lost)) = H + w /\ \A x \in Won(lost) : x + 1 - Below(lost, x) <= t
    BY <1>0, <1>1 DEF Tickets
  <1>4. H + w <= t
    <2>1. PICK W \in SUBSET (0..(D - 1)), L \in SUBSET (0..(D - 1)) :
             W = Won(lost) /\ L = lost
      BY <1>2
    <2>2. W \cap L = {} /\ \A x \in W : x + 1 - Below(L, x) <= t
      BY <1>2, <1>3, <2>1
    <2>3. Cardinality(W) <= t
      BY <2>2, WonBound
    <2> QED
      BY <1>3, <2>1, <2>3
  <1>5. IsFiniteSet(Drawn) /\ Cardinality(Drawn) = D
    BY <1>2, Interval0
  <1>6. IsFiniteSet(lost) /\ IsFiniteSet(Pending) /\ Cardinality(lost) = v
    BY <1>0, <1>2, <1>5, FS_Subset DEF Tickets
  <1>7. Cardinality(Pending) = r
    <2> DEFINE f == [c \in At({"recheck"}) |-> co[c].index]
    <2>1. f \in Surjection(At({"recheck"}), Pending)
      BY DEF Surjection, Pending
    <2>2. f \in Injection(At({"recheck"}), Pending)
      <3>1. \A c, d \in At({"recheck"}) : c # d => co[c].index # co[d].index
        BY DEF Tickets
      <3> QED
        BY <2>1, <3>1 DEF Injection, Surjection, IsInjective
    <2>3. IsFiniteSet(At({"recheck"}))
      BY AtType
    <2> QED
      BY <1>1, <2>1, <2>2, <2>3, FS_Surjection
  <1>8. D = v + r + H + w
    <2>1. Cardinality(lost \cup Pending) = v + r
      <3>1. Cardinality(lost \cap Pending) = 0
        BY <1>2, FS_EmptySet
      <3>2. Cardinality(lost \cup Pending) =
               Cardinality(lost) + Cardinality(Pending) - Cardinality(lost \cap Pending)
        BY <1>6, FS_Union
      <3>3. Cardinality(lost \cup Pending) = v + r - 0
        BY <1>6, <1>7, <3>1, <3>2, Zenon
      <3> QED
        BY <3>3
    <2>2. Drawn \cap (lost \cup Pending) = lost \cup Pending
      BY <1>2
    <2>3. Cardinality(Won(lost)) = D - (v + r)
      <3>1. PICK X : X = lost \cup Pending
        OBVIOUS
      <3>2. Cardinality(Drawn \ X) = Cardinality(Drawn) - Cardinality(Drawn \cap X)
        BY <1>5, FS_Difference
      <3>3. Cardinality(Drawn \ X) = D - (v + r)
        BY <1>5, <2>1, <2>2, <3>1, <3>2, Zenon
      <3> QED
        BY <3>1, <3>3 DEF Won
    <2> QED
      BY <1>0, <1>1, <1>3, <2>3
  <1>9. PICK n \in Nat : n = MaxIndex[q.byPermit] /\ 2 * n < IndexMod /\ t <= n
    <2>1. q.byPermit \in Disciplines
      BY DEF TypeInv, QType
    <2>2. PICK n \in Nat : n = MaxIndex[q.byPermit] /\ 2 * n < IndexMod
      BY <2>1, BoundsFacts
    <2>3. t + pr.count <= n /\ pr.count \in Nat
      BY <1>0, <2>2 DEF ProducerInv, TypeInv, PrType, ProducerRec
    <2> QED
      BY <2>2, <2>3
  <1>10. ASSUME q.byPermit
         PROVE  /\ lost = {} /\ D <= t
                /\ \A c \in At({"check", "count"}) : D < t
                /\ \A c \in At(Trying) : H < t
    <2>1. v = 0 /\ t = H + q.permits + Cardinality(At(Trying)) /\ q.permits \in Nat
      BY <1>0, <1>10 DEF Permits, TypeInv, QType
    <2>2. PICK a \in Nat, b \in Nat : a = Cardinality(At(Trying)) /\ b = Cardinality(At({"check", "count"}))
      BY AtType
    <2>3. w + r + b <= a
      <3>1. Cardinality(At({"recheck"} \cup {"claim"})) = r + w
        BY <1>1, AtSum
      <3>2. Cardinality(At(({"recheck"} \cup {"claim"}) \cup {"check", "count"})) = r + w + b
        BY <2>2, <3>1, AtSum
      <3>3. ({"recheck"} \cup {"claim"}) \cup {"check", "count"} \subseteq Trying
        BY DEF Trying
      <3>4. PICK S : S = ({"recheck"} \cup {"claim"}) \cup {"check", "count"}
        OBVIOUS
      <3>5. Cardinality(At(S)) <= Cardinality(At(Trying))
        BY <3>3, <3>4, AtSum
      <3>6. r + w + b <= a
        BY <2>2, <3>2, <3>4, <3>5, Zenon
      <3> QED
        BY <1>1, <2>2, <3>6
    <2>4. \A c \in At({"check", "count"}) : b > 0
      BY <2>2, AtType
    <2>5. \A c \in At(Trying) : a > 0
      BY <2>2, AtType
    <2>6. lost = {}
      BY <1>6, <2>1, FS_EmptySet
    <2> QED
      BY <1>1, <1>8, <2>1, <2>2, <2>3, <2>4, <2>5, <2>6
  <1>11. ASSUME ~q.byPermit PROVE 2 * D <= IndexMod
    <2>1. q.byPermit = FALSE /\ FALSE \in Disciplines
      BY <1>11, BoundsFacts DEF TypeInv, QType
    <2>2. PICK k \in Nat, m \in Nat : k = Cardinality(Consumers) /\ m = MaxOvercommit
      BY SizesAssumption, FS_CardinalityType
    <2>3. PICK b \in Nat : b = Cardinality(At(Trying \ {"claim"})) /\ v + b <= m + k
      <3>1. Cardinality(At(Trying \ {"claim"})) \in Nat
        BY AtType
      <3> QED
        BY <1>0, <1>11, <2>2, <3>1 DEF Permits
    <2>4. r <= b
      <3>1. {"recheck"} \subseteq Trying \ {"claim"}
        BY DEF Trying
      <3> QED
        BY <1>1, <2>3, <3>1, AtSum
    <2>5. 2 * (n + m + k) <= IndexMod
      BY <1>9, <2>1, <2>2, BoundsFacts
    <2>6. D <= n + m + k
      BY <1>4, <1>8, <1>9, <2>3, <2>4
    <2> QED
      BY <2>5, <2>6, SizesAssumption
  <1>12. 2 * D <= IndexMod
    BY <1>9, <1>10, <1>11, SizesAssumption
  <1>13. IndexMod \in Nat /\ IndexMod >= 4
    BY BlocksPerRange, SizesAssumption
  <1>14. D + 1 < IndexMod
    BY <1>12, <1>13
  <1>15. H <= t /\ v <= D
    BY <1>4, <1>8
  <1> QED
    BY <1>0, <1>1, <1>2, <1>4, <1>6, <1>8, <1>10, <1>12, <1>14, <1>15 DEF ClaimsAreCovered

\* A pending attempt is granted iff its ticket, less those lost before it, is
\* that of an element; with a permit it always is.
LEMMA GrantedFacts ==
  ASSUME TypeInv, ProducerInv, Permits, NEW lost \in SUBSET Drawn, Tickets(lost),
         NEW c \in At({"recheck"})
  PROVE  /\ Granted(c) <=> co[c].index - co[c].overcommit < q.tailIndex
         /\ q.byPermit => Granted(c)
  <1>0. PICK D \in Nat, t \in Nat : D = q.dequeueOptimisticCount /\ t = q.tailIndex
    BY DEF TypeInv, QType
  <1>1. PICK i \in Nat, o \in Nat : i = co[c].index /\ o = co[c].overcommit
    BY DEF At, TypeInv, CoType, Local
  <1>2. i < D /\ o <= Below(lost, i) /\ lost \in SUBSET (0..(D - 1))
    BY <1>0, <1>1 DEF Tickets, Drawn
  <1>3. o <= i
    <2>1. Below(lost, i) \in Nat /\ Below(lost, i) <= i
      BY <1>2, BelowFacts
    <2> QED
      BY <1>1, <1>2, <2>1
  <1>4. 2 * D <= IndexMod /\ (q.byPermit => D <= t)
    BY <1>0, CounterFacts
  <1>5. 2 * t < IndexMod
    <2>1. PICK n \in Nat : n = pr.count
      BY ProducerFacts
    <2>2. 2 * (t + n) < IndexMod
      BY <1>0, <2>1, ProducerFacts
    <2> QED
      BY <2>2, SizesAssumption
  <1>6. PICK a \in Int : a = i - o /\ 0 <= a /\ a < D
    BY <1>2, <1>3
  <1>7. circular_less_than(a, t) <=> a < t
    BY <1>4, <1>5, <1>6, CircularLess, SizesAssumption
  <1>8. Granted(c) <=> a < t
    BY <1>0, <1>1, <1>6, <1>7 DEF Granted
  <1> QED
    BY <1>0, <1>1, <1>4, <1>6, <1>8

\* The parts of Counters other than the tickets and the permits.
Loaded ==
    /\ \A c \in At({"size_head", "overcommit", "check"}) : co[c].tail <= q.tailIndex
    /\ \A c \in At(Served) : co[c].index < q.headIndex
    /\ \A c, d \in At(Served) : c # d => co[c].index # co[d].index

\* A step that leaves the counters and the tickets alone.
LEMMA CountersMove ==
  ASSUME TypeInv, Counters, NEW c \in Consumers, OthersStay(c),
         UNCHANGED q,
         co[c].pc \notin {"idle", "recheck", "claim"}, co'[c].pc \notin {"recheck", "claim"},
         co'[c].pc \in {"check", "count"} => co'[c].overcommit <= q.dequeueOvercommit,
         co'[c].pc \in {"size_head", "overcommit", "check"} => co'[c].tail <= q.tailIndex,
         co'[c].pc \in Served => co[c].pc \in Served /\ co'[c].index = co[c].index,
         co'[c].pc \in Trying => co[c].pc \in Trying,
         q.byPermit /\ co[c].pc \in Trying => co'[c].pc \in Trying
  PROVE  Counters'
  <1>1. PICK lost \in SUBSET Drawn : Tickets(lost)
    BY DEF Counters
  <1>2. At({"recheck"})' = At({"recheck"}) /\ Cardinality(At({"claim"})') = Cardinality(At({"claim"}))
    <2>1. At({"recheck"})' = At({"recheck"}) /\ At({"claim"})' = At({"claim"})
      BY DEF At, OthersStay
    <2> QED
      BY <2>1
  <1>3. \A d \in At({"recheck"}) : co'[d] = co[d]
    BY DEF At, OthersStay
  <1>4. Pending' = Pending /\ Drawn' = Drawn
    <2>1. Pending' = {co'[d].index : d \in At({"recheck"})}
      BY <1>2 DEF Pending
    <2> QED
      BY <1>3, <2>1 DEF Pending, Drawn
  <1>5. \A d \in At({"check", "count"})' : co'[d].overcommit <= q.dequeueOvercommit
    BY <1>1 DEF Tickets, At, OthersStay
  <1>6. Tickets(lost)'
    BY <1>1, <1>2, <1>3, <1>4, <1>5 DEF Tickets, Won
  <1>7. Permits'
    <2>1. Cardinality(At(Trying)) \in Nat /\ Cardinality(At(Trying \ {"claim"})) \in Nat
      BY AtType
    <2>2. q.byPermit => Cardinality(At(Trying)') = Cardinality(At(Trying))
      BY <2>1, AtMove
    <2>3. Cardinality(At(Trying \ {"claim"})') <= Cardinality(At(Trying \ {"claim"}))
      <3>1. co'[c].pc \in Trying \ {"claim"} => co[c].pc \in Trying \ {"claim"}
        OBVIOUS
      <3> QED
        BY <2>1, <3>1, AtMove
    <2>4. ~q.byPermit => q.dequeueOvercommit + Cardinality(At(Trying \ {"claim"})')
                           <= MaxOvercommit + Cardinality(Consumers)
      <3>1. Cardinality(At(Trying \ {"claim"})') \in Int
        BY <2>1, AtMove
      <3>2. PICK x \in Nat, m \in Nat, k \in Nat :
               x = q.dequeueOvercommit /\ m = MaxOvercommit /\ k = Cardinality(Consumers)
        BY SizesAssumption, FS_CardinalityType DEF TypeInv, QType
      <3> QED
        BY <2>1, <2>3, <3>1, <3>2 DEF Counters, Permits
    <2> QED
      BY <2>2, <2>4 DEF Counters, Permits
  <1>8. Loaded'
    <2>1. \A d \in At({"size_head", "overcommit", "check"})' : co'[d].tail <= q.tailIndex
      BY DEF Counters, At, OthersStay
    <2>2. \A d \in At(Served)' : d \in At(Served) /\ co'[d].index = co[d].index
      BY DEF At, OthersStay
    <2> QED
      BY <2>1, <2>2 DEF Counters, Loaded
  <1> QED
    BY <1>1, <1>4, <1>6, <1>7, <1>8 DEF Counters, Loaded

LEMMA TryDequeueCounters ==
  ASSUME TypeInv, Counters, NEW c \in Consumers, TryDequeue(c)
  PROVE  Counters'
  <1>0. OthersStay(c) /\ co[c].pc = "idle" /\ co'[c].pc = "size_tail"
    BY TryDequeueFields
  <1>1. PICK lost \in SUBSET Drawn : Tickets(lost)
    BY DEF Counters
  <1>2. /\ q'.tailIndex = q.tailIndex /\ q'.headIndex = q.headIndex /\ q'.byPermit = q.byPermit
        /\ q'.dequeueOptimisticCount = q.dequeueOptimisticCount
        /\ q'.dequeueOvercommit = q.dequeueOvercommit
        /\ q.byPermit => q.permits > 0 /\ q'.permits = q.permits - 1
        /\ ~q.byPermit => q.dequeueOvercommit < MaxOvercommit
    BY DEF TryDequeue, TypeInv, QType
  <1>3. /\ At({"recheck"})' = At({"recheck"}) /\ At({"claim"})' = At({"claim"})
        /\ At({"check", "count"})' = At({"check", "count"})
        /\ At({"size_head", "overcommit", "check"})' = At({"size_head", "overcommit", "check"})
        /\ At(Served)' = At(Served)
    BY <1>0 DEF At, OthersStay, Served, Holding, Reading
  <1>4. \A d \in Consumers : co[d].pc # "idle" => co'[d] = co[d]
    BY <1>0 DEF OthersStay
  <1>5. Pending' = Pending /\ Drawn' = Drawn
    <2>1. Pending' = {co'[d].index : d \in At({"recheck"})}
      BY <1>3 DEF Pending
    <2>2. \A d \in At({"recheck"}) : co'[d].index = co[d].index
      BY <1>4 DEF At
    <2>3. Pending' = Pending
      BY <2>1, <2>2 DEF Pending
    <2> QED
      BY <1>2, <2>3 DEF Drawn
  <1>6. Tickets(lost)'
    <2>1. \A d \in At({"check", "count"}) : co'[d] = co[d]
      BY <1>4 DEF At
    <2>2. \A d \in At({"recheck"}) : co'[d] = co[d]
      BY <1>4 DEF At
    <2> QED
      BY <1>1, <1>2, <1>3, <1>5, <2>1, <2>2 DEF Tickets, Won
  <1>7. Permits'
    <2>1. Cardinality(At(Trying)) \in Nat
      BY AtType
    <2>2. Cardinality(At(Trying)') = Cardinality(At(Trying)) + 1
      BY <1>0, <2>1, AtMove DEF Trying
    <2>3. /\ Cardinality(At(Trying \ {"claim"})') \in Nat
          /\ Cardinality(At(Trying \ {"claim"})') <= Cardinality(Consumers)
      <3>1. PICK B : B = At(Trying \ {"claim"})'
        OBVIOUS
      <3>2. B \in SUBSET Consumers
        BY <3>1 DEF At
      <3>3. IsFiniteSet(B) /\ Cardinality(B) <= Cardinality(Consumers)
        BY <3>2, FS_Subset, SizesAssumption
      <3> QED
        BY <3>1, <3>3, FS_CardinalityType
    <2>4. q.byPermit => q'.tailIndex = q'.headIndex + q'.permits + Cardinality(At(Trying)')
      BY <1>2, <2>1, <2>2 DEF Counters, Permits, TypeInv, QType
    <2>5. ~q.byPermit => q'.dequeueOvercommit + Cardinality(At(Trying \ {"claim"})')
                           <= MaxOvercommit + Cardinality(Consumers)
      <3>1. PICK x \in Nat, m \in Nat, k \in Nat :
               x = q.dequeueOvercommit /\ m = MaxOvercommit /\ k = Cardinality(Consumers)
        BY SizesAssumption, FS_CardinalityType DEF TypeInv, QType
      <3> QED
        BY <1>2, <2>3, <3>1
    <2> QED
      BY <1>2, <2>4, <2>5 DEF Counters, Permits
  <1>8. Loaded'
    <2>1. \A d \in At({"size_head", "overcommit", "check"}) : co'[d] = co[d]
      BY <1>4 DEF At
    <2>2. \A d \in At(Served) : co'[d] = co[d]
      BY <1>4 DEF At, Served, Holding, Reading
    <2> QED
      BY <1>2, <1>3, <2>1, <2>2 DEF Counters, Loaded
  <1> QED
    BY <1>1, <1>5, <1>6, <1>7, <1>8 DEF Counters, Loaded

LEMMA PermitsStay ==
  ASSUME TypeInv, Permits, NEW c \in Consumers, OthersStay(c),
         co[c].pc \in Trying \ {"claim"}, co'[c].pc \in Trying,
         q'.tailIndex = q.tailIndex, q'.headIndex = q.headIndex,
         q'.byPermit = q.byPermit, q'.permits = q.permits,
         q'.dequeueOvercommit = q.dequeueOvercommit
  PROVE  Permits'
  <1>1. Cardinality(At(Trying)) \in Nat /\ Cardinality(At(Trying \ {"claim"})) \in Nat
    BY AtType
  <1>2. Cardinality(At(Trying)') = Cardinality(At(Trying))
    BY <1>1, AtMove
  <1>3. Cardinality(At(Trying \ {"claim"})') <= Cardinality(At(Trying \ {"claim"}))
        /\ Cardinality(At(Trying \ {"claim"})') \in Int
    BY <1>1, AtMove
  <1>4. ~q.byPermit => q.dequeueOvercommit + Cardinality(At(Trying \ {"claim"})')
                           <= MaxOvercommit + Cardinality(Consumers)
    <2>1. PICK x \in Nat, m \in Nat, k \in Nat :
               x = q.dequeueOvercommit /\ m = MaxOvercommit /\ k = Cardinality(Consumers)
      BY SizesAssumption, FS_CardinalityType DEF TypeInv, QType
    <2> QED
      BY <1>1, <1>3, <2>1 DEF Permits
  <1> QED
    BY <1>2, <1>4 DEF Permits

LEMMA CountDequeueCounters ==
  ASSUME TypeInv, ProducerInv, Counters, NEW c \in Consumers, CountDequeue(c)
  PROVE  Counters'
  <1>0. /\ OthersStay(c) /\ co[c].pc = "count" /\ co'[c].pc = "recheck"
        /\ co'[c].index = q.dequeueOptimisticCount
        /\ co'[c].overcommit = co[c].overcommit
    BY CountDequeueFields
  <1>1. PICK lost \in SUBSET Drawn : Tickets(lost)
    BY DEF Counters
  <1>2. PICK D \in Nat, v \in Nat : D = q.dequeueOptimisticCount /\ v = q.dequeueOvercommit
    BY DEF TypeInv, QType
  <1>3. /\ q'.tailIndex = q.tailIndex /\ q'.headIndex = q.headIndex /\ q'.byPermit = q.byPermit
        /\ q'.dequeueOptimisticCount = D + 1 /\ q'.permits = q.permits
        /\ q'.dequeueOvercommit = v
    <2>1. D + 1 < IndexMod
      BY <1>1, <1>2, CounterFacts DEF Counters
    <2>2. (D + 1) % IndexMod = D + 1
      BY <1>2, <2>1, ModSmall
    <2>3. q' = [q EXCEPT !.dequeueOptimisticCount = D + 1]
      BY <1>2, <2>2 DEF CountDequeue
    <2> QED
      BY <1>2, <2>3 DEF TypeInv, QType
  <1>4. /\ At({"recheck"})' = At({"recheck"}) \cup {c} /\ c \notin At({"recheck"})
        /\ At({"claim"})' = At({"claim"})
        /\ At({"check", "count"})' \subseteq At({"check", "count"}) \ {c}
        /\ At({"size_head", "overcommit", "check"})' = At({"size_head", "overcommit", "check"})
        /\ c \notin At({"size_head", "overcommit", "check"})
        /\ At(Served)' = At(Served) /\ c \notin At(Served)
        /\ c \in At({"check", "count"})
    BY <1>0 DEF At, OthersStay, Served, Holding, Reading
  <1>5. \A d \in Consumers : d # c => co'[d] = co[d]
    BY <1>0 DEF OthersStay
  <1>6. /\ Drawn = 0..(D - 1) /\ Drawn' = Drawn \cup {D} /\ D \notin Drawn
        /\ lost \in SUBSET (0..(D - 1))
    BY <1>2, <1>3 DEF Drawn
  <1>7. Pending' = Pending \cup {D}
    <2>1. Pending' = {co'[d].index : d \in At({"recheck"}) \cup {c}}
      BY <1>4 DEF Pending
    <2>2. \A d \in At({"recheck"}) : co'[d].index = co[d].index
      BY <1>4, <1>5 DEF At
    <2>3. {co'[d].index : d \in At({"recheck"})} = Pending
      BY <2>2 DEF Pending
    <2>4. {co'[d].index : d \in At({"recheck"}) \cup {c}}
             = {co'[d].index : d \in At({"recheck"})} \cup {D}
      BY <1>0, <1>2
    <2> QED
      BY <2>1, <2>3, <2>4, Zenon
  <1>8. Won(lost)' = Won(lost)
    BY <1>6, <1>7 DEF Won
  <1>9. Below(lost, D) = v
    <2>1. D >= D => Below(lost, D) = Cardinality(lost)
      BY <1>6, BelowFacts
    <2> QED
      BY <1>1, <1>2, <2>1 DEF Tickets
  <1>10. Tickets(lost)'
    <2>1. \A d \in At({"check", "count"})' : co'[d].overcommit <= v
      BY <1>1, <1>2, <1>4, <1>5 DEF Tickets, At
    <2>2. co'[c].overcommit <= Below(lost, D)
      BY <1>0, <1>1, <1>2, <1>4, <1>9 DEF Tickets
    <2>3. \A d \in At({"recheck"}) : /\ co'[d] = co[d] /\ d # c
                                     /\ co[d].index \in Drawn \ lost
                                     /\ co[d].overcommit <= Below(lost, co[d].index)
      BY <1>1, <1>4, <1>5 DEF Tickets, At
    <2>4. ASSUME NEW d \in At({"recheck"})'
          PROVE  co'[d].index \in Drawn' \ lost /\ co'[d].overcommit <= Below(lost, co'[d].index)
      <3>1. CASE d = c
        BY <1>0, <1>2, <1>6, <2>2, <3>1
      <3>2. CASE d # c
        BY <1>4, <1>6, <2>3, <2>4, <3>2
      <3> QED
        BY <3>1, <3>2
    <2>5. \A d, e \in At({"recheck"})' : d # e => co'[d].index # co'[e].index
      BY <1>0, <1>1, <1>2, <1>4, <1>6, <2>3 DEF Tickets
    <2>6. /\ Cardinality(lost) = v
          /\ Cardinality(Won(lost)') = q.headIndex + Cardinality(At({"claim"})')
          /\ \A t \in Won(lost)' : t + 1 - Below(lost, t) <= q.tailIndex
      BY <1>1, <1>2, <1>4, <1>8 DEF Tickets
    <2> QED
      BY <1>3, <2>1, <2>4, <2>5, <2>6 DEF Tickets
  <1>11. Permits'
    BY <1>0, <1>2, <1>3, PermitsStay DEF Counters, Trying
  <1>12. Loaded'
    <2>1. \A d \in At({"size_head", "overcommit", "check"}) : co'[d] = co[d]
      BY <1>4, <1>5 DEF At
    <2>2. \A d \in At(Served) : co'[d] = co[d]
      BY <1>4, <1>5 DEF At
    <2> QED
      BY <1>3, <1>4, <2>1, <2>2 DEF Counters, Loaded
  <1>13. lost \in SUBSET Drawn'
    BY <1>6
  <1> QED
    BY <1>10, <1>11, <1>12, <1>13 DEF Counters, Loaded

\* The ticket of a consumer that looks at the tail again.
LEMMA PendingLeaves ==
  ASSUME TypeInv, NEW lost \in SUBSET Drawn, Tickets(lost), NEW c \in At({"recheck"}),
         OthersStay(c), co'[c].pc # "recheck"
  PROVE  /\ Pending' = Pending \ {co[c].index} /\ co[c].index \in Pending
         /\ co[c].index \in Drawn \ lost
         /\ At({"recheck"})' = At({"recheck"}) \ {c}
         /\ \A d \in At({"recheck"})' : co'[d] = co[d]
  <1>1. At({"recheck"})' = At({"recheck"}) \ {c}
    BY DEF At, OthersStay
  <1>2. \A d \in At({"recheck"}) \ {c} : co'[d] = co[d]
    BY DEF At, OthersStay
  <1>3. Pending' = {co'[d].index : d \in At({"recheck"}) \ {c}}
    BY <1>1 DEF Pending
  <1>4. {co'[d].index : d \in At({"recheck"}) \ {c}} = {co[d].index : d \in At({"recheck"}) \ {c}}
    BY <1>2
  <1>5. \A d \in At({"recheck"}) \ {c} : co[d].index # co[c].index
    BY DEF Tickets
  <1>6. {co[d].index : d \in At({"recheck"}) \ {c}} = Pending \ {co[c].index}
    BY <1>5 DEF Pending
  <1>7. co[c].index \in Pending
    BY DEF Pending
  <1>8. co[c].index \in Drawn \ lost
    BY DEF Tickets
  <1> QED
    BY <1>1, <1>2, <1>3, <1>4, <1>6, <1>7, <1>8

LEMMA RecheckCounters ==
  ASSUME TypeInv, ProducerInv, Counters, NEW c \in Consumers, Recheck(c)
  PROVE  Counters'
  <1>0. /\ OthersStay(c) /\ co[c].pc = "recheck" /\ co'[c].pc = "claim" /\ Granted(c)
        /\ UNCHANGED q /\ c \in At({"recheck"})
    BY RecheckFields DEF At
  <1>1. PICK lost \in SUBSET Drawn : Tickets(lost)
    BY DEF Counters
  <1>2. PICK D \in Nat, H \in Nat, t \in Nat, i \in Nat, o \in Nat :
           /\ D = q.dequeueOptimisticCount /\ t = q.tailIndex /\ H = q.headIndex
           /\ i = co[c].index /\ o = co[c].overcommit
    BY DEF TypeInv, QType, CoType, Local
  <1>3. /\ Pending' = Pending \ {i} /\ i \in Pending /\ i \in Drawn \ lost
        /\ At({"recheck"})' = At({"recheck"}) \ {c}
        /\ \A d \in At({"recheck"})' : co'[d] = co[d]
    BY <1>0, <1>1, <1>2, PendingLeaves
  <1>4. Drawn' = Drawn /\ Drawn = 0..(D - 1)
    BY <1>0, <1>2 DEF Drawn
  <1>5. Won(lost)' = Won(lost) \cup {i} /\ i \notin Won(lost)
    BY <1>3, <1>4 DEF Won
  <1>6. PICK w \in Nat : w = Cardinality(At({"claim"}))
    BY AtType
  <1>7. Cardinality(At({"claim"})') = w + 1
    BY <1>0, <1>6, AtMove
  <1>8. Cardinality(Won(lost)') = H + (w + 1)
    <2>1. Cardinality(Won(lost)) = H + w
      BY <1>1, <1>2, <1>6 DEF Tickets
    <2>2. IsFiniteSet(Won(lost))
      <3>1. Won(lost) \in SUBSET (0..(D - 1)) /\ IsFiniteSet(0..(D - 1))
        BY <1>4, Interval0 DEF Won
      <3> QED
        BY <3>1, FS_Subset
    <2>3. Cardinality(Won(lost) \cup {i}) = Cardinality(Won(lost)) + 1
      BY <1>5, <2>2, FS_AddElement
    <2> QED
      BY <1>5, <2>1, <2>3
  <1>9. i + 1 - Below(lost, i) <= t
    <2>1. i - o < t
      BY <1>0, <1>1, <1>2, GrantedFacts DEF Counters
    <2>2. o <= Below(lost, i)
      BY <1>0, <1>1, <1>2 DEF Tickets
    <2>3. Below(lost, i) \in Nat
      <3>1. lost \in SUBSET (0..(D - 1))
        BY <1>4
      <3>2. Below(lost, i) \in Nat /\ Below(lost, i) <= i
        BY <3>1, BelowFacts
      <3> QED
        BY <3>2
    <2> QED
      BY <2>1, <2>2, <2>3
  <1>10. Tickets(lost)'
    <2>1. At({"check", "count"})' = At({"check", "count"})
          /\ \A d \in At({"check", "count"}) : co'[d] = co[d]
      BY <1>0 DEF At, OthersStay
    <2>2. /\ Cardinality(lost) = q.dequeueOvercommit
          /\ \A d \in At({"check", "count"})' : co'[d].overcommit <= q.dequeueOvercommit
          /\ \A d \in At({"recheck"})' :
               /\ co'[d].index \in Drawn \ lost
               /\ co'[d].overcommit <= Below(lost, co'[d].index)
          /\ \A d, e \in At({"recheck"})' : d # e => co'[d].index # co'[e].index
      BY <1>1, <1>3, <2>1 DEF Tickets
    <2>3. \A x \in Won(lost)' : x + 1 - Below(lost, x) <= q.tailIndex
      BY <1>1, <1>2, <1>5, <1>9 DEF Tickets
    <2>4. Cardinality(Won(lost)') = q.headIndex + Cardinality(At({"claim"})')
      BY <1>2, <1>7, <1>8
    <2> QED
      BY <1>0, <1>4, <2>2, <2>3, <2>4 DEF Tickets
  <1>11. Permits'
    BY <1>0, PermitsStay DEF Counters, Trying
  <1>12. Loaded'
    <2>1. /\ At({"size_head", "overcommit", "check"})' = At({"size_head", "overcommit", "check"})
          /\ At(Served)' = At(Served) /\ c \notin At(Served)
          /\ c \notin At({"size_head", "overcommit", "check"})
      BY <1>0 DEF At, OthersStay, Served, Holding, Reading
    <2>2. \A d \in At({"size_head", "overcommit", "check"}) : co'[d] = co[d]
      BY <1>0, <2>1 DEF At, OthersStay
    <2>3. \A d \in At(Served) : co'[d] = co[d]
      BY <1>0, <2>1 DEF At, OthersStay
    <2> QED
      BY <1>0, <2>1, <2>2, <2>3 DEF Counters, Loaded
  <1> QED
    BY <1>1, <1>4, <1>10, <1>11, <1>12 DEF Counters, Loaded

LEMMA OvercommitCounters ==
  ASSUME TypeInv, ProducerInv, Counters, NEW c \in Consumers, Overcommit(c)
  PROVE  Counters'
  <1>0. /\ OthersStay(c) /\ co[c].pc = "recheck" /\ ~Granted(c) /\ c \in At({"recheck"})
        /\ co'[c].pc = IF q.byPermit THEN "size_tail" ELSE "idle"
        /\ q' = [q EXCEPT !.dequeueOvercommit = (@ + 1) % IndexMod]
    BY OvercommitFields DEF At
  <1>1. PICK lost \in SUBSET Drawn : Tickets(lost)
    BY DEF Counters
  <1>2. PICK D \in Nat, H \in Nat, t \in Nat, i \in Nat, v \in Nat :
           /\ D = q.dequeueOptimisticCount /\ t = q.tailIndex /\ H = q.headIndex
           /\ i = co[c].index /\ v = q.dequeueOvercommit
    BY DEF TypeInv, QType, CoType, Local
  <1>3. ~q.byPermit /\ co'[c].pc = "idle"
    BY <1>0, <1>1, GrantedFacts DEF Counters
  <1>4. /\ Pending' = Pending \ {i} /\ i \in Pending /\ i \in Drawn \ lost
        /\ At({"recheck"})' = At({"recheck"}) \ {c}
        /\ \A d \in At({"recheck"})' : co'[d] = co[d]
    BY <1>0, <1>1, <1>2, <1>3, PendingLeaves
  <1>5. /\ q'.tailIndex = t /\ q'.headIndex = H /\ q'.byPermit = q.byPermit
        /\ q'.dequeueOptimisticCount = D /\ q'.permits = q.permits
        /\ q'.dequeueOvercommit = v + 1
    <2>1. D + 1 < IndexMod /\ v <= D
      BY <1>1, <1>2, CounterFacts DEF Counters
    <2>2. v + 1 < IndexMod /\ v + 1 \in Int
      BY <1>2, <2>1, SizesAssumption
    <2>3. (v + 1) % IndexMod = v + 1
      BY <1>2, <2>2, ModSmall
    <2>4. q' = [q EXCEPT !.dequeueOvercommit = v + 1]
      BY <1>0, <1>2, <2>3
    <2> QED
      BY <1>2, <2>4 DEF TypeInv, QType
  <1>6. Drawn' = Drawn /\ Drawn = 0..(D - 1)
    BY <1>2, <1>5 DEF Drawn
  <1>7. PICK l \in SUBSET Drawn : l = lost \cup {i}
    BY <1>4
  <1>8. Won(l)' = Won(lost)
    BY <1>4, <1>6, <1>7 DEF Won
  <1>9. Cardinality(l) = v + 1
    <2>1. IsFiniteSet(lost) /\ Cardinality(lost) = v
      BY <1>1, <1>2, CounterFacts DEF Counters, Tickets
    <2>2. i \notin lost
      BY <1>4
    <2> QED
      BY <1>7, <2>1, <2>2, FS_AddElement
  <1>10. \A x \in Nat : Below(lost, x) <= Below(l, x) /\ Below(lost, x) \in Nat /\ Below(l, x) \in Nat
    <2> TAKE x \in Nat
    <2>1. lost \in SUBSET (0..(D - 1)) /\ l \in SUBSET (0..(D - 1)) /\ i \in 0..(D - 1)
      BY <1>4, <1>6, <1>7
    <2>2. /\ \A y \in 0..(D - 1) : Below(lost, x) <= Below(lost \cup {y}, x)
          /\ Below(lost, x) \in Nat
      BY <2>1, BelowFacts
    <2>3. Below(l, x) \in Nat /\ Below(l, x) <= x
      BY <2>1, BelowFacts
    <2> QED
      BY <1>7, <2>1, <2>2, <2>3
  <1>11. Tickets(l)'
    <2>1. At({"check", "count"})' = At({"check", "count"})
          /\ \A d \in At({"check", "count"}) : co'[d] = co[d]
      BY <1>0, <1>3 DEF At, OthersStay
    <2>2. \A d \in At({"check", "count"})' : co'[d].overcommit <= q'.dequeueOvercommit
      <3>1. ASSUME NEW d \in At({"check", "count"}) PROVE co[d].overcommit <= v + 1
        <4>1. co[d].overcommit <= v /\ co[d].overcommit \in Nat
          BY <1>1, <1>2 DEF Tickets, At, TypeInv, CoType, Local
        <4> QED
          BY <1>2, <4>1
      <3> QED
        BY <1>5, <2>1, <3>1
    <2>3. ASSUME NEW d \in At({"recheck"})'
          PROVE  co'[d].index \in Drawn \ l /\ co'[d].overcommit <= Below(l, co'[d].index)
      <3>1. /\ co'[d] = co[d] /\ d \in At({"recheck"}) /\ d # c
            /\ co[d].index \in Drawn \ lost /\ co[d].index # i
            /\ co[d].overcommit <= Below(lost, co[d].index)
        BY <1>1, <1>2, <1>4, <1>0, <2>3 DEF Tickets
      <3>2. co[d].index \in Nat /\ co[d].overcommit \in Nat
        BY <3>1 DEF At, TypeInv, CoType, Local
      <3>3. co[d].overcommit <= Below(l, co[d].index)
        BY <1>10, <3>1, <3>2
      <3> QED
        BY <1>7, <3>1, <3>3
    <2>4. \A d, e \in At({"recheck"})' : d # e => co'[d].index # co'[e].index
      BY <1>1, <1>4 DEF Tickets
    <2>5. At({"claim"})' = At({"claim"})
      BY <1>0, <1>3 DEF At, OthersStay
    <2>6. Cardinality(Won(l)') = q'.headIndex + Cardinality(At({"claim"})')
      BY <1>1, <1>2, <1>5, <1>8, <2>5 DEF Tickets
    <2>7. ASSUME NEW x \in Won(l)' PROVE x + 1 - Below(l, x) <= t
      <3>1. x \in Nat /\ x + 1 - Below(lost, x) <= t
        BY <1>1, <1>2, <1>6, <1>8, <2>7 DEF Tickets, Won
      <3> QED
        BY <1>10, <3>1
    <2> QED
      BY <1>5, <1>6, <1>9, <2>2, <2>3, <2>4, <2>6, <2>7 DEF Tickets
  <1>12. Permits'
    <2>1. PICK b \in Nat : b = Cardinality(At(Trying \ {"claim"}))
      BY AtType
    <2>2. Cardinality(At(Trying \ {"claim"})') = b - 1
      BY <1>0, <1>3, <2>1, AtMove DEF Trying
    <2> QED
      BY <1>2, <1>3, <1>5, <2>1, <2>2 DEF Counters, Permits
  <1>13. Loaded'
    <2>1. /\ At({"size_head", "overcommit", "check"})' = At({"size_head", "overcommit", "check"})
          /\ At(Served)' = At(Served) /\ c \notin At(Served)
          /\ c \notin At({"size_head", "overcommit", "check"})
      BY <1>0, <1>3 DEF At, OthersStay, Served, Holding, Reading
    <2>2. \A d \in At({"size_head", "overcommit", "check"}) : co'[d] = co[d]
      BY <1>0, <2>1 DEF At, OthersStay
    <2>3. \A d \in At(Served) : co'[d] = co[d]
      BY <1>0, <2>1 DEF At, OthersStay
    <2> QED
      BY <1>2, <1>5, <2>1, <2>2, <2>3 DEF Counters, Loaded
  <1> QED
    BY <1>6, <1>11, <1>12, <1>13 DEF Counters, Loaded

LEMMA ClaimSteps ==
  ASSUME TypeInv, ProducerInv, Counters, NEW c \in Consumers, Claim(c)
  PROVE  /\ q.headIndex < q.tailIndex
         /\ q'.headIndex = q.headIndex + 1
         /\ q'.tailIndex = q.tailIndex /\ q'.byPermit = q.byPermit
         /\ q'.dequeueOptimisticCount = q.dequeueOptimisticCount
         /\ q'.permits = q.permits /\ q'.dequeueOvercommit = q.dequeueOvercommit
         /\ q'.destroyed = q.destroyed /\ q'.poolIndex = q.poolIndex
  <1>1. PICK H \in Nat, t \in Nat, w \in Nat :
           H = q.headIndex /\ t = q.tailIndex /\ w = Cardinality(At({"claim"}))
    <2>1. Cardinality(At({"claim"})) \in Nat
      BY AtType
    <2> QED
      BY <2>1 DEF TypeInv, QType
  <1>2. H + w <= t
    <2>1. PICK lost \in SUBSET Drawn : Tickets(lost)
      BY DEF Counters
    <2>2. ClaimsAreCovered
      BY <2>1, CounterFacts DEF Counters
    <2> QED
      BY <1>1, <2>2 DEF ClaimsAreCovered
  <1>3. w > 0
    <2>1. c \in At({"claim"})
      BY DEF Claim, Step, At
    <2> QED
      BY <1>1, <2>1, AtType
  <1>4. H + 1 < IndexMod
    <2>1. PICK n \in Nat : n = pr.count
      BY ProducerFacts
    <2>2. 2 * (t + n) < IndexMod
      BY <1>1, <2>1, ProducerFacts
    <2> QED
      BY <1>2, <1>3, <2>2, SizesAssumption
  <1>5. (H + 1) % IndexMod = H + 1
    BY <1>4, ModSmall
  <1>6. q' = [q EXCEPT !.headIndex = H + 1]
    BY <1>1, <1>5 DEF Claim
  <1> QED
    BY <1>1, <1>2, <1>3, <1>6 DEF TypeInv, QType

LEMMA ClaimCounters ==
  ASSUME TypeInv, ProducerInv, Counters, NEW c \in Consumers, Claim(c)
  PROVE  Counters'
  <1>0. /\ OthersStay(c) /\ co[c].pc = "claim" /\ co'[c].pc = "header"
        /\ co'[c].index = q.headIndex
    BY ClaimFields
  <1>1. PICK lost \in SUBSET Drawn : Tickets(lost)
    BY DEF Counters
  <1>2. PICK D \in Nat, H \in Nat, t \in Nat :
           D = q.dequeueOptimisticCount /\ H = q.headIndex /\ t = q.tailIndex
    BY DEF TypeInv, QType
  <1>3. /\ q'.headIndex = H + 1
        /\ q'.tailIndex = q.tailIndex /\ q'.byPermit = q.byPermit
        /\ q'.dequeueOptimisticCount = D
        /\ q'.permits = q.permits /\ q'.dequeueOvercommit = q.dequeueOvercommit
    BY <1>2, ClaimSteps
  <1>4. /\ At({"recheck"})' = At({"recheck"})
        /\ At({"check", "count"})' = At({"check", "count"})
        /\ At({"size_head", "overcommit", "check"})' = At({"size_head", "overcommit", "check"})
        /\ At(Served)' = At(Served) \cup {c} /\ c \notin At(Served)
        /\ c \notin At({"size_head", "overcommit", "check"})
        /\ c \notin At({"recheck"}) /\ c \notin At({"check", "count"})
    BY <1>0 DEF At, OthersStay, Served, Holding, Reading
  <1>5. \A d \in Consumers : d # c => co'[d] = co[d]
    BY <1>0 DEF OthersStay
  <1>6. \A S : \A d \in At(S) : d # c => co'[d] = co[d]
    BY <1>5 DEF At
  <1>7. Pending' = Pending
    <2>1. Pending' = {co'[d].index : d \in At({"recheck"})}
      BY <1>4 DEF Pending
    <2>2. \A d \in At({"recheck"}) : co'[d].index = co[d].index
      BY <1>4, <1>6
    <2> QED
      BY <2>1, <2>2 DEF Pending
  <1>8. Drawn' = Drawn
    BY <1>2, <1>3 DEF Drawn
  <1>9. PICK w \in Nat : w = Cardinality(At({"claim"}))
    BY AtType
  <1>10. Cardinality(At({"claim"})') = w - 1
    BY <1>0, <1>9, AtMove
  <1>11. Tickets(lost)'
    <2>1. \A d \in At({"check", "count"})' : co'[d].overcommit <= q.dequeueOvercommit
      <3>1. \A d \in At({"check", "count"}) : co'[d] = co[d]
        BY <1>4, <1>6
      <3> QED
        BY <1>1, <1>4, <3>1 DEF Tickets
    <2>2. /\ \A d \in At({"recheck"})' :
               /\ co'[d].index \in Drawn \ lost
               /\ co'[d].overcommit <= Below(lost, co'[d].index)
          /\ \A d, e \in At({"recheck"})' : d # e => co'[d].index # co'[e].index
      <3>1. \A d \in At({"recheck"}) : co'[d] = co[d]
        BY <1>4, <1>6
      <3> QED
        BY <1>1, <1>4, <3>1 DEF Tickets
    <2>3. Won(lost)' = Won(lost)
      BY <1>7, <1>8 DEF Won
    <2>4. Cardinality(Won(lost)') = (H + 1) + (w - 1)
      BY <1>1, <1>2, <1>9, <2>3 DEF Tickets
    <2> QED
      BY <1>1, <1>3, <1>8, <1>10, <2>1, <2>2, <2>3, <2>4 DEF Tickets
  <1>12. Permits'
    <2>1. PICK a \in Nat, b \in Nat : /\ a = Cardinality(At(Trying))
                                      /\ b = Cardinality(At(Trying \ {"claim"}))
      BY AtType
    <2>2. Cardinality(At(Trying)') = a - 1
      BY <1>0, <2>1, AtMove DEF Trying
    <2>3. Cardinality(At(Trying \ {"claim"})') = b
      BY <1>0, <2>1, AtMove DEF Trying
    <2>4. q.permits \in Nat
      BY DEF TypeInv, QType
    <2>5. q.byPermit => q'.tailIndex = q'.headIndex + q'.permits + Cardinality(At(Trying)')
      BY <1>2, <1>3, <2>1, <2>2, <2>4 DEF Counters, Permits
    <2>6. ~q.byPermit => q'.dequeueOvercommit + Cardinality(At(Trying \ {"claim"})')
                           <= MaxOvercommit + Cardinality(Consumers)
      BY <1>3, <2>1, <2>3 DEF Counters, Permits
    <2> QED
      BY <1>3, <2>5, <2>6 DEF Counters, Permits
  <1>13. Loaded'
    <2>1. \A d \in At({"size_head", "overcommit", "check"}) : co'[d] = co[d]
      BY <1>4, <1>6
    <2>2. \A d \in At(Served) : /\ co'[d] = co[d] /\ co[d].index \in Nat
                                /\ co[d].index < H /\ d # c
      BY <1>2, <1>4, <1>6 DEF Counters, At, TypeInv, CoType, Local
    <2>3. \A d \in At(Served)' : co'[d].index < H + 1
      BY <1>0, <1>2, <1>4, <2>2
    <2>4. \A d, e \in At(Served)' : d # e => co'[d].index # co'[e].index
      BY <1>0, <1>2, <1>4, <2>2 DEF Counters
    <2> QED
      BY <1>3, <1>4, <2>1, <2>3, <2>4 DEF Counters, Loaded
  <1>14. lost \in SUBSET Drawn'
    BY <1>8
  <1> QED
    BY <1>11, <1>12, <1>13, <1>14 DEF Counters, Loaded

LEMMA CountersStay ==
  ASSUME TypeInv, Counters, UNCHANGED co, q'.tailIndex \in Nat, q.tailIndex <= q'.tailIndex,
         q'.headIndex = q.headIndex, q'.byPermit = q.byPermit,
         q'.dequeueOptimisticCount = q.dequeueOptimisticCount,
         q'.dequeueOvercommit = q.dequeueOvercommit,
         q.byPermit => q'.tailIndex - q'.permits = q.tailIndex - q.permits
                       /\ q'.permits \in Nat
  PROVE  Counters'
  <1>1. PICK lost \in SUBSET Drawn : Tickets(lost)
    BY DEF Counters
  <1>2. PICK t \in Nat, u \in Nat : t = q.tailIndex /\ u = q'.tailIndex /\ t <= u
    BY DEF TypeInv, QType
  <1>3. \A S : At(S)' = At(S)
    BY DEF At
  <1>4. Pending' = Pending /\ Drawn' = Drawn
    <2>1. Pending' = Pending
      BY <1>3 DEF Pending
    <2> QED
      BY <2>1 DEF Drawn
  <1>5. Won(lost)' = Won(lost) /\ Won(lost) \subseteq Nat
    <2>1. Drawn \subseteq Nat
      BY DEF Drawn, TypeInv, QType
    <2> QED
      BY <1>4, <2>1 DEF Won
  <1>6. \A x \in Won(lost) : x + 1 - Below(lost, x) <= u
    <2> TAKE x \in Won(lost)
    <2>1. x \in Nat /\ x + 1 - Below(lost, x) <= t
      BY <1>1, <1>2, <1>5 DEF Tickets
    <2>2. Below(lost, x) \in Nat
      <3>1. PICK D \in Nat : D = q.dequeueOptimisticCount
        BY DEF TypeInv, QType
      <3>2. lost \in SUBSET (0..(D - 1))
        BY <3>1 DEF Drawn
      <3>3. Below(lost, x) \in Nat /\ Below(lost, x) <= x
        BY <2>1, <3>2, BelowFacts
      <3> QED
        BY <3>3
    <2> QED
      BY <1>2, <2>1, <2>2
  <1>7. Tickets(lost)'
    <2>1. At({"check", "count"})' = At({"check", "count"})
          /\ At({"recheck"})' = At({"recheck"}) /\ At({"claim"})' = At({"claim"})
      BY <1>3
    <2> QED
      BY <1>1, <1>2, <1>4, <1>5, <1>6, <2>1 DEF Tickets
  <1>8. Permits'
    <2>1. At(Trying)' = At(Trying) /\ At(Trying \ {"claim"})' = At(Trying \ {"claim"})
      BY <1>3
    <2>2. PICK a \in Nat : a = Cardinality(At(Trying))
      BY AtType
    <2>3. q.permits \in Nat /\ q.headIndex \in Nat
      BY DEF TypeInv, QType
    <2>4. q.byPermit => q'.tailIndex = q'.headIndex + q'.permits + a
      BY <1>2, <2>2, <2>3 DEF Counters, Permits
    <2> QED
      BY <2>1, <2>2, <2>4 DEF Counters, Permits
  <1>9. Loaded'
    <2>1. \A c \in At({"size_head", "overcommit", "check"}) : co[c].tail <= u
      <3>1. \A c \in At({"size_head", "overcommit", "check"}) : co[c].tail <= t /\ co[c].tail \in Nat
        BY <1>2 DEF Counters, At, TypeInv, CoType, Local
      <3> QED
        BY <1>2, <3>1
    <2>2. At({"size_head", "overcommit", "check"})' = At({"size_head", "overcommit", "check"})
          /\ At(Served)' = At(Served)
      BY <1>3
    <2> QED
      BY <1>2, <2>1, <2>2 DEF Counters, Loaded
  <1> QED
    BY <1>4, <1>7, <1>8, <1>9 DEF Counters, Loaded

LEMMA CountersNext == ASSUME TypeInv, ProducerInv, Counters, [Next]_vars PROVE Counters'
  <1>0. q.tailIndex \in Nat /\ q.headIndex \in Nat /\ q.permits \in Nat
    BY DEF TypeInv, QType
  <1>1. ASSUME NEW c \in Consumers, Consumer(c) PROVE Counters'
    <2> USE DEF Served, Holding, Reading, Trying
    <2>0. PICK lost \in SUBSET Drawn : Tickets(lost)
      BY DEF Counters
    <2>1. CASE SizeTail(c)
      <3>1. co'[c].tail <= q.tailIndex
        BY <1>0, <2>1, SizeTailFields
      <3> QED
        BY <2>1, <3>1, SizeTailFields, CountersMove
    <2>2. CASE SizeHead(c)
      BY <2>2, SizeHeadFields, CountersMove
    <2>3. CASE LooksEmpty(c)
      BY <2>3, LooksEmptyFields, CountersMove
    <2>4. CASE LoadTail(c)
      <3>1. co'[c].tail <= q.tailIndex
        BY <1>0, <2>4, LoadTailFields
      <3> QED
        BY <2>4, <3>1, LoadTailFields, CountersMove
    <2>5. CASE LoadOvercommit(c)
      <3>1. co[c].tail <= q.tailIndex
        BY <2>5, LoadOvercommitFields DEF Counters, At
      <3>2. q.dequeueOvercommit <= q.dequeueOvercommit
        BY DEF TypeInv, QType
      <3> QED
        BY <2>5, <3>1, <3>2, LoadOvercommitFields, CountersMove
    <2>6. CASE CheckCount(c)
      <3>1. co[c].overcommit <= q.dequeueOvercommit
        BY <2>0, <2>6, CheckCountFields DEF Tickets, At
      <3> QED
        BY <2>6, <3>1, CheckCountFields, CountersMove
    <2>7. CASE LoadHeader(c)
      BY <2>7, LoadHeaderFields, CountersMove
    <2>8. CASE LoadIndexTail(c)
      BY <2>8, LoadIndexTailFields, CountersMove
    <2>9. CASE LoadTailKey(c)
      BY <2>9, LoadTailKeyFields, CountersMove
    <2>10. CASE MoveElement(c)
      BY <2>10, MoveElementFields, CountersMove
    <2>11. CASE SetEmpty(c)
      BY <2>11, SetEmptyFields, CountersMove
    <2>12. CASE Unlink(c)
      BY <2>12, UnlinkFields, CountersMove
    <2>13. CASE AddBlockToFreeList(c)
      BY <2>13, ReleaseFields, CountersMove
    <2> QED
      BY <1>1, <2>1, <2>2, <2>3, <2>4, <2>5, <2>6, <2>7, <2>8, <2>9, <2>10, <2>11, <2>12,
         <2>13, CountDequeueCounters, RecheckCounters, OvercommitCounters, ClaimCounters
      DEF Consumer
  <1>2. ASSUME Producer \/ \E n \in 1..MaxBatch : EnqueueBulk(n) PROVE Counters'
    <2>1. /\ co' = co /\ q'.headIndex = q.headIndex
          /\ q'.dequeueOvercommit = q.dequeueOvercommit
          /\ q'.dequeueOptimisticCount = q.dequeueOptimisticCount
          /\ q'.byPermit = q.byPermit
      <3>1. co' = co
        BY <1>2 DEF Producer, InsertKey, GrowIndex, InsertFails, InsertTail,
           RequisitionBlock, RequisitionFails, RewindInserted, RewindBlock, EnqueueFails,
           Fill, Publish, EnqueueBulk
      <3> QED
        BY <1>2, <3>1, EnqueuingNext
    <2>2. CASE Publish
      <3>1. PICK n \in Nat : n = pr.count
        BY DEF TypeInv, PrType, ProducerRec
      <3>2. q'.tailIndex = q.tailIndex \/ q'.tailIndex = q.tailIndex + n
        BY <1>2, <3>1, EnqueuingNext
      <3>3. q'.tailIndex = q.tailIndex + n
        <4>1. q'.tailIndex = NewTail
          BY <2>2 DEF Publish, TypeInv, QType
        <4>2. NewTail = (q.tailIndex + n) % IndexMod
          BY <3>1 DEF NewTail, start
        <4>3. 2 * (q.tailIndex + n) < IndexMod
          BY <3>1, ProducerFacts
        <4>4. PICK m \in Nat : m = q.tailIndex + n /\ 2 * m < IndexMod
          BY <1>0, <4>3
        <4>5. m % IndexMod = m
          BY <4>4, ModSmall, SizesAssumption
        <4> QED
          BY <4>1, <4>2, <4>4, <4>5
      <3>4. q.byPermit => q'.permits = q.permits + n
        BY <2>2, <3>1 DEF Publish, TypeInv, QType
      <3>5. /\ q'.tailIndex \in Nat /\ q.tailIndex <= q'.tailIndex
            /\ q.byPermit => q'.tailIndex - q'.permits = q.tailIndex - q.permits
                             /\ q'.permits \in Nat
        BY <1>0, <3>3, <3>4
      <3> QED
        BY <2>1, <3>5, CountersStay
    <2>3. CASE ~Publish
      <3>1. q'.tailIndex = q.tailIndex
        BY <1>2, <2>3, EnqueuingNext
      <3>2. q'.permits = q.permits
        BY <1>2, <2>3 DEF Producer, InsertKey, GrowIndex, InsertFails, InsertTail,
           RequisitionBlock, RequisitionFails, RewindInserted, RewindBlock, EnqueueFails,
           Fill, EnqueueBulk, TypeInv, QType
      <3> QED
        BY <1>0, <2>1, <3>1, <3>2, CountersStay
    <2> QED
      BY <2>2, <2>3
  <1>3. CASE AddProducer \/ Destroy \/ Finished \/ UNCHANGED vars
    BY <1>0, <1>3, OtherFrame, CountersStay
  <1> QED
    BY <1>1, <1>2, <1>3, TryDequeueCounters DEF Next

LEMMA CountersInit == Init => Counters
  <1> SUFFICES ASSUME Init PROVE Counters
    OBVIOUS
  <1>1. \A c \in Consumers : co[c].pc = "idle"
    BY DEF Init, IdleConsumer
  <1>2. \A S : "idle" \notin S => At(S) = {}
    BY <1>1 DEF At
  <1>3. /\ q.tailIndex = 0 /\ q.headIndex = 0 /\ q.dequeueOptimisticCount = 0
        /\ q.dequeueOvercommit = 0 /\ q.permits = 0
    BY DEF Init
  <1>4. Drawn = {}
    BY <1>3 DEF Drawn
  <1>5. At(Trying) = {} /\ At(Trying \ {"claim"}) = {} /\ At({"claim"}) = {}
        /\ At({"recheck"}) = {} /\ At({"check", "count"}) = {} /\ At(Served) = {}
        /\ At({"size_head", "overcommit", "check"}) = {}
    BY <1>1 DEF At, Trying, Served, Holding, Reading
  <1>6. Won({}) = {} /\ {} \in SUBSET Drawn
    BY <1>4 DEF Won
  <1>7. Cardinality({}) = 0
    BY FS_EmptySet
  <1>8. Tickets({})
    BY <1>3, <1>5, <1>6, <1>7 DEF Tickets
  <1>9. MaxOvercommit \in Nat /\ Cardinality(Consumers) \in Nat
    BY SizesAssumption, FS_CardinalityType
  <1>10. Cardinality(At(Trying)) = 0 /\ Cardinality(At(Trying \ {"claim"})) = 0
    BY <1>5, <1>7, Zenon
  <1>11. PICK m \in Nat, k \in Nat : m = MaxOvercommit /\ k = Cardinality(Consumers)
    BY <1>9
  <1>12. Permits
    <2>1. q.dequeueOvercommit + Cardinality(At(Trying \ {"claim"})) <= m + k
      BY <1>3, <1>10
    <2>2. q.tailIndex = q.headIndex + q.permits + Cardinality(At(Trying))
      BY <1>3, <1>10
    <2> QED
      BY <1>3, <1>11, <2>1, <2>2 DEF Permits
  <1> QED
    BY <1>5, <1>6, <1>8, <1>12 DEF Counters

LEMMA CountersCover == ASSUME TypeInv, ProducerInv, Counters PROVE ClaimsAreCovered /\ HeaderReady
  <1>1. PICK lost \in SUBSET Drawn : Tickets(lost)
    BY DEF Counters
  <1>2. ClaimsAreCovered
    BY <1>1, CounterFacts DEF Counters
  <1>3. q.headIndex <= q.tailIndex
    BY <1>1, CounterFacts DEF Counters
  <1>4. ASSUME NEW c \in Consumers, co[c].pc = "header" PROVE index.headers # <<>>
    <2>1. co[c].index < q.headIndex /\ co[c].index \in Nat
      BY <1>4 DEF Counters, At, Served, Holding, Reading, TypeInv, CoType, Local
    <2>2. q.tailIndex > 0
      BY <1>3, <2>1 DEF TypeInv, QType
    <2> QED
      BY <2>2 DEF ProducerInv
  <1> QED
    BY <1>2, <1>4 DEF HeaderReady

\* A worker with a permit fails only with a tail that is out of date.
LEMMA StaleTailStep ==
  ASSUME TypeInv, ProducerInv, Counters, [Next]_vars, NEW c \in Consumers,
         co[c].pc \in {"size_head", "check"}, co'[c].pc = "size_tail"
  PROVE  co[c].tail # q.tailIndex
  <1>1. LooksEmpty(c) /\ q.byPermit
    <2>1. co'[c] # co[c]
      OBVIOUS
    <2>2. PICK d \in Consumers : TryDequeue(d) \/ Consumer(d)
      <3>1. CASE Producer \/ \E n \in 1..MaxBatch : EnqueueBulk(n)
        BY <2>1, <3>1 DEF Producer, InsertKey, GrowIndex, InsertFails, InsertTail,
           RequisitionBlock, RequisitionFails, RewindInserted, RewindBlock, EnqueueFails,
           Fill, Publish, EnqueueBulk
      <3>2. CASE AddProducer \/ Destroy \/ Finished \/ UNCHANGED vars
        BY <2>1, <3>2, OtherFrame
      <3> QED
        BY <3>1, <3>2 DEF Next
    <2>3. ASSUME NEW r \in Consumers, OthersStay(r) PROVE c # r => co'[c] = co[c]
      BY <2>3 DEF OthersStay
    <2>4. CASE TryDequeue(d)
      BY <2>1, <2>3, <2>4, TryDequeueFields
    <2>5. CASE LooksEmpty(d)
      BY <2>1, <2>3, <2>5, LooksEmptyFields
    <2>6. CASE Overcommit(d)
      BY <2>1, <2>3, <2>6, OvercommitFields
    <2>7. CASE Consumer(d) /\ ~LooksEmpty(d) /\ ~Overcommit(d)
      <3>1. CASE SizeTail(d) \/ SizeHead(d) \/ LoadTail(d) \/ LoadOvercommit(d)
        BY <2>1, <2>3, <3>1, SizeTailFields, SizeHeadFields, LoadTailFields,
           LoadOvercommitFields
      <3>2. CASE CheckCount(d) \/ CountDequeue(d) \/ Recheck(d) \/ Claim(d)
        BY <2>1, <2>3, <3>2, CheckCountFields, CountDequeueFields, RecheckFields, ClaimFields
      <3>3. CASE LoadHeader(d) \/ LoadIndexTail(d) \/ LoadTailKey(d) \/ MoveElement(d)
        <4>1. co[d].pc \in {"header", "slot", "key", "value"} /\ OthersStay(d)
          BY <3>3 DEF LoadHeader, LoadIndexTail, LoadTailKey, MoveElement, Step,
             OthersStay, TypeInv, CoType
        <4> QED
          BY <2>1, <2>3, <4>1
      <3>4. CASE SetEmpty(d) \/ Unlink(d) \/ AddBlockToFreeList(d)
        <4>1. co[d].pc \in {"set_empty", "unlink", "release"} /\ OthersStay(d)
          BY <3>4 DEF SetEmpty, Unlink, AddBlockToFreeList, Step,
             OthersStay, TypeInv, CoType
        <4> QED
          BY <2>1, <2>3, <4>1
      <3> QED
        BY <2>7, <3>1, <3>2, <3>3, <3>4 DEF Consumer
    <2> QED
      BY <2>2, <2>4, <2>5, <2>6, <2>7
  <1>2. PICK lost \in SUBSET Drawn : Tickets(lost)
    BY DEF Counters
  <1>3. Permits /\ co[c].pc \in Trying
    BY DEF Counters, Trying
  <1>4. SUFFICES ASSUME co[c].tail = q.tailIndex PROVE FALSE
    OBVIOUS
  <1>5. PICK t \in Nat, H \in Nat, D \in Nat, v \in Nat :
           /\ t = q.tailIndex /\ H = q.headIndex /\ D = q.dequeueOptimisticCount
           /\ v = co[c].overcommit
    BY DEF TypeInv, QType, CoType, Local
  <1>6. 2 * t < IndexMod
    <2>1. PICK n \in Nat, m \in Nat : /\ n = pr.count /\ m = MaxIndex[q.byPermit]
                                     /\ 2 * m < IndexMod
      BY BoundsFacts DEF TypeInv, QType, PrType, ProducerRec
    <2>2. t + n <= m
      BY <1>5, <2>1 DEF ProducerInv
    <2> QED
      BY <2>1, <2>2, SizesAssumption
  <1>7. H < t /\ 2 * D <= IndexMod
    BY <1>1, <1>2, <1>3, <1>5, CounterFacts DEF At
  <1>8. CASE co[c].pc = "size_head"
    <2>1. circular_less_than(H, t)
      BY <1>6, <1>7, CircularLess, SizesAssumption
    <2> QED
      BY <1>1, <1>4, <1>5, <1>8, <2>1 DEF LooksEmpty
  <1>9. CASE co[c].pc = "check"
    <2>1. v = 0
      <3>1. q.dequeueOvercommit = 0 /\ co[c].overcommit <= q.dequeueOvercommit
        BY <1>1, <1>2, <1>3, <1>9 DEF Permits, Tickets, At
      <3> QED
        BY <1>5, <3>1
    <2>2. D < t
      BY <1>1, <1>2, <1>3, <1>5, <1>9, CounterFacts DEF At
    <2>3. circular_less_than(D, t)
      BY <1>6, <2>2, CircularLess, SizesAssumption
    <2>4. q.dequeueOptimisticCount - co[c].overcommit = D
      BY <1>5, <2>1
    <2> QED
      BY <1>1, <1>4, <1>5, <1>9, <2>3, <2>4 DEF LooksEmpty
  <1> QED
    BY <1>8, <1>9

\* The values the variables range over, what the producer's locals say of the
\* counters, and what the counters say of each other.
CInv == TypeInv /\ ProducerInv /\ Counters

LEMMA CInvInit == Init => CInv
  BY ProducerInit, CountersInit DEF CInv

LEMMA CInvNext == CInv /\ [Next]_vars => CInv'
  <1> SUFFICES ASSUME CInv, [Next]_vars PROVE CInv'
    OBVIOUS
  <1>1. TypeInv /\ ProducerInv /\ Counters
    BY DEF CInv
  <1>2. HeaderReady
    BY <1>1, CountersCover
  <1>3. TypeInv' /\ ProducerInv' /\ Counters'
    BY <1>1, <1>2, TypeNext, ProducerNext, CountersNext
  <1> QED
    BY <1>3 DEF CInv

\* Types and counters: the atomics of the queue stay in step with the locals
\* of every thread inside enqueue_bulk and try_dequeue.
THEOREM CountersInStep == Spec => []CInv
  BY CInvInit, CInvNext, PTL DEF Spec

\* try_dequeue claims no element that was not enqueued: headIndex and the
\* consumers about to increment it never pass tailIndex.
THEOREM NoClaimTooMany == Spec => []ClaimsAreCovered
  <1>1. CInv => ClaimsAreCovered
    BY CountersCover DEF CInv
  <1> QED
    BY <1>1, CountersInStep, PTL

\* "dequeue failure has a small chance of being a false negative"
\* (worker_main): for a worker with a permit, only when elements were
\* published since it read the tail.
THEOREM WorkersFailOnStaleTails == Spec => FailuresHaveStaleTails
  <1>1. CInv /\ [Next]_vars =>
          [\A c \in Consumers :
              co[c].pc \in {"size_head", "check"} /\ co'[c].pc = "size_tail"
                 => co[c].tail # q.tailIndex]_vars
    BY StaleTailStep DEF CInv
  <1> QED
    BY <1>1, CountersInStep, PTL DEF Spec, FailuresHaveStaleTails
=============================================================================
