--------------------- MODULE ConcurrentQueueBlocks_proofs ---------------------
(***************************************************************************)
(* The blocks of the queue, for any number of consumers, any block size    *)
(* and any bounds: a block that has elements stays in use and reachable,   *)
(* every block is in one place, and every consumer finds its element, so   *)
(* that the queue implements FifoQueue.                                    *)
(*                                                                         *)
(* The blocks are numbered in the order they are filled in; number x has   *)
(* the elements KeyOf(x) .. KeyOf(x + 1) - 1.  The key in the index is     *)
(* KeyOf(x) modulo IndexMod, and in header h number x has position         *)
(* (x - off[h]) % capacity, for some offset off[h] that the header keeps.  *)
(* The inductive invariant says, for some off, which numbers are owned     *)
(* (Owned), that the index has a block for each of them and for no other   *)
(* (Links), which keys the ring holds ahead of its tail and behind it      *)
(* (Window), what the threads have found in it so far (Reach), and what    *)
(* the blocks contain (Counts, Contents).                                  *)
(***************************************************************************)
EXTENDS ConcurrentQueue_proofs, WellFoundedInduction

-----------------------------------------------------------------------------
(***************************************************************************)
(* The block index: I is a value of index, C one of co, B one of block     *)
(***************************************************************************)

Pos(o, n, x) == (x - o) % n
Ent(off, I, h, x) ==
    I.headers[h].index[Pos(off[h], I.headers[h].capacity, x)]
Entry(off, I, x) == Ent(off, I, Len(I.headers), x)

Keyed(I, e, x) == I.entries[e].key = KeyOf(x)
Unkeyed(I, e)  == I.entries[e].key = INVALID_BLOCK_BASE
Value(I, e)    == I.entries[e].value

\* Every header places the block numbers round its ring.
Aligned(off, I) ==
    \A h \in 1..Len(I.headers) : \A p \in 0..(I.headers[h].capacity - 1) :
       \/ Unkeyed(I, I.headers[h].index[p])
       \/ \E y \in Nat : /\ Keyed(I, I.headers[h].index[p], y)
                         /\ p = Pos(off[h], I.headers[h].capacity, y)
                         /\ 2 * KeyOf(y) < IndexMod

HeadersOK(I) ==
    \A h \in 1..Len(I.headers) :
       /\ \A p, r \in 0..(I.headers[h].capacity - 1) :
             I.headers[h].index[p] = I.headers[h].index[r] => p = r
       /\ \E m \in Nat : m > 0 /\ Cap(I) = I.headers[h].capacity * m
       /\ h < Len(I.headers) => \A p \in 0..(I.headers[h].capacity - 1) :
             ~Unkeyed(I, I.headers[h].index[p])

\* The tail of the index is at block number n.  Behind it are the keys of the
\* numbers up to n, and ahead of it those that a failed enqueue has left.
Window(off, I, n) ==
    I.headers # <<>> =>
    /\ I.headers[Len(I.headers)].tail = Pos(off[Len(I.headers)], Cap(I), n)
    /\ \A y \in Nat : Keyed(I, Entry(off, I, y), y) =>
          /\ n - Cap(I) < y /\ y <= n + Cap(I)
          /\ \A z \in (n + 1)..y : Keyed(I, Entry(off, I, z), z)
    /\ \A x \in (n - Cap(I) + 1)..n : Unkeyed(I, Entry(off, I, x)) =>
          \A z \in (n - Cap(I) + 1)..x :
             Unkeyed(I, Entry(off, I, z)) \/ Keyed(I, Entry(off, I, z), z + Cap(I))

\* The numbers above last that an enqueue has inserted, rewound ones included.
Inserted(off, I, last, m) == \A x \in (last + 1)..m : Keyed(I, Entry(off, I, x), x)

TailNo == LastNo + Len(pr.chain) - pr.undone + (IF pr.inserted THEN 1 ELSE 0)
InsertedNo == LastNo + Len(pr.chain) + (IF pr.inserted \/ pr.pc = "tail" THEN 1 ELSE 0)

-----------------------------------------------------------------------------
(***************************************************************************)
(* The blocks                                                              *)
(***************************************************************************)

Holders(C, x)   == {c \in Consumers : C[c].pc \in Holding /\ No(C[c].index) = x}
Unlinkers(C, x) == {c \in Consumers : C[c].pc = "unlink" /\ No(C[c].index) = x}

\* The blocks with an element that is not completely dequeued, and those that
\* are about to be unlinked ...
Linked(t, h, C) ==
    {x \in Nat : /\ KeyOf(x) < t
                 /\ \/ h < KeyOf(x + 1)
                    \/ Holders(C, x) # {} \/ Unlinkers(C, x) # {}}

\* ... and those the enqueue has allocated.
ChainNos(last, chain, undone) == (last + undone + 1)..(last + Len(chain))

Owned == Linked(q.tailIndex, q.headIndex, co)
           \cup ChainNos(LastNo, pr.chain, pr.undone)

\* The elements of block x that have been claimed.
Out(h, x) == IF h >= KeyOf(x + 1) THEN BLOCK_SIZE
             ELSE IF h <= KeyOf(x) THEN 0 ELSE h - KeyOf(x)

\* The elements that are in their blocks.
Present ==
    {i \in Nat : \/ q.headIndex <= i /\ i < q.tailIndex
                 \/ \E c \in At(Reading) : co[c].index = i
                 \/ pr.pc = "publish" /\ q.tailIndex <= i
                                      /\ i < q.tailIndex + pr.count}

\* The block of a number that is owned; no other entry has a block.
Home(off, I, x) == Value(I, Entry(off, I, x))

Links(off, I, own) ==
    /\ \A x \in own : Keyed(I, Entry(off, I, x), x) /\ Home(off, I, x) # null
    /\ \A e \in 1..Len(I.entries) : Value(I, e) # null =>
          \E x \in own : e = Entry(off, I, x)
    /\ \A e, f \in 1..Len(I.entries) :
          Value(I, e) # null /\ Value(I, e) = Value(I, f) => e = f

\* The blocks the producer knows are those of the index.
First == IF pr.pc = "idle" THEN pr.tailBlock ELSE pr.startBlock

Chained(off, I, own, last, chain, undone, first) ==
    /\ \A k \in 1..Len(chain) : k > undone => Home(off, I, last + k) = chain[k]
    /\ last \in own => Home(off, I, last) = first

\* What a consumer has loaded leads to the entry of its element.
Reach(off, I, C) ==
    \A c \in Consumers :
       LET x == No(C[c].index) IN
       /\ C[c].pc \in {"slot", "key"} =>
             Ent(off, I, C[c].header, x) = Entry(off, I, x)
       /\ C[c].pc = "key" => ~Unkeyed(I, I.headers[C[c].header].index[C[c].slot])
       /\ C[c].pc \in {"value", "set_empty", "unlink"} =>
             C[c].entry = Entry(off, I, x)

Undone(chain, n) == {chain[k] : k \in 1..n}
Released(C) == {C[c].header : c \in {d \in Consumers : C[d].pc = "release"}}
Valued(I) == {Value(I, e) : e \in 1..Len(I.entries)} \ {null}

\* A block that is used is in one place.
Used(I, B, C, chain, undone) ==
    /\ \A b \in Blocks : B[b].state = "used" <=>
          b \in Valued(I) \cup Undone(chain, undone) \cup Released(C)
    /\ Valued(I) \cap Undone(chain, undone) = {}
    /\ Valued(I) \cap Released(C) = {}
    /\ Undone(chain, undone) \cap Released(C) = {}
    /\ \A c, d \in Consumers : C[c].pc = "release" /\ C[d].pc = "release" /\ c # d
          => C[c].header # C[d].header
    /\ \A c \in Consumers : C[c].pc = "release" => C[c].header \in Blocks
    /\ \A j, k \in 1..Len(chain) : j # k => chain[j] # chain[k]

Pool(B, p) == \A b \in Blocks : B[b].state = "pool" <=> b > p /\ b <= PoolSize

\* set_empty counts the elements that are out and held by nobody.
Counts(off, I, B, own, h, C) ==
    /\ \A x \in own :
          B[Home(off, I, x)].elementsCompletelyDequeued
             + Cardinality(Holders(C, x)) = Out(h, x)
    /\ \A c \in Consumers : C[c].pc = "unlink" =>
          /\ h >= KeyOf(No(C[c].index) + 1)
          /\ Holders(C, No(C[c].index)) = {}
          /\ \A d \in Consumers : C[d].pc = "unlink" /\ c # d =>
                No(C[c].index) # No(C[d].index)

Contents(off, I, B, own, present) ==
    /\ \A x \in own : \A s \in 0..(BLOCK_SIZE - 1) :
          B[Home(off, I, x)].elements[s] =
             IF KeyOf(x) + s \in present THEN KeyOf(x) + s ELSE None
    /\ \A b \in Blocks \ Valued(I) : B[b].elements = NoElements

MovedOK == \A c \in At({"set_empty", "unlink", "release"}) : co[c].item = co[c].index

\* The index has the blocks the threads need ...
IndexInv(off) ==
    /\ Aligned(off, index) /\ Window(off, index, TailNo)
    /\ Inserted(off, index, LastNo, InsertedNo)
    /\ Links(off, index, Owned)
    /\ Chained(off, index, Owned, LastNo, pr.chain, pr.undone, First)
    /\ Reach(off, index, co)

\* ... and the blocks have the elements.
DataInv(off) ==
    /\ Counts(off, index, block, Owned, q.headIndex, co)
    /\ Contents(off, index, block, Owned, Present)

BlockInv(off) == /\ HeadersOK(index)
                 /\ Used(index, block, co, pr.chain, pr.undone)
                 /\ Pool(block, q.poolIndex)
                 /\ off \in [1..Len(index.headers) -> Int]
                 /\ IndexInv(off) /\ DataInv(off)

Blocks_Inv == ~q.destroyed => \E off : BlockInv(off)

-----------------------------------------------------------------------------
(***************************************************************************)
(* Positions in a ring                                                     *)
(***************************************************************************)

\* The positions of a ring of n entries, the first of which is for number o.
LEMMA PosType ==
  ASSUME NEW o \in Int, NEW n \in Nat, n > 0, NEW x \in Int
  PROVE  Pos(o, n, x) \in 0..(n - 1)
  BY DivMod DEF Pos

LEMMA PosApart ==
  ASSUME NEW o \in Int, NEW n \in Nat, n > 0, NEW x \in Int, NEW y \in Int,
         Pos(o, n, x) = Pos(o, n, y)
  PROVE  \E k \in Int : x = y + n * k
  <1>1. PICK a \in Int, b \in Int : a = x - o /\ b = y - o
    OBVIOUS
  <1>2. a = n * (a \div n) + (a % n) /\ a \div n \in Int
    BY DivMod
  <1>3. b = n * (b \div n) + (b % n) /\ b \div n \in Int
    BY DivMod
  <1>4. a % n = b % n
    BY <1>1 DEF Pos
  <1>5. PICK i \in Int, j \in Int : a = n * i + (a % n) /\ b = n * j + (a % n)
    BY <1>2, <1>3, <1>4
  <1>6. a % n \in Int
    BY DivMod
  <1>7. x = y + n * (i - j) /\ i - j \in Int
    BY <1>1, <1>5, <1>6
  <1> QED
    BY <1>7

LEMMA PosSame ==
  ASSUME NEW o \in Int, NEW n \in Nat, n > 0, NEW y \in Int, NEW k \in Int
  PROVE  Pos(o, n, y + n * k) = Pos(o, n, y)
  <1>1. (y + n * k) - o = (y - o) + n * k /\ y - o \in Int
    OBVIOUS
  <1> QED
    BY <1>1, ModPeriod DEF Pos

\* Numbers a multiple of n apart.
Congruent(n, x, y) == \E k \in Int : x = y + n * k

LEMMA PosCongruent ==
  ASSUME NEW o \in Int, NEW n \in Nat, n > 0, NEW x \in Int, NEW y \in Int,
         Congruent(n, x, y)
  PROVE  Pos(o, n, x) = Pos(o, n, y)
  <1>1. PICK k \in Int : x = y + n * k
    BY DEF Congruent
  <1>2. Pos(o, n, y + n * k) = Pos(o, n, y)
    BY PosSame
  <1> QED
    BY <1>1, <1>2, Zenon

LEMMA PosNear ==
  ASSUME NEW o \in Int, NEW n \in Nat, n > 0, NEW x \in Int, NEW y \in Int,
         Pos(o, n, x) = Pos(o, n, y)
  PROVE  x - y < n /\ y - x < n => x = y
  <1>1. PICK k \in Int : x = y + n * k
    BY PosApart
  <1>2. k < 0 => n * k + n <= n * 0
    BY TimesLess
  <1>3. 0 < k => n * 0 + n <= n * k
    BY TimesLess
  <1>4. k = 0 => x = y
    BY <1>1
  <1> QED
    BY <1>1, <1>2, <1>3, <1>4

LEMMA PosPeriod ==
  ASSUME NEW o \in Int, NEW n \in Nat, n > 0, NEW x \in Int
  PROVE  Pos(o, n, x + n) = Pos(o, n, x) /\ Pos(o, n, x - n) = Pos(o, n, x)
  <1>0. PICK y \in Int : y = x + n
    OBVIOUS
  <1>1. Pos(o, n, y + n * (-1)) = Pos(o, n, y)
    BY PosSame
  <1>2. Pos(o, n, x + n * (-1)) = Pos(o, n, x)
    BY PosSame
  <1>3. y + n * (-1) = x /\ x + n * (-1) = x - n
    BY <1>0
  <1> QED
    BY <1>0, <1>1, <1>2, <1>3

PosCoarser(o, n, w, l) ==
    \A x, y \in Int : Pos(w, l, x) = Pos(w, l, y) => Pos(o, n, x) = Pos(o, n, y)

LEMMA PosMultiple ==
  ASSUME NEW o \in Int, NEW n \in Nat, n > 0, NEW w \in Int, NEW l \in Nat,
         NEW m \in Nat, m > 0, l = n * m
  PROVE  PosCoarser(o, n, w, l)
  <1>1. SUFFICES ASSUME NEW x \in Int, NEW y \in Int, Pos(w, l, x) = Pos(w, l, y)
                 PROVE  Pos(o, n, x) = Pos(o, n, y)
    BY DEF PosCoarser
  <1>2. l > 0
    OBVIOUS
  <1>3. PICK k \in Int : x = y + l * k
    BY <1>1, <1>2, PosApart
  <1>4. PICK j \in Int : j = m * k
    OBVIOUS
  <1>5. x = y + n * j
    BY <1>3, <1>4
  <1>6. Congruent(n, x, y)
    BY <1>5 DEF Congruent
  <1> QED
    BY <1>6, PosCongruent

\* Any n numbers in a row go once round the ring.
LEMMA PosOnto ==
  ASSUME NEW o \in Int, NEW n \in Nat, n > 0, NEW a \in Int, NEW p \in 0..(n - 1)
  PROVE  \E x \in a..(a + n - 1) : Pos(o, n, x) = p
  <1>1. PICK j \in Int, r \in 0..(n - 1) : p + o - a = n * j + r
    <2>1. p + o - a \in Int
      OBVIOUS
    <2> QED
      BY <2>1, DivMod
  <1>2. a + r \in a..(a + n - 1) /\ (a + r) - o = p + n * (-j) /\ -j \in Int
    BY <1>1
  <1>3. (a + r) - o = n * (-j) + p /\ (a + r) - o \in Int
    BY <1>2
  <1>4. Pos(o, n, a + r) = p
    BY <1>2, <1>3, DivModUnique DEF Pos
  <1> QED
    BY <1>2, <1>4

-----------------------------------------------------------------------------
(***************************************************************************)
(* The ring of the last header                                             *)
(***************************************************************************)

LEMMA HalfRange == \E k \in Nat : IndexMod = 2 * k /\ IndexMod \div 2 = k
  <1>0. BLOCK_SIZE \in Nat /\ BLOCK_SIZE > 1 /\ IndexMod \in Nat /\ IndexMod > 0
        /\ IndexMod % (2 * BLOCK_SIZE) = 0
    BY SizesAssumption
  <1>1. PICK n \in Nat : n = 2 * BLOCK_SIZE /\ n > 0
    BY <1>0
  <1>2. IndexMod = n * (IndexMod \div n) + (IndexMod % n) /\ IndexMod \div n \in Int
    BY <1>0, <1>1, DivMod
  <1>3. PICK j \in Int : IndexMod = n * j
    BY <1>0, <1>1, <1>2
  <1>4. PICK k \in Int : k = BLOCK_SIZE * j
    BY <1>0
  <1>5. n * j = 2 * k
    BY <1>0, <1>1, <1>4
  <1> QED
    BY <1>0, <1>3, <1>4, <1>5

\* Headers that place their entries alike.
SameRings(I, J) ==
    /\ Len(J.headers) = Len(I.headers)
    /\ \A h \in 1..Len(I.headers) : /\ J.headers[h].capacity = I.headers[h].capacity
                                    /\ J.headers[h].index = I.headers[h].index
SameKeys(I, J) == /\ Len(J.entries) = Len(I.entries)
                  /\ \A e \in 1..Len(I.entries) : J.entries[e].key = I.entries[e].key
SameValues(I, J) == /\ Len(J.entries) = Len(I.entries)
                    /\ \A e \in 1..Len(I.entries) : J.entries[e].value = I.entries[e].value

Offsets(I) == [1..Len(I.headers) -> Int]

LEMMA SameEntries ==
  ASSUME NEW I, IsIndex(I), NEW J, SameRings(I, J), I.headers # <<>>, NEW off
  PROVE  /\ \A h \in 1..Len(I.headers) : \A x : Ent(off, J, h, x) = Ent(off, I, h, x)
         /\ Cap(J) = Cap(I) /\ \A x : Entry(off, J, x) = Entry(off, I, x)
  <1>1. Len(I.headers) \in 1..Len(I.headers)
    BY HeaderFacts
  <1> QED
    BY <1>1 DEF SameRings, Ent, Entry, Cap

LEMMA EntFacts ==
  ASSUME NEW I, IsIndex(I), HeadersOK(I), NEW off \in Offsets(I), NEW h \in 1..Len(I.headers),
         NEW x \in Int, NEW y \in Int
  PROVE  /\ Ent(off, I, h, x) \in 1..Len(I.entries)
         /\ Pos(off[h], I.headers[h].capacity, x) \in 0..(I.headers[h].capacity - 1)
         /\ Ent(off, I, h, x) = Ent(off, I, h, y) <=>
               Pos(off[h], I.headers[h].capacity, x) = Pos(off[h], I.headers[h].capacity, y)
  <1>1. /\ I.headers[h].capacity \in Nat /\ I.headers[h].capacity > 0
        /\ I.headers[h].index \in [0..(I.headers[h].capacity - 1) -> 1..Len(I.entries)]
        /\ off[h] \in Int
    BY HeaderAt DEF Offsets
  <1>2. /\ Pos(off[h], I.headers[h].capacity, x) \in 0..(I.headers[h].capacity - 1)
        /\ Pos(off[h], I.headers[h].capacity, y) \in 0..(I.headers[h].capacity - 1)
    BY <1>1, PosType
  <1>3. \A p, r \in 0..(I.headers[h].capacity - 1) :
             I.headers[h].index[p] = I.headers[h].index[r] => p = r
    BY DEF HeadersOK
  <1> QED
    BY <1>1, <1>2, <1>3 DEF Ent

LEMMA RingFacts ==
  ASSUME NEW I, IsIndex(I), HeadersOK(I), I.headers # <<>>, NEW off \in Offsets(I)
  PROVE  /\ Cap(I) \in Nat /\ Cap(I) > 0
         /\ \A x \in Int : Entry(off, I, x) \in 1..Len(I.entries)
         /\ \A x, y \in Int : Entry(off, I, x) = Entry(off, I, y) =>
               (x - y < Cap(I) /\ y - x < Cap(I) => x = y)
         /\ \A x \in Int : Entry(off, I, x + Cap(I)) = Entry(off, I, x)
         /\ \A x \in Int : Entry(off, I, x - Cap(I)) = Entry(off, I, x)
         /\ \A x, y \in Int : Entry(off, I, x) = Entry(off, I, y) <=>
               Pos(off[Len(I.headers)], Cap(I), x) = Pos(off[Len(I.headers)], Cap(I), y)
  <1>1. PICK n : n = Len(I.headers) /\ n \in 1..Len(I.headers)
    BY HeaderFacts
  <1>2. /\ Cap(I) \in Nat /\ Cap(I) > 0 /\ Cap(I) = I.headers[n].capacity
        /\ off[n] \in Int
    BY <1>1, HeaderFacts DEF Cap, Offsets
  <1>3. \A x, y \in Int : /\ Entry(off, I, x) \in 1..Len(I.entries)
                          /\ Entry(off, I, x) = Entry(off, I, y) <=>
                                Pos(off[n], Cap(I), x) = Pos(off[n], Cap(I), y)
    <2>1. \A x : Entry(off, I, x) = Ent(off, I, n, x)
      BY <1>1 DEF Entry
    <2>2. \A x, y \in Int : /\ Ent(off, I, n, x) \in 1..Len(I.entries)
                            /\ Ent(off, I, n, x) = Ent(off, I, n, y) <=>
                                  Pos(off[n], Cap(I), x) = Pos(off[n], Cap(I), y)
      <3>1. SUFFICES ASSUME NEW x \in Int, NEW y \in Int
                     PROVE  /\ Ent(off, I, n, x) \in 1..Len(I.entries)
                            /\ Ent(off, I, n, x) = Ent(off, I, n, y) <=>
                                  Pos(off[n], Cap(I), x) = Pos(off[n], Cap(I), y)
        OBVIOUS
      <3>2. /\ Ent(off, I, n, x) \in 1..Len(I.entries)
            /\ Ent(off, I, n, x) = Ent(off, I, n, y) <=>
                  Pos(off[n], I.headers[n].capacity, x) = Pos(off[n], I.headers[n].capacity, y)
        BY <1>1, EntFacts
      <3> QED
        BY <1>2, <3>2, Zenon
    <2> QED
      BY <2>1, <2>2
  <1>4. PICK o \in Int, k \in Nat : o = off[n] /\ k = Cap(I) /\ k > 0
    BY <1>2
  <1>5. \A x, y \in Int : Pos(o, k, x) = Pos(o, k, y) => (x - y < k /\ y - x < k => x = y)
    BY <1>4, PosNear
  <1>6. \A x \in Int : Pos(o, k, x + k) = Pos(o, k, x) /\ Pos(o, k, x - k) = Pos(o, k, x)
    BY <1>4, PosPeriod
  <1>7. \A x \in Int : x + k \in Int /\ x - k \in Int
    BY <1>4
  <1>8. \A x \in Int : Entry(off, I, x + k) = Entry(off, I, x)
                       /\ Entry(off, I, x - k) = Entry(off, I, x)
    BY <1>3, <1>4, <1>6, <1>7
  <1> QED
    BY <1>1, <1>2, <1>3, <1>4, <1>5, <1>8

\* The ring as a function of the numbers, with its size.
RingOf(E, c, off, I) ==
    /\ c > 0 /\ c = Cap(I)
    /\ \A x \in Int : E[x] = Entry(off, I, x) /\ E[x] \in 1..Len(I.entries)
    /\ \A x, y \in Int : E[x] = E[y] => (x - y < c /\ y - x < c => x = y)
    /\ \A x \in Int : E[x + c] = E[x] /\ E[x - c] = E[x]

LEMMA RingView ==
  ASSUME NEW I, IsIndex(I), HeadersOK(I), I.headers # <<>>, NEW off \in Offsets(I)
  PROVE  \E c \in Nat : \E E : RingOf(E, c, off, I)
  <1>1. PICK E : \A x \in Int : E[x] = Entry(off, I, x)
    <2> DEFINE F == [x \in Int |-> Entry(off, I, x)]
    <2>1. \A x \in Int : F[x] = Entry(off, I, x)
      OBVIOUS
    <2> HIDE DEF F
    <2> QED
      BY <2>1
  <1>2. PICK c \in Nat : c = Cap(I) /\ c > 0
    BY RingFacts
  <1>3. ASSUME NEW x \in Int, NEW y \in Int, E[x] = E[y], x - y < c, y - x < c PROVE x = y
    <2>1. x - y < Cap(I) /\ y - x < Cap(I)
      BY <1>2, <1>3
    <2>2. Entry(off, I, x) = Entry(off, I, y)
      BY <1>1, <1>3
    <2> QED
      BY <2>1, <2>2, RingFacts
  <1>4. \A x \in Int : E[x] \in 1..Len(I.entries)
    BY <1>1, RingFacts
  <1>5. ASSUME NEW x \in Int PROVE E[x + c] = E[x] /\ E[x - c] = E[x]
    <2>1. PICK y \in Int, z \in Int : y = x + c /\ z = x - c
      BY <1>2
    <2>2. Entry(off, I, y) = Entry(off, I, x) /\ Entry(off, I, z) = Entry(off, I, x)
      BY <1>2, <2>1, RingFacts
    <2>3. E[y] = E[x] /\ E[z] = E[x]
      BY <1>1, <2>2
    <2> QED
      BY <2>1, <2>3
  <1>6. RingOf(E, c, off, I)
    BY <1>1, <1>2, <1>3, <1>4, <1>5 DEF RingOf
  <1> QED
    BY <1>6

LEMMA KeyedFacts ==
  ASSUME NEW I, NEW e, NEW x \in Int, Keyed(I, e, x)
  PROVE  /\ ~Unkeyed(I, e)
         /\ \A y \in Int : Keyed(I, e, y) => y = x
  BY KeyType, KeyMono DEF Keyed, Unkeyed

\* The key of an entry tells which numbers it is for.
LEMMA EntryNumber ==
  ASSUME NEW I, IsIndex(I), NEW off \in Offsets(I), Aligned(off, I), HeadersOK(I),
         NEW h \in 1..Len(I.headers), NEW x \in Int, ~Unkeyed(I, Ent(off, I, h, x))
  PROVE  \E y \in Nat : /\ Keyed(I, Ent(off, I, h, x), y)
                        /\ Ent(off, I, h, y) = Ent(off, I, h, x)
                        /\ 2 * KeyOf(y) < IndexMod
  <1>1. PICK p : /\ p = Pos(off[h], I.headers[h].capacity, x)
                 /\ p \in 0..(I.headers[h].capacity - 1)
    BY EntFacts
  <1>2. PICK y \in Nat : /\ Keyed(I, I.headers[h].index[p], y)
                         /\ p = Pos(off[h], I.headers[h].capacity, y)
                         /\ 2 * KeyOf(y) < IndexMod
    BY <1>1 DEF Aligned, Ent
  <1>3. y \in Int
    BY <1>2
  <1>4. Ent(off, I, h, y) = Ent(off, I, h, x)
    BY <1>1, <1>2, <1>3, EntFacts
  <1> QED
    BY <1>1, <1>2, <1>4 DEF Ent


LEMMA OffsetOfBlocks ==
  ASSUME NEW x \in Int, NEW y \in Int,
         2 * (KeyOf(x) - KeyOf(y)) < IndexMod, 2 * (KeyOf(y) - KeyOf(x)) <= IndexMod,
         NEW i, NEW b, (i - b) % IndexMod = (KeyOf(x) - KeyOf(y)) % IndexMod
  PROVE  BlockOffset(i, b) = x - y
  <1>0. BLOCK_SIZE \in Nat /\ BLOCK_SIZE > 0 /\ IndexMod \in Nat /\ IndexMod > 0
    BY SizesAssumption
  <1>1. PICK k \in Nat : IndexMod = 2 * k /\ IndexMod \div 2 = k
    BY HalfRange
  <1>2. PICK a \in Int : a = KeyOf(x) - KeyOf(y) /\ 2 * a < IndexMod /\ -2 * a <= IndexMod
    <2>1. PICK m \in Int, n \in Int : m = KeyOf(x) /\ n = KeyOf(y)
      BY KeyType
    <2>2. 2 * (m - n) < IndexMod /\ 2 * (n - m) <= IndexMod
      BY <2>1
    <2> QED
      BY <1>0, <2>1, <2>2
  <1>3. a = BLOCK_SIZE * (x - y)
    BY <1>0, <1>2 DEF KeyOf
  <1>4. (IF a % IndexMod >= k THEN (a % IndexMod) - IndexMod ELSE a % IndexMod) = a
    <2>1. a < k /\ -a <= k /\ k > 0
      BY <1>0, <1>1, <1>2
    <2>2. CASE a >= 0
      <3>1. a % IndexMod = a
        BY <1>1, <2>1, <2>2, ModSmall
      <3> QED
        BY <2>1, <3>1
    <2>3. CASE a < 0
      <3>1. a % IndexMod = a + IndexMod
        BY <1>0, <1>1, <2>1, <2>3, DivModUnique
      <3> QED
        BY <1>1, <2>1, <3>1
    <2> QED
      BY <2>2, <2>3
  <1>5. BlockOffset(i, b) = a \div BLOCK_SIZE
    BY <1>1, <1>2, <1>4 DEF BlockOffset
  <1>6. a \div BLOCK_SIZE = x - y
    <2>1. a = BLOCK_SIZE * (x - y) + 0 /\ 0 \in 0..(BLOCK_SIZE - 1) /\ x - y \in Int
      BY <1>0, <1>3
    <2> QED
      BY <1>0, <2>1, DivModUnique
  <1> QED
    BY <1>5, <1>6

LEMMA PosShift ==
  ASSUME NEW o \in Int, NEW n \in Nat, n > 0, NEW x \in Int, NEW y \in Int
  PROVE  (Pos(o, n, y) + (x - y)) % n = Pos(o, n, x)
  <1>0. PICK b \in Int : b = y - o
    OBVIOUS
  <1>1. PICK j \in Int, r \in 0..(n - 1) : b = n * j + r /\ b % n = r
    BY DivMod
  <1>2. x - o = (r + (x - y)) + n * j /\ r + (x - y) \in Int
    BY <1>0, <1>1
  <1>3. ((r + (x - y)) + n * j) % n = (r + (x - y)) % n
    BY <1>2, ModPeriod
  <1> QED
    BY <1>0, <1>1, <1>2, <1>3 DEF Pos

\* get_block_index_index_for_index finds the entry of the block.
LEMMA EntryForNo ==
  ASSUME NEW I, IsIndex(I), HeadersOK(I), NEW off \in Offsets(I), NEW h \in 1..Len(I.headers),
         NEW y \in Nat, 2 * KeyOf(y) < IndexMod, NEW x \in Nat, 2 * KeyOf(x) < IndexMod,
         NEW s, s = Pos(off[h], I.headers[h].capacity, y),
         NEW i, Base(i) = KeyOf(x)
  PROVE  EntryFor(I.headers[h], s, KeyOf(y), i) = Ent(off, I, h, x)
  <1>0. IndexMod \in Nat
    BY SizesAssumption
  <1>1. PICK a \in Nat, b \in Nat : /\ a = KeyOf(x) /\ 2 * a < IndexMod
                                    /\ b = KeyOf(y) /\ 2 * b < IndexMod
    <2>1. x \in Int /\ x >= 0 /\ y \in Int /\ y >= 0
      OBVIOUS
    <2>2. KeyOf(x) \in Nat /\ KeyOf(y) \in Nat
      BY <2>1, KeyType
    <2> QED
      BY <2>2
  <1>2. BlockOffset(Base(i), KeyOf(y)) = x - y
    <2>1. 2 * (a - b) < IndexMod /\ 2 * (b - a) <= IndexMod
      BY <1>0, <1>1
    <2>2. (Base(i) - KeyOf(y)) % IndexMod = (KeyOf(x) - KeyOf(y)) % IndexMod
      OBVIOUS
    <2> QED
      BY <1>1, <2>1, <2>2, OffsetOfBlocks
  <1>3. PICK c \in Nat, o \in Int : c = I.headers[h].capacity /\ c > 0 /\ o = off[h]
    BY HeaderAt DEF Offsets
  <1>4. c > 0 /\ s = Pos(o, c, y)
    BY <1>3, Zenon
  <1>5. x \in Int /\ y \in Int
    OBVIOUS
  <1>6. (Pos(o, c, y) + (x - y)) % c = Pos(o, c, x)
    BY <1>4, <1>5, PosShift, Zenon
  <1>7. EntryFor(I.headers[h], s, KeyOf(y), i) =
           I.headers[h].index[(s + (x - y)) % I.headers[h].capacity]
    BY <1>2, Zenon DEF EntryFor
  <1> QED
    BY <1>3, <1>4, <1>6, <1>7, Zenon DEF Ent

-----------------------------------------------------------------------------
(***************************************************************************)
(* The keys in the ring                                                    *)
(***************************************************************************)

LEMMA SameKeyed ==
  ASSUME NEW I, NEW J, SameKeys(I, J), NEW e \in 1..Len(I.entries)
  PROVE  /\ Unkeyed(J, e) <=> Unkeyed(I, e)
         /\ \A x : Keyed(J, e, x) <=> Keyed(I, e, x)
  BY DEF SameKeys, Unkeyed, Keyed

LEMMA AlignedSame ==
  ASSUME NEW I, IsIndex(I), NEW J, SameRings(I, J), SameKeys(I, J), NEW off \in Offsets(I)
  PROVE  /\ Aligned(off, I) => Aligned(off, J)
         /\ HeadersOK(I) => HeadersOK(J)
         /\ off \in Offsets(J)
  <1>1. ASSUME NEW h \in 1..Len(I.headers)
        PROVE  /\ J.headers[h].capacity = I.headers[h].capacity
               /\ J.headers[h].index = I.headers[h].index
               /\ \A p \in 0..(I.headers[h].capacity - 1) :
                     I.headers[h].index[p] \in 1..Len(I.entries)
    BY HeaderAt DEF SameRings
  <1>2. Len(J.headers) = Len(I.headers)
    BY DEF SameRings
  <1>3. ASSUME NEW h \in 1..Len(I.headers), NEW p \in 0..(I.headers[h].capacity - 1)
        PROVE  /\ Unkeyed(J, I.headers[h].index[p]) <=> Unkeyed(I, I.headers[h].index[p])
               /\ \A y : Keyed(J, I.headers[h].index[p], y) <=> Keyed(I, I.headers[h].index[p], y)
    BY <1>1, SameKeyed
  <1>4. ASSUME Aligned(off, I) PROVE Aligned(off, J)
    <2>1. SUFFICES ASSUME NEW h \in 1..Len(J.headers), NEW p \in 0..(J.headers[h].capacity - 1)
                   PROVE  \/ Unkeyed(J, J.headers[h].index[p])
                          \/ \E y \in Nat : /\ Keyed(J, J.headers[h].index[p], y)
                                            /\ p = Pos(off[h], J.headers[h].capacity, y)
                                            /\ 2 * KeyOf(y) < IndexMod
      BY DEF Aligned
    <2>2. h \in 1..Len(I.headers) /\ p \in 0..(I.headers[h].capacity - 1)
      BY <1>1, <1>2
    <2>3. \/ Unkeyed(I, I.headers[h].index[p])
          \/ \E y \in Nat : /\ Keyed(I, I.headers[h].index[p], y)
                            /\ p = Pos(off[h], I.headers[h].capacity, y)
                            /\ 2 * KeyOf(y) < IndexMod
      BY <1>4, <2>2 DEF Aligned
    <2> QED
      BY <1>1, <1>3, <2>2, <2>3, Zenon
  <1>5. ASSUME HeadersOK(I) PROVE HeadersOK(J)
    <2>1. SUFFICES ASSUME NEW h \in 1..Len(I.headers)
                   PROVE  /\ \A p, r \in 0..(J.headers[h].capacity - 1) :
                               J.headers[h].index[p] = J.headers[h].index[r] => p = r
                          /\ \E m \in Nat : m > 0 /\ Cap(J) = J.headers[h].capacity * m
                          /\ h < Len(J.headers) => \A p \in 0..(J.headers[h].capacity - 1) :
                               ~Unkeyed(J, J.headers[h].index[p])
      BY <1>2, Zenon DEF HeadersOK
    <2>2. /\ \A p, r \in 0..(I.headers[h].capacity - 1) :
                I.headers[h].index[p] = I.headers[h].index[r] => p = r
          /\ \E m \in Nat : m > 0 /\ Cap(I) = I.headers[h].capacity * m
          /\ h < Len(I.headers) => \A p \in 0..(I.headers[h].capacity - 1) :
                ~Unkeyed(I, I.headers[h].index[p])
      BY <1>5 DEF HeadersOK
    <2>3. Cap(J) = Cap(I)
      <3>1. Len(I.headers) \in 1..Len(I.headers)
        BY DEF IsIndex
      <3> QED
        BY <1>1, <1>2, <3>1 DEF Cap
    <2> QED
      BY <1>1, <1>2, <1>3, <2>2, <2>3, Zenon
  <1> QED
    BY <1>2, <1>4, <1>5 DEF Offsets

\* The three parts of Window.
TailAt(off, I, n) == I.headers[Len(I.headers)].tail = Pos(off[Len(I.headers)], Cap(I), n)
KeysNear(off, I, n) ==
    \A y \in Nat : Keyed(I, Entry(off, I, y), y) =>
       /\ n - Cap(I) < y /\ y <= n + Cap(I)
       /\ \A z \in (n + 1)..y : Keyed(I, Entry(off, I, z), z)
Filling(off, I, n) ==
    \A x \in (n - Cap(I) + 1)..n : Unkeyed(I, Entry(off, I, x)) =>
       \A z \in (n - Cap(I) + 1)..x :
          Unkeyed(I, Entry(off, I, z)) \/ Keyed(I, Entry(off, I, z), z + Cap(I))

LEMMA WindowParts ==
  ASSUME NEW off, NEW I, I.headers # <<>>, NEW n
  PROVE  Window(off, I, n) <=> TailAt(off, I, n) /\ KeysNear(off, I, n) /\ Filling(off, I, n)
  BY Zenon DEF Window, TailAt, KeysNear, Filling

LEMMA WindowSame ==
  ASSUME NEW I, IsIndex(I), HeadersOK(I), I.headers # <<>>, NEW off \in Offsets(I),
         NEW J, SameRings(I, J), SameKeys(I, J), NEW n \in Int, Window(off, I, n), NEW m \in Int,
         TailAt(off, J, m),
         \/ m = n
         \/ m = n + 1 /\ Keyed(I, Entry(off, I, m), m)
         \/ m = n - 1 /\ n >= 0 /\ Keyed(I, Entry(off, I, n), n)
  PROVE  Window(off, J, m)
  <1>1. PICK c \in Nat : \E E : RingOf(E, c, off, I)
    BY RingView
  <1>2. PICK E : RingOf(E, c, off, I)
    BY <1>1
  <1>3. \A x \in Int : E[x] = Entry(off, I, x)
    BY <1>2 DEF RingOf
  <1>4. c = Cap(I)
    BY <1>2 DEF RingOf
  <1>5. c > 0
    BY <1>2 DEF RingOf
  <1>6. /\ \A x \in Int : E[x] \in 1..Len(I.entries)
        /\ \A x, y \in Int : E[x] = E[y] => (x - y < c /\ y - x < c => x = y)
        /\ \A x \in Int : E[x + c] = E[x] /\ E[x - c] = E[x]
    BY <1>2 DEF RingOf
  <1>7. \A x \in Int : Entry(off, J, x) = E[x]
    BY <1>3, SameEntries
  <1>8. Cap(J) = c
    BY <1>4, SameEntries
  <1>9. J.headers # <<>>
    <2>1. Len(I.headers) \in 1..Len(I.headers)
      BY HeaderFacts
    <2> QED
      BY <2>1 DEF SameRings
  <1>10. \A x \in Int : /\ Unkeyed(J, E[x]) <=> Unkeyed(I, E[x])
                        /\ \A y : Keyed(J, E[x], y) <=> Keyed(I, E[x], y)
    BY <1>6, SameKeyed
  <1>11. \A x, y, z \in Int : Keyed(I, E[x], y) /\ Keyed(I, E[x], z) => y = z
    BY KeyedFacts
  <1>12. \A x, y \in Int : Keyed(I, E[x], y) => ~Unkeyed(I, E[x])
    BY KeyedFacts
  <1>13. /\ \A y \in Nat : Keyed(I, E[y], y) =>
              /\ n - c < y /\ y <= n + c
              /\ \A z \in (n + 1)..y : Keyed(I, E[z], z)
         /\ \A x \in (n - c + 1)..n : Unkeyed(I, E[x]) =>
              \A z \in (n - c + 1)..x : Unkeyed(I, E[z]) \/ Keyed(I, E[z], z + c)
    <2>1. KeysNear(off, I, n) /\ Filling(off, I, n)
      BY WindowParts
    <2>2. /\ \A y \in Nat : y \in Int
          /\ \A x : x \in (n - c + 1)..n => x \in Int
          /\ \A y, z : z \in (n + 1)..y => z \in Int
          /\ \A x, z : z \in (n - c + 1)..x => z \in Int
      OBVIOUS
    <2>3. \A y \in Nat : Keyed(I, E[y], y) =>
              /\ n - c < y /\ y <= n + c
              /\ \A z \in (n + 1)..y : Keyed(I, E[z], z)
      BY <1>4, <1>3, <2>1, <2>2 DEF KeysNear
    <2>4. \A x \in (n - c + 1)..n : Unkeyed(I, E[x]) =>
              \A z \in (n - c + 1)..x : Unkeyed(I, E[z]) \/ Keyed(I, E[z], z + c)
      BY <1>4, <1>3, <2>1, <2>2 DEF Filling
    <2> QED
      BY <2>3, <2>4
  <1>14. \/ m = n
         \/ m = n + 1 /\ Keyed(I, E[m], m)
         \/ m = n - 1 /\ n \in Nat /\ Keyed(I, E[n], n)
    BY <1>3
  <1>15. ASSUME NEW y \in Nat, Keyed(I, E[y], y)
         PROVE  /\ m - c < y /\ y <= m + c
                /\ \A z \in (m + 1)..y : Keyed(I, E[z], z)
    <2>1. /\ n - c < y /\ y <= n + c
          /\ \A z \in (n + 1)..y : Keyed(I, E[z], z)
      BY <1>13, <1>15
    <2>2. CASE m = n
      BY <2>1, <2>2
    <2>3. CASE m = n + 1 /\ Keyed(I, E[m], m)
      <3>1. y # m - c
        <4>1. SUFFICES ASSUME y = m - c PROVE FALSE
          OBVIOUS
        <4>2. E[y] = E[m] /\ y \in Int
          <5>1. m = y + c /\ y \in Int
            BY <4>1
          <5> QED
            BY <1>6, <5>1
        <4>3. y = m
          BY <1>11, <1>15, <2>3, <4>2
        <4> QED
          BY <1>5, <4>1, <4>3
      <3> QED
        BY <2>1, <2>3, <3>1
    <2>4. CASE m = n - 1 /\ n \in Nat /\ Keyed(I, E[n], n)
      <3>1. y # n + c
        <4>1. SUFFICES ASSUME y = n + c PROVE FALSE
          OBVIOUS
        <4>2. E[y] = E[n] /\ y \in Int
          <5>1. n = y - c /\ y \in Int
            BY <1>6, <4>1
          <5> QED
            BY <1>6, <5>1
        <4>3. y = n
          BY <1>11, <1>15, <2>4, <4>2
        <4> QED
          BY <1>5, <4>1, <4>3
      <3>2. \A z \in (m + 1)..y : z = n \/ z \in (n + 1)..y
        BY <2>4
      <3> QED
        BY <2>1, <2>4, <3>1, <3>2
    <2> QED
      BY <1>14, <2>2, <2>3, <2>4
  <1>16. ASSUME NEW x \in (m - c + 1)..m, Unkeyed(I, E[x]), NEW z \in (m - c + 1)..x
         PROVE  Unkeyed(I, E[z]) \/ Keyed(I, E[z], z + c)
    <2>1. x \in Int /\ z \in Int
      OBVIOUS
    <2>2. CASE m = n
      BY <1>13, <1>16, <2>2
    <2>3. CASE m = n + 1 /\ Keyed(I, E[m], m)
      <3>1. x # m
        BY <1>12, <1>16, <2>3
      <3>2. x \in (n - c + 1)..n /\ z \in (n - c + 1)..x
        BY <1>5, <2>1, <2>3, <3>1
      <3> QED
        BY <1>13, <1>16, <3>2
    <2>4. CASE m = n - 1 /\ n \in Nat /\ Keyed(I, E[n], n)
      <3>1. CASE z = n - c
        <4>1. E[z] = E[n] /\ z + c = n
          BY <1>6, <3>1
        <4> QED
          BY <2>4, <4>1
      <3>2. CASE z # n - c
        <4>1. x \in (n - c + 1)..n /\ z \in (n - c + 1)..x
          BY <1>5, <2>1, <2>4, <3>2
        <4> QED
          BY <1>13, <1>16, <4>1
      <3> QED
        BY <3>1, <3>2
    <2> QED
      BY <1>14, <2>2, <2>3, <2>4
  <1>17. KeysNear(off, J, m)
    <2>1. SUFFICES ASSUME NEW y \in Nat, Keyed(J, Entry(off, J, y), y)
                   PROVE  /\ m - Cap(J) < y /\ y <= m + Cap(J)
                          /\ \A z \in (m + 1)..y : Keyed(J, Entry(off, J, z), z)
      BY DEF KeysNear
    <2>2. y \in Int /\ \A z \in (m + 1)..y : z \in Int
      OBVIOUS
    <2>3. Keyed(I, E[y], y)
      BY <1>7, <1>10, <2>1, <2>2
    <2>4. /\ m - c < y /\ y <= m + c
          /\ \A z \in (m + 1)..y : Keyed(I, E[z], z)
      BY <1>15, <2>3
    <2> QED
      BY <1>7, <1>8, <1>10, <2>2, <2>4
  <1>18. Filling(off, J, m)
    <2>1. SUFFICES ASSUME NEW x \in (m - c + 1)..m, Unkeyed(J, Entry(off, J, x)),
                          NEW z \in (m - c + 1)..x
                   PROVE  Unkeyed(J, Entry(off, J, z)) \/ Keyed(J, Entry(off, J, z), z + c)
      BY <1>8 DEF Filling
    <2>2. x \in Int /\ z \in Int
      OBVIOUS
    <2>3. Unkeyed(I, E[x])
      BY <1>7, <1>10, <2>1, <2>2
    <2>4. Unkeyed(I, E[z]) \/ Keyed(I, E[z], z + c)
      BY <1>16, <2>3
    <2> QED
      BY <1>7, <1>10, <2>2, <2>4
  <1> QED
    BY <1>9, <1>17, <1>18, WindowParts

\* A key is inserted into the entry after the tail.
KeySetTo(I, J, e, x) ==
    /\ J.headers = I.headers /\ Len(J.entries) = Len(I.entries)
    /\ Keyed(J, e, x)
    /\ \A f \in 1..Len(I.entries) : f # e => J.entries[f].key = I.entries[f].key

LEMMA KeySetToFacts ==
  ASSUME NEW I, IsIndex(I), HeadersOK(I), I.headers # <<>>, NEW off \in Offsets(I),
         NEW J, NEW e \in 1..Len(I.entries), NEW x \in Int, KeySetTo(I, J, e, x)
  PROVE  /\ SameRings(I, J) /\ J.headers # <<>> /\ off \in Offsets(J)
         /\ Cap(J) = Cap(I) /\ \A z : Entry(off, J, z) = Entry(off, I, z)
         /\ ~Unkeyed(J, e) /\ \A y \in Int : Keyed(J, e, y) <=> y = x
         /\ \A f \in 1..Len(I.entries) : f # e =>
               /\ Unkeyed(J, f) <=> Unkeyed(I, f)
               /\ \A y : Keyed(J, f, y) <=> Keyed(I, f, y)
         /\ \A f \in 1..Len(I.entries) : ~Unkeyed(I, f) => ~Unkeyed(J, f)
  <1>1. SameRings(I, J) /\ J.headers # <<>> /\ off \in Offsets(J)
    BY DEF SameRings, KeySetTo, Offsets
  <1>2. Cap(J) = Cap(I) /\ \A z : Entry(off, J, z) = Entry(off, I, z)
    BY <1>1, SameEntries
  <1>3. ~Unkeyed(J, e) /\ \A y \in Int : Keyed(J, e, y) <=> y = x
    BY KeyedFacts DEF KeySetTo
  <1>4. \A f \in 1..Len(I.entries) : f # e =>
               /\ Unkeyed(J, f) <=> Unkeyed(I, f)
               /\ \A y : Keyed(J, f, y) <=> Keyed(I, f, y)
    BY DEF KeySetTo, Unkeyed, Keyed
  <1> QED
    BY <1>1, <1>2, <1>3, <1>4

LEMMA KeyAligned ==
  ASSUME NEW I, IsIndex(I), HeadersOK(I), I.headers # <<>>, NEW off \in Offsets(I),
         Aligned(off, I), NEW x \in Nat, 2 * KeyOf(x) < IndexMod,
         NEW J, KeySetTo(I, J, Entry(off, I, x), x)
  PROVE  Aligned(off, J) /\ HeadersOK(J)
  <1>0. PICK e \in 1..Len(I.entries) : e = Entry(off, I, x)
    <2>1. x \in Int
      OBVIOUS
    <2> QED
      BY <2>1, RingFacts
  <1>1. /\ J.headers = I.headers /\ Cap(J) = Cap(I)
        /\ ~Unkeyed(J, e) /\ Keyed(J, e, x)
        /\ \A f \in 1..Len(I.entries) : f # e =>
               /\ Unkeyed(J, f) <=> Unkeyed(I, f)
               /\ \A y : Keyed(J, f, y) <=> Keyed(I, f, y)
        /\ \A f \in 1..Len(I.entries) : ~Unkeyed(I, f) => ~Unkeyed(J, f)
    <2>1. KeySetTo(I, J, e, x) /\ x \in Int
      BY <1>0
    <2> QED
      BY <2>1, KeySetToFacts DEF KeySetTo
  <1>2. \A h \in 1..Len(I.headers) : \A p \in 0..(I.headers[h].capacity - 1) :
           I.headers[h].index[p] \in 1..Len(I.entries)
    BY HeaderAt
  <1>3. HeadersOK(J)
    BY <1>1, <1>2, Zenon DEF HeadersOK
  <1>4. PICK n \in 1..Len(I.headers) : n = Len(I.headers)
    BY HeaderFacts
  <1>5. ASSUME NEW h \in 1..Len(I.headers), NEW p \in 0..(I.headers[h].capacity - 1),
               I.headers[h].index[p] = e
        PROVE  p = Pos(off[h], I.headers[h].capacity, x)
    <2>0. e = Ent(off, I, n, x) /\ x \in Int
      BY <1>0, <1>4 DEF Entry
    <2>1. CASE h = n
      <3>1. /\ e = I.headers[n].index[Pos(off[n], I.headers[n].capacity, x)]
            /\ Pos(off[n], I.headers[n].capacity, x) \in 0..(I.headers[n].capacity - 1)
        BY <2>0, EntFacts DEF Ent
      <3> QED
        BY <1>5, <2>1, <3>1 DEF HeadersOK
    <2>2. CASE h # n
      <3>1. ~Unkeyed(I, e)
        BY <1>4, <1>5, <2>2 DEF HeadersOK
      <3>2. PICK y \in Nat : Keyed(I, e, y) /\ p = Pos(off[h], I.headers[h].capacity, y)
        BY <1>5, <3>1 DEF Aligned
      <3>3. PICK z \in Nat : Keyed(I, e, z) /\ Ent(off, I, n, z) = Ent(off, I, n, x)
        BY <2>0, <3>1, EntryNumber
      <3>4. z = y /\ y \in Int
        BY <3>2, <3>3, KeyedFacts
      <3>5. Pos(off[n], I.headers[n].capacity, y) = Pos(off[n], I.headers[n].capacity, x)
        BY <2>0, <3>3, <3>4, EntFacts
      <3>6. PICK c \in Nat, m \in Nat, l \in Nat :
               /\ c = I.headers[h].capacity /\ c > 0 /\ m > 0 /\ l = c * m
               /\ l = I.headers[n].capacity
        BY <1>4, HeaderAt DEF HeadersOK, Cap
      <3>7. PICK o \in Int, w \in Int, a \in Int, b \in Int :
               o = off[h] /\ w = off[n] /\ a = y /\ b = x
        BY <2>0, <3>4 DEF Offsets
      <3>8. Pos(w, l, a) = Pos(w, l, b)
        BY <3>5, <3>6, <3>7
      <3>9. Pos(o, c, a) = Pos(o, c, b)
        <4>1. c > 0 /\ m > 0 /\ l = c * m
          BY <3>6
        <4>2. PosCoarser(o, c, w, l)
          BY <4>1, PosMultiple
        <4> QED
          BY <3>8, <4>2 DEF PosCoarser
      <3> QED
        BY <3>2, <3>6, <3>7, <3>9
    <2> QED
      BY <2>1, <2>2
  <1>6. SUFFICES ASSUME NEW h \in 1..Len(I.headers), NEW p \in 0..(I.headers[h].capacity - 1)
                 PROVE  \/ Unkeyed(J, I.headers[h].index[p])
                        \/ \E y \in Nat : /\ Keyed(J, I.headers[h].index[p], y)
                                          /\ p = Pos(off[h], I.headers[h].capacity, y)
                                          /\ 2 * KeyOf(y) < IndexMod
    BY <1>1, <1>3, Zenon DEF Aligned
  <1>7. CASE I.headers[h].index[p] = e
    BY <1>1, <1>5, <1>7
  <1>8. CASE I.headers[h].index[p] # e
    <2>1. \/ Unkeyed(I, I.headers[h].index[p])
          \/ \E y \in Nat : /\ Keyed(I, I.headers[h].index[p], y)
                            /\ p = Pos(off[h], I.headers[h].capacity, y)
                            /\ 2 * KeyOf(y) < IndexMod
      BY DEF Aligned
    <2> QED
      BY <1>1, <1>2, <1>8, <2>1, Zenon
  <1> QED
    BY <1>7, <1>8

LEMMA KeyWindow ==
  ASSUME NEW I, IsIndex(I), HeadersOK(I), I.headers # <<>>, NEW off \in Offsets(I),
         NEW n \in Int, n + 1 \in Nat, Window(off, I, n),
         NEW J, KeySetTo(I, J, Entry(off, I, n + 1), n + 1)
  PROVE  Window(off, J, n)
  <1>1. PICK c \in Nat : \E E : RingOf(E, c, off, I)
    BY RingView
  <1>2. PICK E : RingOf(E, c, off, I)
    BY <1>1
  <1>3. c = Cap(I)
    BY <1>2 DEF RingOf
  <1>4. c > 0
    BY <1>2 DEF RingOf
  <1>5. \A x \in Int : E[x] = Entry(off, I, x)
    BY <1>2 DEF RingOf
  <1>6. /\ \A x \in Int : E[x] \in 1..Len(I.entries)
        /\ \A x, y \in Int : E[x] = E[y] => (x - y < c /\ y - x < c => x = y)
        /\ \A x \in Int : E[x + c] = E[x] /\ E[x - c] = E[x]
    BY <1>2 DEF RingOf
  <1>7. PICK k \in Nat : k = n + 1
    OBVIOUS
  <1>8. PICK e \in 1..Len(I.entries) : e = E[k] /\ e = Entry(off, I, n + 1)
    <2>1. k \in Int
      OBVIOUS
    <2>2. E[k] \in 1..Len(I.entries) /\ E[k] = Entry(off, I, k)
      BY <1>5, <1>6, <2>1
    <2> QED
      BY <1>7, <2>2, Zenon
  <1>9. KeySetTo(I, J, e, k) /\ k \in Int
    BY <1>7, <1>8
  <1>10. /\ J.headers # <<>> /\ Cap(J) = c
         /\ \A x \in Int : Entry(off, J, x) = E[x]
    <2>1. /\ J.headers # <<>> /\ Cap(J) = Cap(I)
          /\ \A x : Entry(off, J, x) = Entry(off, I, x)
      BY <1>9, KeySetToFacts
    <2> QED
      BY <1>3, <1>5, <2>1
  <1>11. TailAt(off, J, n)
    <2>1. TailAt(off, I, n)
      BY WindowParts
    <2>2. J.headers = I.headers /\ Cap(J) = Cap(I)
      BY <1>3, <1>9, <1>10 DEF KeySetTo
    <2> QED
      BY <2>1, <2>2, Zenon DEF TailAt
  <1>12. /\ ~Unkeyed(J, e) /\ \A y \in Int : Keyed(J, e, y) <=> y = k
         /\ \A f \in 1..Len(I.entries) : f # e =>
               /\ Unkeyed(J, f) <=> Unkeyed(I, f)
               /\ \A y : Keyed(J, f, y) <=> Keyed(I, f, y)
    BY <1>9, KeySetToFacts
  <1>13. /\ \A y \in Nat : Keyed(I, E[y], y) =>
              /\ n - c < y /\ y <= n + c
              /\ \A z \in (n + 1)..y : Keyed(I, E[z], z)
         /\ \A x \in (n - c + 1)..n : Unkeyed(I, E[x]) =>
              \A z \in (n - c + 1)..x : Unkeyed(I, E[z]) \/ Keyed(I, E[z], z + c)
    <2>1. KeysNear(off, I, n) /\ Filling(off, I, n)
      BY WindowParts
    <2>2. /\ \A y \in Nat : y \in Int
          /\ \A x : x \in (n - c + 1)..n => x \in Int
          /\ \A y, z : z \in (n + 1)..y => z \in Int
          /\ \A x, z : z \in (n - c + 1)..x => z \in Int
      OBVIOUS
    <2>3. \A y \in Nat : Keyed(I, E[y], y) =>
              /\ n - c < y /\ y <= n + c
              /\ \A z \in (n + 1)..y : Keyed(I, E[z], z)
      BY <1>3, <1>5, <2>1, <2>2 DEF KeysNear
    <2>4. \A x \in (n - c + 1)..n : Unkeyed(I, E[x]) =>
              \A z \in (n - c + 1)..x : Unkeyed(I, E[z]) \/ Keyed(I, E[z], z + c)
      BY <1>3, <1>5, <2>1, <2>2 DEF Filling
    <2> QED
      BY <2>3, <2>4
  <1>14. ASSUME NEW y \in Nat, Keyed(J, E[y], y)
         PROVE  /\ n - c < y /\ y <= n + c
                /\ \A z \in (n + 1)..y : Keyed(J, E[z], z)
    <2>0. y \in Int
      OBVIOUS
    <2>1. y \in Int /\ E[y] \in 1..Len(I.entries)
      BY <1>6, <2>0
    <2>2. CASE E[y] = e
      <3>1. y = k
        BY <1>12, <1>14, <2>1, <2>2
      <3>2. \A z \in (n + 1)..y : z = k
        BY <1>7, <3>1
      <3>3. n - c < y /\ y <= n + c
        BY <1>4, <1>7, <3>1
      <3> QED
        BY <1>14, <3>1, <3>2, <3>3
    <2>3. CASE E[y] # e
      <3>1. Keyed(I, E[y], y)
        BY <1>12, <1>14, <2>1, <2>3
      <3>2. /\ n - c < y /\ y <= n + c
            /\ \A z \in (n + 1)..y : Keyed(I, E[z], z)
        BY <1>13, <3>1
      <3>3. ASSUME NEW z \in (n + 1)..y PROVE Keyed(J, E[z], z)
        <4>0. z \in Int /\ k \in Int
          OBVIOUS
        <4>1. z \in Int /\ E[z] \in 1..Len(I.entries)
          BY <1>6, <4>0
        <4>2. CASE E[z] = e
          <5>1. z - k < c /\ k - z < c
            BY <1>4, <1>7, <3>2
          <5>2. z = k
            BY <1>6, <1>8, <4>0, <4>2, <5>1
          <5> QED
            BY <1>12, <4>2, <5>2, <1>9
        <4>3. CASE E[z] # e
          BY <1>12, <3>2, <4>1, <4>3
        <4> QED
          BY <4>2, <4>3
      <3> QED
        BY <3>2, <3>3
    <2> QED
      BY <2>2, <2>3
  <1>15. ASSUME NEW x \in (n - c + 1)..n, Unkeyed(J, E[x]), NEW z \in (n - c + 1)..x
         PROVE  Unkeyed(J, E[z]) \/ Keyed(J, E[z], z + c)
    <2>1. x \in Int /\ z \in Int /\ E[x] \in 1..Len(I.entries) /\ E[z] \in 1..Len(I.entries)
      <3>1. x \in Int /\ z \in Int
        OBVIOUS
      <3> QED
        BY <1>6, <3>1
    <2>2. Unkeyed(I, E[x])
      BY <1>12, <1>15, <2>1
    <2>3. Unkeyed(I, E[z]) \/ Keyed(I, E[z], z + c)
      BY <1>13, <2>2
    <2>4. CASE E[z] = e
      <3>1. PICK v \in Int : v = z + c
        BY <2>1
      <3>2. E[v] = e
        BY <1>6, <2>1, <2>4, <3>1
      <3>3. v - k < c /\ k - v < c
        BY <1>4, <1>7, <2>1, <3>1
      <3>4. v = k
        BY <1>6, <1>8, <1>9, <3>2, <3>3
      <3> QED
        BY <1>9, <1>12, <2>4, <3>1, <3>4
    <2>5. CASE E[z] # e
      BY <1>12, <2>1, <2>3, <2>5
    <2> QED
      BY <2>4, <2>5
  <1>16. KeysNear(off, J, n)
    <2>1. SUFFICES ASSUME NEW y \in Nat, Keyed(J, Entry(off, J, y), y)
                   PROVE  /\ n - Cap(J) < y /\ y <= n + Cap(J)
                          /\ \A z \in (n + 1)..y : Keyed(J, Entry(off, J, z), z)
      BY DEF KeysNear
    <2>2. y \in Int /\ \A z \in (n + 1)..y : z \in Int
      OBVIOUS
    <2>3. Keyed(J, E[y], y)
      BY <1>10, <2>1, <2>2
    <2>4. /\ n - c < y /\ y <= n + c
          /\ \A z \in (n + 1)..y : Keyed(J, E[z], z)
      BY <1>14, <2>3
    <2> QED
      BY <1>10, <2>2, <2>4
  <1>17. Filling(off, J, n)
    <2>1. SUFFICES ASSUME NEW x \in (n - c + 1)..n, Unkeyed(J, Entry(off, J, x)),
                          NEW z \in (n - c + 1)..x
                   PROVE  Unkeyed(J, Entry(off, J, z)) \/ Keyed(J, Entry(off, J, z), z + c)
      BY <1>10 DEF Filling
    <2>2. x \in Int /\ z \in Int
      OBVIOUS
    <2>3. Unkeyed(J, E[x])
      BY <1>10, <2>1, <2>2
    <2>4. Unkeyed(J, E[z]) \/ Keyed(J, E[z], z + c)
      BY <1>15, <2>3
    <2> QED
      BY <1>10, <2>2, <2>4
  <1> QED
    BY <1>10, <1>11, <1>16, <1>17, WindowParts

\* When the entry after the tail is still in use, the ring holds the keys of
\* as many numbers as it has entries.
LEMMA RingFull ==
  ASSUME NEW I, IsIndex(I), HeadersOK(I), I.headers # <<>>, NEW off \in Offsets(I),
         Aligned(off, I), NEW n \in Int, Window(off, I, n), n + 1 - Cap(I) \in Nat,
         Keyed(I, Entry(off, I, n + 1), n + 1 - Cap(I))
  PROVE  \A x \in (n - Cap(I) + 1)..n :
            x \in Nat /\ Keyed(I, Entry(off, I, x), x) /\ 2 * KeyOf(x) < IndexMod
  <1>1. PICK c \in Nat : \E E : RingOf(E, c, off, I)
    BY RingView
  <1>2. PICK E : RingOf(E, c, off, I)
    BY <1>1
  <1>3. c = Cap(I)
    BY <1>2 DEF RingOf
  <1>4. c > 0
    BY <1>2 DEF RingOf
  <1>5. \A x \in Int : E[x] = Entry(off, I, x)
    BY <1>2 DEF RingOf
  <1>6. /\ \A x \in Int : E[x] \in 1..Len(I.entries)
        /\ \A x, y \in Int : E[x] = E[y] => (x - y < c /\ y - x < c => x = y)
        /\ \A x \in Int : E[x + c] = E[x] /\ E[x - c] = E[x]
    BY <1>2 DEF RingOf
  <1>7. PICK a \in Int, k \in Int : a = n + 1 - c /\ k = n + 1 /\ a = k - c
    OBVIOUS
  <1>8. E[a] = E[k]
    BY <1>6, <1>7
  <1>9. Keyed(I, E[k], a)
    <2>1. a = n + 1 - Cap(I) /\ E[k] = Entry(off, I, k)
      BY <1>3, <1>5, <1>7
    <2> QED
      BY <1>7, <2>1
  <1>10. ~Keyed(I, E[k], k) /\ ~Unkeyed(I, E[k])
    <2>1. k # a
      BY <1>4, <1>7
    <2> QED
      BY <1>9, <2>1, KeyedFacts
  <1>11. KeysNear(off, I, n) /\ Filling(off, I, n)
    BY WindowParts
  <1>12. SUFFICES ASSUME NEW x \in (n - c + 1)..n
                  PROVE  x \in Nat /\ Keyed(I, Entry(off, I, x), x) /\ 2 * KeyOf(x) < IndexMod
    BY <1>3
  <1>13. x \in Int /\ Entry(off, I, x) = E[x]
    BY <1>5
  <1>14. ~Unkeyed(I, E[x])
    <2>1. SUFFICES ASSUME Unkeyed(I, E[x]) PROVE FALSE
      OBVIOUS
    <2>2. /\ x \in (n - Cap(I) + 1)..n /\ a \in (n - Cap(I) + 1)..x
          /\ a + Cap(I) = k
      BY <1>3, <1>7
    <2>3. Unkeyed(I, Entry(off, I, a)) \/ Keyed(I, Entry(off, I, a), a + Cap(I))
      BY <1>11, <1>13, <2>1, <2>2 DEF Filling
    <2>4. Entry(off, I, a) = E[k]
      BY <1>5, <1>8
    <2> QED
      BY <1>10, <2>2, <2>3, <2>4, Zenon
  <1>15. PICK y \in Nat : /\ Keyed(I, E[x], y) /\ Entry(off, I, y) = E[x]
                          /\ 2 * KeyOf(y) < IndexMod
    <2>1. PICK h \in 1..Len(I.headers) : h = Len(I.headers)
      BY HeaderFacts
    <2>2. \A z : Ent(off, I, h, z) = Entry(off, I, z)
      BY <2>1 DEF Entry
    <2> QED
      BY <1>13, <1>14, <2>2, EntryNumber
  <1>16. Keyed(I, Entry(off, I, y), y) /\ y \in Int
    BY <1>15
  <1>17. /\ n - Cap(I) < y /\ y <= n + Cap(I)
         /\ \A z \in (n + 1)..y : Keyed(I, Entry(off, I, z), z)
    BY <1>11, <1>16 DEF KeysNear
  <1>18. y <= n
    <2>1. SUFFICES ASSUME y > n PROVE FALSE
      BY <1>16
    <2>2. k \in (n + 1)..y
      BY <1>7, <1>16, <2>1
    <2> QED
      BY <1>5, <1>10, <1>17, <2>2
  <1>19. x - y < c /\ y - x < c
    BY <1>3, <1>13, <1>16, <1>17, <1>18
  <1>20. E[y] = E[x]
    BY <1>5, <1>15, <1>16
  <1>21. x = y
    BY <1>6, <1>13, <1>16, <1>19, <1>20
  <1> QED
    BY <1>13, <1>15, <1>21

\* The block index doubles.
Doubled(J, I) ==
    /\ IsIndex(J)
    /\ Len(J.headers) = Len(I.headers) + 1
    /\ \A h \in 1..Len(I.headers) : J.headers[h] = I.headers[h]
    /\ Cap(J) = 2 * Cap(I)
    /\ J.headers[Len(J.headers)].tail = Cap(I) - 1
    /\ \A p \in 0..(Cap(I) - 1) :
          J.headers[Len(J.headers)].index[p] =
             I.headers[Len(I.headers)].index[(I.headers[Len(I.headers)].tail + 1 + p) % Cap(I)]
    /\ \A p \in Cap(I)..(2 * Cap(I) - 1) :
          J.headers[Len(J.headers)].index[p] = Len(I.entries) + 1 + p - Cap(I)
    /\ Len(J.entries) = Len(I.entries) + Cap(I)
    /\ \A e \in 1..Len(I.entries) : J.entries[e] = I.entries[e]
    /\ \A e \in (Len(I.entries) + 1)..Len(J.entries) :
          J.entries[e] = [key |-> INVALID_BLOCK_BASE, value |-> null]

MoreOffsets(off, I, n) ==
    [h \in 1..(Len(I.headers) + 1) |-> IF h <= Len(I.headers) THEN off[h] ELSE n + 1 - Cap(I)]

\* Where the numbers are in the new ring.
LEMMA DoubledEntries ==
  ASSUME NEW I, IsIndex(I), HeadersOK(I), I.headers # <<>>, NEW off \in Offsets(I),
         NEW n \in Int, TailAt(off, I, n), NEW J, Doubled(J, I), NEW w, w = MoreOffsets(off, I, n)
  PROVE  /\ w \in Offsets(J) /\ J.headers # <<>>
         /\ \A h \in 1..Len(I.headers) : w[h] = off[h] /\ \A x : Ent(w, J, h, x) = Ent(off, I, h, x)
         /\ w[Len(J.headers)] = n + 1 - Cap(I)
         /\ \A x \in (n - Cap(I) + 1)..n :
               /\ Entry(w, J, x) = Entry(off, I, x)
               /\ Pos(n + 1 - Cap(I), Cap(J), x) = x - (n + 1 - Cap(I))
         /\ \A x \in (n + 1)..(n + Cap(I)) :
               /\ Entry(w, J, x) = Len(I.entries) + x - n
               /\ Pos(n + 1 - Cap(I), Cap(J), x) = x - (n + 1 - Cap(I))
  <1>1. PICK c \in Nat : c = Cap(I) /\ c > 0
    BY RingFacts
  <1>2. PICK l \in Nat : l = Len(I.headers) /\ l > 0
    BY HeaderFacts
  <1>3. Len(J.headers) = l + 1
    BY <1>2 DEF Doubled
  <1>4. /\ w \in [1..(l + 1) -> Int] /\ w[l + 1] = n + 1 - c
        /\ \A h \in 1..l : w[h] = off[h]
    BY <1>1, <1>2 DEF MoreOffsets, Offsets
  <1>5. w \in Offsets(J) /\ J.headers # <<>>
    <2>1. J.headers \in Seq(HeaderRec)
      BY DEF Doubled, IsIndex
    <2> QED
      BY <1>2, <1>3, <1>4, <2>1 DEF Offsets
  <1>6. ASSUME NEW h \in 1..Len(I.headers), NEW x PROVE Ent(w, J, h, x) = Ent(off, I, h, x)
    BY <1>2, <1>4 DEF Doubled, Ent
  <1>7. PICK o \in Int : o = off[l]
    BY <1>2 DEF Offsets
  <1>8. PICK H : H = I.headers[l] /\ H.capacity = c
    BY <1>1, <1>2 DEF Cap
  <1>9. PICK G : G = J.headers[l + 1] /\ G.capacity = 2 * c
    BY <1>1, <1>3 DEF Cap, Doubled
  <1>10. H.tail = Pos(o, c, n)
    BY <1>1, <1>2, <1>7, <1>8 DEF TailAt
  <1>11. PICK k \in Int : k = n + 1 - c
    OBVIOUS
  <1>12. ASSUME NEW x \in (n - c + 1)..(n + c) PROVE Pos(k, 2 * c, x) = x - k
    <2>1. PICK r \in Int, m \in Nat : r = x - k /\ m = 2 * c /\ r \in 0..(m - 1)
      BY <1>11
    <2>2. r % m = r
      BY <2>1
    <2> QED
      BY <2>1, <2>2 DEF Pos
  <1>13. ASSUME NEW x \in (n - c + 1)..n PROVE Entry(w, J, x) = Entry(off, I, x)
    <2>1. PICK p \in 0..(c - 1) : p = x - k
      BY <1>1, <1>11
    <2>2. Entry(w, J, x) = G.index[p]
      <3>1. Pos(k, 2 * c, x) = p
        BY <1>1, <1>12, <2>1
      <3> QED
        BY <1>3, <1>4, <1>9, <1>11, <3>1 DEF Entry, Ent
    <2>3. G.index[p] = H.index[(H.tail + 1 + p) % c]
      BY <1>1, <1>2, <1>3, <1>8, <1>9 DEF Doubled
    <2>4. (H.tail + 1 + p) % c = Pos(o, c, x)
      <3>1. PICK v \in Int : v = x + c
        OBVIOUS
      <3>2. (Pos(o, c, n) + (v - n)) % c = Pos(o, c, v)
        BY <1>1, PosShift
      <3>3. Pos(o, c, v) = Pos(o, c, x)
        BY <1>1, <3>1, PosPeriod
      <3>4. Pos(o, c, n) \in 0..(c - 1)
        BY <1>1, PosType
      <3>5. Pos(o, c, n) + (v - n) = H.tail + 1 + p
        BY <1>10, <1>11, <2>1, <3>1, <3>4
      <3> QED
        BY <3>2, <3>3, <3>5, Zenon
    <2>5. Entry(off, I, x) = H.index[Pos(o, c, x)]
      BY <1>1, <1>2, <1>7, <1>8 DEF Entry, Ent
    <2> QED
      BY <2>2, <2>3, <2>4, <2>5, Zenon
  <1>14. ASSUME NEW x \in (n + 1)..(n + c) PROVE Entry(w, J, x) = Len(I.entries) + x - n
    <2>0. x \in Int /\ x - k \in c..(2 * c - 1) /\ x - k = x - n - 1 + c
      BY <1>11
    <2>1. PICK p \in c..(2 * c - 1) : p = x - k
      BY <2>0
    <2>2. Entry(w, J, x) = G.index[p]
      <3>1. Pos(k, 2 * c, x) = p
        BY <1>1, <1>12, <2>1
      <3> QED
        BY <1>3, <1>4, <1>9, <1>11, <3>1 DEF Entry, Ent
    <2>3. PICK m \in Nat : m = Len(I.entries)
      BY DEF IsIndex
    <2>4. \A r \in Cap(I)..(2 * Cap(I) - 1) :
             J.headers[Len(J.headers)].index[r] = Len(I.entries) + 1 + r - Cap(I)
      BY DEF Doubled
    <2>5. G.index[p] = m + 1 + p - c
      BY <1>1, <1>3, <1>9, <2>1, <2>3, <2>4, Zenon
    <2>6. m + 1 + p - c = m + x - n
      BY <2>0, <2>1
    <2> QED
      BY <2>2, <2>3, <2>5, <2>6, Zenon
  <1>15. Cap(J) = 2 * c
    BY <1>1 DEF Doubled
  <1> QED
    BY <1>1, <1>2, <1>3, <1>4, <1>5, <1>6, <1>11, <1>12, <1>13, <1>14, <1>15

-----------------------------------------------------------------------------
(***************************************************************************)
(* Steps of consumers that have no element                                 *)
(***************************************************************************)

SameUse(C, D) ==
    \A c \in Consumers : C[c].pc \in Served \/ D[c].pc \in Served => D[c] = C[c]

LEMMA SameUseSets ==
  ASSUME NEW C, NEW D, SameUse(C, D)
  PROVE  /\ \A x : Holders(D, x) = Holders(C, x) /\ Unlinkers(D, x) = Unlinkers(C, x)
         /\ \A t, h : Linked(t, h, D) = Linked(t, h, C)
         /\ Released(D) = Released(C)
  <1>1. \A c \in Consumers : /\ C[c].pc \in Holding <=> D[c].pc \in Holding
                             /\ C[c].pc = "unlink" <=> D[c].pc = "unlink"
                             /\ C[c].pc = "release" <=> D[c].pc = "release"
                             /\ C[c].pc \in Holding \cup {"unlink", "release"} => D[c] = C[c]
    BY DEF SameUse, Served
  <1>2. \A x : Holders(D, x) = Holders(C, x) /\ Unlinkers(D, x) = Unlinkers(C, x)
    BY <1>1 DEF Holders, Unlinkers
  <1>3. \A t, h : Linked(t, h, D) = Linked(t, h, C)
    BY <1>2 DEF Linked
  <1>4. Released(D) = Released(C)
    BY <1>1 DEF Released
  <1> QED
    BY <1>2, <1>3, <1>4

LEMMA SameUseKeeps ==
  ASSUME NEW C, NEW D, SameUse(C, D), NEW off, NEW I
  PROVE  /\ Reach(off, I, C) => Reach(off, I, D)
         /\ \A B, chain, n : Used(I, B, C, chain, n) => Used(I, B, D, chain, n)
         /\ \A B, own, h : Counts(off, I, B, own, h, C) => Counts(off, I, B, own, h, D)
  <1>1. \A c \in Consumers : D[c].pc \in {"slot", "key", "value", "set_empty", "unlink", "release"}
                                => D[c] = C[c]
    BY DEF SameUse, Served, Holding, Reading
  <1>2. ASSUME Reach(off, I, C) PROVE Reach(off, I, D)
    BY <1>1, <1>2, Zenon DEF Reach
  <1>3. ASSUME NEW B, NEW chain, NEW n, Used(I, B, C, chain, n) PROVE Used(I, B, D, chain, n)
    BY <1>1, <1>3, SameUseSets DEF Used
  <1>4. ASSUME NEW B, NEW own, NEW h, Counts(off, I, B, own, h, C) PROVE Counts(off, I, B, own, h, D)
    BY <1>1, <1>4, SameUseSets DEF Counts
  <1> QED
    BY <1>2, <1>3, <1>4

\* The steps before a claim, and those that only fail.
LEMMA FrameStep ==
  ASSUME NEW off, BlockInv(off), SameUse(co, co'), UNCHANGED <<index, block, pr>>,
         q'.tailIndex = q.tailIndex, q'.headIndex = q.headIndex, q'.poolIndex = q.poolIndex
  PROVE  BlockInv(off)'
  <1>1. LastNo' = LastNo /\ TailNo' = TailNo /\ InsertedNo' = InsertedNo /\ First' = First
    BY DEF LastNo, TailNo, InsertedNo, First
  <1>2. Owned' = Owned
    <2>1. Linked(q.tailIndex, q.headIndex, co') = Linked(q.tailIndex, q.headIndex, co)
      BY SameUseSets
    <2> QED
      BY <1>1, <2>1 DEF Owned
  <1>3. Present' = Present
    <2>1. \A c \in Consumers : /\ co[c].pc \in Reading <=> co'[c].pc \in Reading
                               /\ co[c].pc \in Reading => co'[c] = co[c]
      BY DEF SameUse, Served, Holding
    <2> QED
      BY <2>1 DEF Present, At
  <1>4. /\ Reach(off, index, co') /\ Used(index, block, co', pr.chain, pr.undone)
        /\ Counts(off, index, block, Owned, q.headIndex, co')
    BY SameUseKeeps DEF BlockInv, IndexInv, DataInv
  <1> QED
    BY <1>1, <1>2, <1>3, <1>4 DEF BlockInv, IndexInv, DataInv

LEMMA TryingKeeps ==
  ASSUME CInv, NEW c \in Consumers, NEW off, BlockInv(off),
         \/ TryDequeue(c) \/ SizeTail(c) \/ SizeHead(c) \/ LooksEmpty(c)
         \/ LoadTail(c) \/ LoadOvercommit(c) \/ CheckCount(c) \/ CountDequeue(c)
         \/ Recheck(c) \/ Overcommit(c)
  PROVE  BlockInv(off)'
  <1>0. TypeInv
    BY DEF CInv
  <1>1. /\ OthersStay(c) /\ co[c].pc \notin Served /\ co'[c].pc \notin Served
        /\ UNCHANGED <<index, block, pr>>
    <2>1. CASE TryDequeue(c) \/ SizeTail(c) \/ SizeHead(c) \/ LoadTail(c) \/ LoadOvercommit(c)
      BY <1>0, <2>1, TryDequeueFields, SizeTailFields, SizeHeadFields, LoadTailFields,
         LoadOvercommitFields DEF Served, Holding, Reading
    <2>2. CASE CheckCount(c) \/ CountDequeue(c) \/ Recheck(c)
      BY <1>0, <2>2, CheckCountFields, CountDequeueFields, RecheckFields
      DEF Served, Holding, Reading
    <2>3. CASE LooksEmpty(c) \/ Overcommit(c)
      BY <1>0, <2>3, LooksEmptyFields, OvercommitFields DEF Served, Holding, Reading
    <2> QED
      BY <2>1, <2>2, <2>3
  <1>2. SameUse(co, co')
    BY <1>1 DEF SameUse, OthersStay
  <1>3. q'.tailIndex = q.tailIndex /\ q'.headIndex = q.headIndex /\ q'.poolIndex = q.poolIndex
    BY <1>0 DEF TypeInv, QType, TryDequeue, SizeTail, SizeHead, LooksEmpty, LoadTail,
       LoadOvercommit, CheckCount, CountDequeue, Recheck, Overcommit
  <1> QED
    BY <1>1, <1>2, <1>3, FrameStep

-----------------------------------------------------------------------------
(***************************************************************************)
(* The numbers of the blocks in the index                                  *)
(***************************************************************************)

LEMMA TailNoFacts ==
  ASSUME TypeInv, ProducerInv
  PROVE  /\ LastNo \in Int /\ LastNo <= TailNo /\ LastNo + Len(pr.chain) <= InsertedNo
         /\ LastNo \in Int /\ LastNo >= -1 /\ pr.undone \in Nat /\ Len(pr.chain) \in Nat
         /\ pr.undone <= Len(pr.chain) /\ pr.chain \in Seq(Blocks)
         /\ TailNo \in Int /\ InsertedNo \in Int
         /\ LastNo + Len(pr.chain) - pr.undone <= TailNo /\ TailNo <= InsertedNo
         /\ 2 * KeyOf(TailNo) < IndexMod /\ 2 * KeyOf(InsertedNo) < IndexMod
         /\ \A x \in Int : x <= InsertedNo => 2 * KeyOf(x) < IndexMod
         /\ TailNo >= 0 => index.headers # <<>>
  <1>0. /\ LastNo \in Int /\ LastNo >= -1 /\ Len(pr.chain) \in Nat /\ q.tailIndex \in Nat
        /\ pr.count \in Nat /\ 2 * (q.tailIndex + pr.count) < IndexMod
        /\ FinalNo \in Int /\ LastNo <= FinalNo /\ (q.tailIndex = 0 => LastNo = -1)
    BY ProducerFacts
  <1>1. pr.undone \in Nat /\ pr.undone <= Len(pr.chain) /\ pr.inserted \in BOOLEAN
        /\ pr.chain \in Seq(Blocks)
    BY DEF TypeInv, PrType, ProducerRec, ProducerInv
  <1>2. PICK L \in Int, n \in Nat, u \in Nat, f \in Int, t \in Nat, k \in Nat :
           /\ L = LastNo /\ n = Len(pr.chain) /\ u = pr.undone /\ f = FinalNo
           /\ t = q.tailIndex /\ k = pr.count
    BY <1>0, <1>1
  <1>3. PICK d \in 0..1, e \in 0..1 :
           /\ d = (IF pr.inserted THEN 1 ELSE 0)
           /\ e = (IF pr.inserted \/ pr.pc = "tail" THEN 1 ELSE 0)
    OBVIOUS
  <1>4. d <= e /\ (pr.inserted => d = 1 /\ e = 1) /\ (~pr.inserted => d = 0)
        /\ (~pr.inserted /\ pr.pc # "tail" => e = 0)
    BY <1>3
  <1>5. TailNo = L + n - u + d
    BY <1>2, <1>3, Zenon DEF TailNo
  <1>6. InsertedNo = L + n + e
    BY <1>2, <1>3, Zenon DEF InsertedNo
  <1>7. d <= e /\ u <= n
    BY <1>1, <1>2, <1>4
  <1>8. /\ TailNo \in Int /\ InsertedNo \in Int
        /\ L + n - u <= TailNo /\ TailNo <= InsertedNo
        /\ L <= TailNo /\ L + n <= InsertedNo
    BY <1>5, <1>6, <1>7
  <1>9. InsertedNo <= f
    <2>1. CASE pr.pc = "idle"
      <3>1. pr.chain = <<>> /\ ~pr.inserted
        BY <2>1 DEF ProducerInv
      <3>2. n = 0 /\ e = 0
        BY <1>2, <1>4, <2>1, <3>1
      <3>3. L <= f
        BY <1>0, <1>2
      <3> QED
        BY <1>6, <3>2, <3>3
    <2>2. CASE pr.pc \in {"fill", "publish"}
      <3>1. L + n = f /\ ~pr.inserted
        BY <1>2, <2>2 DEF ProducerInv, FinalNo
      <3>2. e = 0
        BY <1>4, <2>2, <3>1
      <3> QED
        BY <1>6, <3>1, <3>2
    <2>3. CASE pr.pc \in {"index", "tail", "requisition", "rollback"}
      <3>1. L + n < f
        BY <1>2, <2>3 DEF ProducerInv, FinalNo
      <3> QED
        BY <1>6, <3>1
    <2> QED
      BY <2>1, <2>2, <2>3 DEF TypeInv, PrType, ProducerRec, ProducerPcs
  <1>10. KeyOf(f) <= t + k
    <2>1. t + k - 1 \in Int /\ f = No(t + k - 1)
      BY <1>2 DEF FinalNo
    <2>2. KeyOf(f) <= t + k - 1 /\ KeyOf(f) \in Int
      BY <2>1, NoFacts, KeyType
    <2> QED
      BY <2>2
  <1>11. \A x \in Int : x <= f => 2 * KeyOf(x) < IndexMod
    <2>1. SUFFICES ASSUME NEW x \in Int, x <= f PROVE 2 * KeyOf(x) < IndexMod
      OBVIOUS
    <2>2. PICK a \in Int, b \in Int : a = KeyOf(x) /\ b = KeyOf(f) /\ a <= b
      BY <2>1, KeyMono, KeyType
    <2>3. 2 * (t + k) < IndexMod /\ IndexMod \in Nat
      BY <1>0, <1>2, SizesAssumption
    <2> QED
      BY <1>10, <2>2, <2>3
  <1>12. \A x \in Int : x <= InsertedNo => 2 * KeyOf(x) < IndexMod
    BY <1>2, <1>8, <1>9, <1>11
  <1>13. TailNo >= 0 => index.headers # <<>>
    <2>1. SUFFICES ASSUME TailNo >= 0, index.headers = <<>> PROVE FALSE
      OBVIOUS
    <2>2. ~(t > 0) /\ n = 0 /\ d = 0
      <3>1. pr.chain = <<>> /\ ~(q.tailIndex > 0) /\ ~pr.inserted
        BY <2>1 DEF ProducerInv
      <3> QED
        BY <1>2, <1>4, <3>1
    <2>3. L = -1
      BY <1>0, <1>2, <2>2
    <2> QED
      BY <1>5, <2>1, <2>2, <2>3
  <1> QED
    BY <1>0, <1>1, <1>2, <1>8, <1>9, <1>11, <1>12, <1>13

\* The numbers that are owned are those of keys that were inserted.
LEMMA OwnedFacts ==
  ASSUME TypeInv, ProducerInv, NEW x \in Owned
  PROVE  /\ x \in Nat /\ x \in Int /\ x <= InsertedNo /\ 2 * KeyOf(x) < IndexMod
         /\ index.headers # <<>>
         /\ x <= TailNo \/ (pr.undone > 0 /\ x > LastNo)
         /\ x \in Linked(q.tailIndex, q.headIndex, co) => x <= LastNo
         /\ x \in ChainNos(LastNo, pr.chain, pr.undone) => x > LastNo
  <1>1. PICK L \in Int, n \in Nat, u \in Nat, m \in Int, j \in Int, t \in Nat :
           /\ L = LastNo /\ n = Len(pr.chain) /\ u = pr.undone /\ m = TailNo /\ j = InsertedNo
           /\ L >= -1 /\ u <= n /\ L + n - u <= m /\ m <= j /\ L <= m /\ L + n <= j
           /\ t = q.tailIndex
    BY TailNoFacts DEF TypeInv, QType
  <1>2. ASSUME x \in Linked(q.tailIndex, q.headIndex, co) PROVE x \in Nat /\ x <= L
    <2>1. x \in Nat /\ KeyOf(x) < t
      BY <1>1, <1>2 DEF Linked
    <2>2. t - 1 \in Int /\ L = No(t - 1)
      BY <1>1 DEF LastNo
    <2>3. PICK a \in Int, b \in Int : a = KeyOf(x) /\ b = KeyOf(L)
      BY <2>1, KeyType
    <2>4. t - 1 < b + BLOCK_SIZE
      BY <2>2, <2>3, NoFacts
    <2>5. L < x => b + BLOCK_SIZE <= a
      BY <1>1, <2>1, <2>3, KeyMono
    <2> QED
      BY <1>1, <2>1, <2>3, <2>4, <2>5, SizesAssumption
  <1>3. ASSUME x \in ChainNos(LastNo, pr.chain, pr.undone)
        PROVE  x \in Nat /\ x > L /\ x <= L + n /\ x > L + u
    <2>1. x \in (L + u + 1)..(L + n)
      BY <1>1, <1>3 DEF ChainNos
    <2> QED
      BY <1>1, <2>1
  <1>4. \/ x \in Linked(q.tailIndex, q.headIndex, co)
        \/ x \in ChainNos(LastNo, pr.chain, pr.undone)
    BY DEF Owned
  <1>5. x \in Nat /\ x <= j /\ (x <= m \/ (u > 0 /\ x > L))
    BY <1>1, <1>2, <1>3, <1>4
  <1>6. x \in Int /\ 2 * KeyOf(x) < IndexMod
    BY <1>1, <1>5, TailNoFacts
  <1>7. index.headers # <<>>
    <2>1. CASE q.tailIndex > 0 \/ pr.chain # <<>>
      BY <2>1 DEF ProducerInv
    <2>2. CASE ~(q.tailIndex > 0) /\ pr.chain = <<>>
      <3>1. L = -1 /\ n = 0
        BY <1>1, <2>2, ProducerFacts
      <3> QED
        BY <1>1, <1>2, <1>3, <1>4, <3>1
    <2> QED
      BY <2>1, <2>2
  <1> QED
    BY <1>1, <1>2, <1>3, <1>4, <1>5, <1>6, <1>7

\* The element of a consumer, and its block.
LEMMA ServedFacts ==
  ASSUME CInv, NEW c \in Consumers, co[c].pc \in Served
  PROVE  /\ co[c].index \in Nat /\ co[c].index < q.headIndex /\ q.headIndex <= q.tailIndex
         /\ No(co[c].index) \in Nat /\ No(co[c].index) \in Int
         /\ KeyOf(No(co[c].index)) <= co[c].index
         /\ co[c].index < KeyOf(No(co[c].index) + 1)
         /\ co[c].index = KeyOf(No(co[c].index)) + Slot(co[c].index)
         /\ Slot(co[c].index) \in 0..(BLOCK_SIZE - 1)
         /\ co[c].pc \in Holding \cup {"unlink"} =>
               /\ No(co[c].index) \in Linked(q.tailIndex, q.headIndex, co)
               /\ No(co[c].index) \in Owned
  <1>1. co[c].index \in Nat /\ co[c].index < q.headIndex
    BY DEF CInv, Counters, At, TypeInv, CoType, Local
  <1>2. q.headIndex <= q.tailIndex /\ q.headIndex \in Nat /\ q.tailIndex \in Nat
    <2>1. PICK lost \in SUBSET Drawn : Tickets(lost)
      BY DEF CInv, Counters
    <2>2. q.headIndex <= q.tailIndex
      BY <2>1, CounterFacts DEF CInv, Counters
    <2> QED
      BY <2>2 DEF CInv, TypeInv, QType
  <1>3. PICK i \in Int : i = co[c].index /\ i >= 0
    BY <1>1
  <1>4. PICK x \in Int : x = No(i)
    BY NoFacts
  <1>5. /\ KeyOf(x) <= i /\ i < KeyOf(x + 1) /\ i = KeyOf(x) + Slot(i) /\ x >= 0
        /\ Slot(i) \in 0..(BLOCK_SIZE - 1)
    <2>1. KeyOf(x + 1) = KeyOf(x) + BLOCK_SIZE
      BY KeyType
    <2> QED
      BY <1>3, <1>4, <2>1, NoFacts
  <1>6. ASSUME co[c].pc \in Holding \cup {"unlink"}
        PROVE  x \in Linked(q.tailIndex, q.headIndex, co)
    <2>1. c \in Holders(co, x) \/ c \in Unlinkers(co, x)
      BY <1>3, <1>4, <1>6 DEF Holders, Unlinkers
    <2>2. KeyOf(x) < q.tailIndex
      <3>1. KeyOf(x) \in Int
        BY KeyType
      <3> QED
        BY <1>1, <1>2, <1>3, <1>5, <3>1
    <2> QED
      BY <1>5, <2>1, <2>2 DEF Linked
  <1> QED
    BY <1>1, <1>2, <1>3, <1>4, <1>5, <1>6 DEF Owned

\* Consumer c changes its place, but no set of consumers that matters.
SamePlaces(C, D) ==
    /\ \A x : Holders(D, x) = Holders(C, x) /\ Unlinkers(D, x) = Unlinkers(C, x)
    /\ \A c \in Consumers :
          /\ C[c].pc = "unlink" <=> D[c].pc = "unlink"
          /\ C[c].pc = "release" <=> D[c].pc = "release"
          /\ C[c].pc \in {"unlink", "release"} => D[c] = C[c]

LEMMA SamePlacesFacts ==
  ASSUME NEW C, NEW D, SamePlaces(C, D)
  PROVE  /\ \A t, h : Linked(t, h, D) = Linked(t, h, C)
         /\ \A I, B, chain, n : Used(I, B, C, chain, n) => Used(I, B, D, chain, n)
         /\ \A off, I, B, own, h : Counts(off, I, B, own, h, C) => Counts(off, I, B, own, h, D)
  <1>1. \A t, h : Linked(t, h, D) = Linked(t, h, C)
    BY DEF SamePlaces, Linked
  <1>2. \A c \in Consumers : /\ C[c].pc = "unlink" <=> D[c].pc = "unlink"
                             /\ C[c].pc = "release" <=> D[c].pc = "release"
                             /\ C[c].pc \in {"unlink", "release"} => D[c] = C[c]
    BY DEF SamePlaces
  <1>3. Released(D) = Released(C)
    BY <1>2 DEF Released
  <1>4. ASSUME NEW I, NEW B, NEW chain, NEW n, Used(I, B, C, chain, n)
        PROVE  Used(I, B, D, chain, n)
    BY <1>2, <1>3, <1>4 DEF Used
  <1>5. ASSUME NEW off, NEW I, NEW B, NEW own, NEW h, Counts(off, I, B, own, h, C)
        PROVE  Counts(off, I, B, own, h, D)
    BY <1>2, <1>5 DEF Counts, SamePlaces
  <1> QED
    BY <1>1, <1>4, <1>5

\* The steps that load from the index: consumer c goes on, and knows more.
LEMMA ReadingFrame ==
  ASSUME CInv, NEW c \in Consumers, NEW off, BlockInv(off), OthersStay(c),
         UNCHANGED <<q, index, block, pr>>,
         co[c].pc \in Reading, co'[c].pc \in Reading, co'[c].index = co[c].index,
         LET x == No(co[c].index) IN
            /\ co'[c].pc \in {"slot", "key"} =>
                  Ent(off, index, co'[c].header, x) = Entry(off, index, x)
            /\ co'[c].pc = "key" =>
                  ~Unkeyed(index, index.headers[co'[c].header].index[co'[c].slot])
            /\ co'[c].pc = "value" => co'[c].entry = Entry(off, index, x)
  PROVE  BlockInv(off)'
  <1>1. \A d \in Consumers : /\ d # c => co'[d] = co[d]
                             /\ co'[d].pc \in Reading <=> co[d].pc \in Reading
                             /\ co'[d].pc \in Holding <=> co[d].pc \in Holding
                             /\ co'[d].pc \in Holding => co'[d].index = co[d].index
    BY DEF OthersStay, Holding
  <1>2. SamePlaces(co, co')
    <2>1. \A d \in Consumers : /\ co[d].pc = "unlink" <=> co'[d].pc = "unlink"
                               /\ co[d].pc = "release" <=> co'[d].pc = "release"
                               /\ co[d].pc \in {"unlink", "release"} => co'[d] = co[d]
      BY <1>1 DEF Reading
    <2> QED
      BY <1>1, <2>1 DEF SamePlaces, Holders, Unlinkers
  <1>3. LastNo' = LastNo /\ TailNo' = TailNo /\ InsertedNo' = InsertedNo /\ First' = First
    BY DEF LastNo, TailNo, InsertedNo, First
  <1>4. Owned' = Owned
    <2>1. Linked(q.tailIndex, q.headIndex, co') = Linked(q.tailIndex, q.headIndex, co)
      BY <1>2, SamePlacesFacts
    <2> QED
      BY <1>3, <2>1 DEF Owned
  <1>5. Present' = Present
    BY <1>1 DEF Present, At, Holding
  <1>6. Reach(off, index, co')
    <2>1. Reach(off, index, co)
      BY DEF BlockInv, IndexInv
    <2>2. SUFFICES ASSUME NEW d \in Consumers, NEW x, x = No(co'[d].index)
                   PROVE  /\ co'[d].pc \in {"slot", "key"} =>
                                Ent(off, index, co'[d].header, x) = Entry(off, index, x)
                          /\ co'[d].pc = "key" =>
                                ~Unkeyed(index, index.headers[co'[d].header].index[co'[d].slot])
                          /\ co'[d].pc \in {"value", "set_empty", "unlink"} =>
                                co'[d].entry = Entry(off, index, x)
      BY Zenon DEF Reach
    <2>3. CASE d = c
      BY <2>2, <2>3 DEF Reading
    <2>4. CASE d # c
      BY <1>1, <2>1, <2>2, <2>4, Zenon DEF Reach
    <2> QED
      BY <2>3, <2>4
  <1>7. /\ Used(index, block, co', pr.chain, pr.undone)
        /\ Counts(off, index, block, Owned, q.headIndex, co')
    BY <1>2, SamePlacesFacts DEF BlockInv, DataInv
  <1> QED
    BY <1>3, <1>4, <1>5, <1>6, <1>7 DEF BlockInv, IndexInv, DataInv

LEMMA IndexParts ==
  ASSUME CInv, NEW off, BlockInv(off)
  PROVE  /\ IsIndex(index) /\ HeadersOK(index) /\ off \in Offsets(index)
         /\ Aligned(off, index) /\ Window(off, index, TailNo)
         /\ Inserted(off, index, LastNo, InsertedNo)
         /\ Links(off, index, Owned)
         /\ Chained(off, index, Owned, LastNo, pr.chain, pr.undone, First)
         /\ Reach(off, index, co)
         /\ Used(index, block, co, pr.chain, pr.undone)
         /\ Pool(block, q.poolIndex)
         /\ Counts(off, index, block, Owned, q.headIndex, co)
         /\ Contents(off, index, block, Owned, Present)
  BY DEF CInv, TypeInv, BlockInv, IndexInv, DataInv, Offsets

\* The entry that the tail of the last header is at.
LEMMA TailEntry ==
  ASSUME NEW I, IsIndex(I), I.headers # <<>>, NEW off, NEW n, Window(off, I, n)
  PROVE  I.headers[Len(I.headers)].index[I.headers[Len(I.headers)].tail] = Entry(off, I, n)
  <1>1. TailAt(off, I, n)
    BY WindowParts
  <1> QED
    BY <1>1 DEF TailAt, Entry, Ent, Cap

LEMMA LoadHeaderKeeps ==
  ASSUME CInv, NEW c \in Consumers, LoadHeader(c), NEW off, BlockInv(off)
  PROVE  BlockInv(off)'
  <1>1. /\ OthersStay(c) /\ co[c].pc = "header" /\ co'[c].pc = "slot"
        /\ co'[c].header = Len(index.headers) /\ co'[c].index = co[c].index
        /\ UNCHANGED <<q, index, block, pr>>
    BY LoadHeaderFields DEF CInv
  <1>2. Ent(off, index, co'[c].header, No(co[c].index)) = Entry(off, index, No(co[c].index))
    BY <1>1 DEF Entry
  <1> QED
    BY <1>1, <1>2, ReadingFrame DEF Reading

LEMMA TailKeyed ==
  ASSUME CInv, NEW c \in Consumers, co[c].pc = "slot", NEW off, BlockInv(off)
  PROVE  ~Unkeyed(index, index.headers[co[c].header].index[index.headers[co[c].header].tail])
  <1>0. TypeInv /\ ProducerInv
    BY DEF CInv
  <1>1. PICK h \in 1..Len(index.headers) : h = co[c].header
    BY <1>0 DEF TypeInv, LoadedOK
  <1>2. index.headers[h].tail \in 0..(index.headers[h].capacity - 1)
    BY <1>0, HeaderAt DEF TypeInv
  <1>3. CASE h < Len(index.headers)
    BY <1>1, <1>2, <1>3, IndexParts DEF HeadersOK
  <1>4. CASE h = Len(index.headers)
    <2>1. PICK x \in Nat : x = No(co[c].index) /\ x \in Owned
                           /\ x \in Linked(q.tailIndex, q.headIndex, co)
      BY ServedFacts DEF Served, Holding, Reading
    <2>2. PICK n \in Int : n = TailNo /\ x <= n
      <3>1. x <= LastNo /\ LastNo \in Int /\ TailNo \in Int /\ LastNo <= TailNo
        BY <1>0, <2>1, OwnedFacts, TailNoFacts
      <3> QED
        BY <3>1
    <2>3. IsIndex(index) /\ HeadersOK(index) /\ off \in Offsets(index)
          /\ Window(off, index, n) /\ index.headers # <<>>
      BY <1>0, <2>1, <2>2, IndexParts, OwnedFacts
    <2>4. PICK k \in Nat : k = Cap(index) /\ k > 0
      BY <2>3, RingFacts
    <2>5. Keyed(index, Entry(off, index, x), x)
      BY <2>1, IndexParts DEF Links
    <2>6. KeysNear(off, index, n) /\ Filling(off, index, n)
      BY <2>3, WindowParts
    <2>7. n - k < x
      BY <2>4, <2>5, <2>6 DEF KeysNear
    <2>8. n \in (n - k + 1)..n /\ x \in (n - k + 1)..n
      BY <2>2, <2>4, <2>7
    <2>9. index.headers[h].index[index.headers[h].tail] = Entry(off, index, n)
      BY <1>4, <2>3, TailEntry
    <2>10. SUFFICES ASSUME Unkeyed(index, Entry(off, index, n)) PROVE FALSE
      BY <1>1, <2>9
    <2>11. Unkeyed(index, Entry(off, index, x)) \/ Keyed(index, Entry(off, index, x), x + k)
      BY <2>4, <2>6, <2>8, <2>10 DEF Filling
    <2>12. x \in Int /\ x + k \in Int /\ x # x + k
      BY <2>4
    <2> QED
      BY <2>5, <2>11, <2>12, KeyedFacts
  <1> QED
    BY <1>1, <1>3, <1>4

LEMMA LoadIndexTailKeeps ==
  ASSUME CInv, NEW c \in Consumers, LoadIndexTail(c), NEW off, BlockInv(off)
  PROVE  BlockInv(off)'
  <1>1. /\ OthersStay(c) /\ co[c].pc = "slot" /\ co'[c].pc = "key"
        /\ co'[c].slot = index.headers[co[c].header].tail
        /\ co'[c].index = co[c].index /\ co'[c].header = co[c].header
        /\ UNCHANGED <<q, index, block, pr>>
    BY LoadIndexTailFields DEF CInv
  <1>2. Ent(off, index, co[c].header, No(co[c].index)) = Entry(off, index, No(co[c].index))
    BY <1>1, IndexParts DEF Reach
  <1>3. ~Unkeyed(index, index.headers[co[c].header].index[co'[c].slot])
    BY <1>1, TailKeyed
  <1> QED
    BY <1>1, <1>2, <1>3, ReadingFrame DEF Reading

LEMMA LoadTailKeyKeeps ==
  ASSUME CInv, NEW c \in Consumers, LoadTailKey(c), NEW off, BlockInv(off)
  PROVE  BlockInv(off)'
  <1>0. TypeInv /\ ProducerInv
    BY DEF CInv
  <1>1. /\ OthersStay(c) /\ co[c].pc = "key" /\ co'[c].pc = "value"
        /\ co'[c].entry = LoadedEntry(c) /\ co'[c].index = co[c].index
        /\ UNCHANGED <<q, index, block, pr>>
    BY <1>0, LoadTailKeyFields
  <1>2. PICK h \in 1..Len(index.headers) : h = co[c].header
    BY <1>0, <1>1 DEF TypeInv, LoadedOK
  <1>3. PICK s \in 0..(index.headers[h].capacity - 1) : s = co[c].slot
    BY <1>0, <1>1, <1>2 DEF TypeInv, LoadedOK
  <1>4. PICK x \in Nat : /\ x = No(co[c].index) /\ 2 * KeyOf(x) < IndexMod
                         /\ Base(co[c].index) = KeyOf(x)
    <2>1. /\ co[c].index \in Nat /\ co[c].index < q.headIndex /\ q.headIndex <= q.tailIndex
          /\ No(co[c].index) \in Nat /\ No(co[c].index) \in Owned
      BY <1>1, ServedFacts DEF Served, Holding, Reading
    <2>2. 2 * (q.tailIndex + pr.count) < IndexMod /\ pr.count \in Nat /\ q.tailIndex \in Nat
      BY <1>0, ProducerFacts
    <2>3. q.headIndex \in Nat
      BY <1>0 DEF TypeInv, QType
    <2>4. co[c].index \in Int /\ 0 <= co[c].index /\ co[c].index < IndexMod
      BY <2>1, <2>2, <2>3, SizesAssumption
    <2>5. Base(co[c].index) = KeyOf(No(co[c].index))
      BY <2>4, BaseInRange
    <2>6. 2 * KeyOf(No(co[c].index)) < IndexMod
      BY <1>0, <2>1, OwnedFacts
    <2> QED
      BY <2>1, <2>5, <2>6
  <1>5. /\ Ent(off, index, h, x) = Entry(off, index, x)
        /\ ~Unkeyed(index, index.headers[h].index[s])
    BY <1>1, <1>2, <1>3, <1>4, IndexParts DEF Reach
  <1>6. PICK y \in Nat : /\ Keyed(index, index.headers[h].index[s], y)
                         /\ s = Pos(off[h], index.headers[h].capacity, y)
                         /\ 2 * KeyOf(y) < IndexMod
    BY <1>5, IndexParts DEF Aligned
  <1>7. EntryFor(index.headers[h], s, KeyOf(y), co[c].index) = Ent(off, index, h, x)
    BY <1>4, <1>6, IndexParts, EntryForNo
  <1>8. index.entries[index.headers[h].index[s]].key = KeyOf(y)
    BY <1>6 DEF Keyed
  <1>9. LoadedEntry(c) = EntryFor(index.headers[h], s, KeyOf(y), co[c].index)
    BY <1>2, <1>3, <1>8, Zenon DEF LoadedEntry
  <1>10. co'[c].entry = Entry(off, index, No(co[c].index))
    BY <1>1, <1>4, <1>5, <1>7, <1>9
  <1> QED
    BY <1>1, <1>10, ReadingFrame DEF Reading

-----------------------------------------------------------------------------
(***************************************************************************)
(* A consumer takes an element                                             *)
(***************************************************************************)

LEMMA OutStep ==
  ASSUME NEW h \in Nat, NEW x \in Int
  PROVE  /\ x = No(h) => Out(h + 1, x) = Out(h, x) + 1
         /\ x # No(h) => Out(h + 1, x) = Out(h, x)
         /\ Out(h, x) \in 0..BLOCK_SIZE
         /\ Out(h, x) = BLOCK_SIZE => h >= KeyOf(x + 1)
         /\ h >= KeyOf(x + 1) => Out(h, x) = BLOCK_SIZE
         /\ h <= KeyOf(x) => Out(h, x) = 0
  <1>1. PICK k \in Int, n \in Nat : /\ k = KeyOf(x) /\ n = BLOCK_SIZE /\ n > 1
                                    /\ KeyOf(x + 1) = k + n
    BY KeyType, SizesAssumption
  <1>2. PICK y \in Int : y = No(h)
    <2>1. h \in Int
      OBVIOUS
    <2> QED
      BY <2>1, NoFacts
  <1>3. x = y => k <= h /\ h < k + n
    <2>1. h \in Int
      OBVIOUS
    <2> QED
      BY <1>1, <1>2, <2>1, NoFacts
  <1>4. k <= h /\ h < k + n => x = y
    <2>1. h \in Int
      OBVIOUS
    <2>2. SUFFICES ASSUME k <= h, h < k + n PROVE x = y
      OBVIOUS
    <2>3. KeyOf(x) <= h /\ h < KeyOf(x) + BLOCK_SIZE
      BY <1>1, <2>2
    <2> QED
      BY <1>2, <2>1, <2>3, NoUnique
  <1>5. \A i : Out(i, x) = IF i >= k + n THEN n ELSE IF i <= k THEN 0 ELSE i - k
    BY <1>1 DEF Out
  <1> QED
    BY <1>1, <1>2, <1>3, <1>4, <1>5

LEMMA PlacesType ==
  ASSUME NEW C, NEW x
  PROVE  /\ IsFiniteSet(Holders(C, x)) /\ Cardinality(Holders(C, x)) \in Nat
         /\ \A c \in Holders(C, x) :
               /\ Cardinality(Holders(C, x) \ {c}) = Cardinality(Holders(C, x)) - 1
               /\ Cardinality(Holders(C, x)) > 0
               /\ Cardinality(Holders(C, x)) = 1 => Holders(C, x) = {c}
         /\ \A c : c \notin Holders(C, x) =>
               Cardinality(Holders(C, x) \cup {c}) = Cardinality(Holders(C, x)) + 1
         /\ Cardinality(Holders(C, x)) = 0 <=> Holders(C, x) = {}
  <1>1. PICK S : S = Holders(C, x)
    OBVIOUS
  <1>2. IsFiniteSet(S)
    <2>1. S \subseteq Consumers
      BY <1>1 DEF Holders
    <2> QED
      BY <2>1, FS_Subset, SizesAssumption
  <1>3. Cardinality(S) \in Nat /\ (Cardinality(S) = 0 <=> S = {})
    BY <1>2, FS_CardinalityType, FS_EmptySet
  <1>4. \A c : c \notin S => Cardinality(S \cup {c}) = Cardinality(S) + 1
    BY <1>2, FS_AddElement
  <1>5. ASSUME NEW c \in S
        PROVE  /\ Cardinality(S \ {c}) = Cardinality(S) - 1 /\ Cardinality(S) > 0
               /\ Cardinality(S) = 1 => S = {c}
    <2>1. IsFiniteSet(S \ {c}) /\ Cardinality(S \ {c}) = Cardinality(S) - 1
      BY <1>2, FS_RemoveElement
    <2>2. Cardinality(S \ {c}) \in Nat /\ (Cardinality(S \ {c}) = 0 <=> S \ {c} = {})
      BY <2>1, FS_CardinalityType, FS_EmptySet
    <2> QED
      BY <1>3, <2>1, <2>2
  <1> QED
    BY <1>1, <1>2, <1>3, <1>4, <1>5

\* The block of a number that is owned.
LEMMA HomeFacts ==
  ASSUME CInv, NEW off, BlockInv(off), NEW x \in Owned
  PROVE  /\ Home(off, index, x) \in Blocks /\ Home(off, index, x) # null
         /\ Entry(off, index, x) \in 1..Len(index.entries)
         /\ Home(off, index, x) \in Valued(index)
         /\ Keyed(index, Entry(off, index, x), x)
         /\ block[Home(off, index, x)].state = "used"
         /\ block[Home(off, index, x)].elementsCompletelyDequeued \in Nat
         /\ \A y \in Owned : Home(off, index, x) = Home(off, index, y) => x = y
         /\ \A e \in 1..Len(index.entries) :
               Value(index, e) = Home(off, index, x) => e = Entry(off, index, x)
  <1>0. TypeInv /\ ProducerInv
    BY DEF CInv
  <1>1. PICK e \in 1..Len(index.entries) : e = Entry(off, index, x)
    <2>1. x \in Int /\ index.headers # <<>>
      BY <1>0, OwnedFacts
    <2> QED
      BY <2>1, IndexParts, RingFacts
  <1>2. Links(off, index, Owned)
    BY IndexParts
  <1>3. Keyed(index, e, x) /\ Value(index, e) # null
    BY <1>1, <1>2 DEF Links, Home
  <1>4. Value(index, e) \in Blocks
    <2>1. index.entries[e] \in EntryRec
      BY <1>0 DEF TypeInv, IsIndex
    <2>2. PICK v \in 0..MaxBlocks : v = Value(index, e)
      BY <2>1 DEF EntryRec, Value
    <2> QED
      BY <1>3, <2>2 DEF Blocks, null
  <1>5. Home(off, index, x) = Value(index, e)
    BY <1>1 DEF Home
  <1>6. Value(index, e) \in Valued(index)
    BY <1>3 DEF Valued
  <1>7. block[Value(index, e)].state = "used"
    BY <1>4, <1>6, IndexParts DEF Used
  <1>8. block[Value(index, e)].elementsCompletelyDequeued \in Nat
    BY <1>0, <1>4, BlockAt DEF TypeInv
  <1>9. \A f \in 1..Len(index.entries) : Value(index, f) = Value(index, e) => f = e
    BY <1>2, <1>3 DEF Links
  <1>10. ASSUME NEW y \in Owned, Home(off, index, x) = Home(off, index, y) PROVE x = y
    <2>1. y \in Int /\ x \in Int /\ index.headers # <<>>
      BY <1>0, OwnedFacts
    <2>2. Entry(off, index, y) \in 1..Len(index.entries)
      BY <2>1, IndexParts, RingFacts
    <2>3. Value(index, Entry(off, index, y)) = Value(index, e)
      BY <1>5, <1>10 DEF Home
    <2>4. Entry(off, index, y) = e
      BY <1>9, <2>2, <2>3
    <2>5. Keyed(index, e, y)
      BY <1>2, <2>4 DEF Links
    <2> QED
      BY <1>3, <2>1, <2>5, KeyedFacts
  <1> QED
    BY <1>1, <1>3, <1>4, <1>5, <1>6, <1>7, <1>8, <1>9, <1>10

LEMMA ClaimKeeps ==
  ASSUME CInv, NEW c \in Consumers, Claim(c), NEW off, BlockInv(off)
  PROVE  BlockInv(off)'
  <1>0. TypeInv /\ ProducerInv /\ Counters
    BY DEF CInv
  <1>1. /\ OthersStay(c) /\ co[c].pc = "claim" /\ co'[c].pc = "header"
        /\ co'[c].index = q.headIndex /\ UNCHANGED <<index, block, pr>>
    BY <1>0, ClaimFields
  <1>2. /\ q.headIndex < q.tailIndex /\ q'.headIndex = q.headIndex + 1
        /\ q'.tailIndex = q.tailIndex /\ q'.poolIndex = q.poolIndex
    BY <1>0, ClaimSteps
  <1>3. PICK h \in Nat, t \in Nat, y \in Nat :
           /\ h = q.headIndex /\ t = q.tailIndex /\ y = No(h) /\ h < t
           /\ KeyOf(y) <= h /\ h < KeyOf(y + 1)
    <2>1. PICK h \in Nat, t \in Nat : h = q.headIndex /\ t = q.tailIndex
      BY <1>0 DEF TypeInv, QType
    <2>2. h \in Int /\ h >= 0
      OBVIOUS
    <2>3. No(h) \in Nat /\ KeyOf(No(h)) <= h /\ h < KeyOf(No(h) + 1)
      <3>1. /\ No(h) \in Int /\ No(h) >= 0 /\ KeyOf(No(h)) <= h
            /\ h < KeyOf(No(h)) + BLOCK_SIZE
        BY <2>2, NoFacts
      <3> QED
        BY <3>1, KeyType
    <2> QED
      BY <1>2, <2>1, <2>3
  <1>4. \A d \in Consumers : d # c => co'[d] = co[d]
    BY <1>1 DEF OthersStay
  <1>5. /\ \A x : x # y => Holders(co', x) = Holders(co, x)
        /\ Holders(co', y) = Holders(co, y) \cup {c} /\ c \notin Holders(co, y)
        /\ \A x : Unlinkers(co', x) = Unlinkers(co, x)
    BY <1>1, <1>3, <1>4 DEF Holders, Unlinkers, Holding, Reading
  <1>6. Linked(t, h + 1, co') = Linked(t, h, co)
    <2>1. ASSUME NEW x \in Nat
          PROVE  x \in Linked(t, h + 1, co') <=> x \in Linked(t, h, co)
      <3>1. CASE x = y
        <4>1. KeyOf(y) \in Int
          BY KeyType
        <4>2. KeyOf(y) < t
          BY <1>3, <4>1
        <4>3. c \in Holders(co', y)
          BY <1>5
        <4> QED
          BY <1>3, <3>1, <4>2, <4>3 DEF Linked
      <3>2. CASE x # y
        <4>1. h < KeyOf(x + 1) <=> h + 1 < KeyOf(x + 1)
          <5>0. x \in Int
            OBVIOUS
          <5>1. PICK k \in Int, n \in Nat :
                   k = KeyOf(x) /\ n = BLOCK_SIZE /\ KeyOf(x + 1) = k + n /\ n > 1
            BY <5>0, KeyType
          <5>2. h + 1 = k + n => x = y
            <6>1. SUFFICES ASSUME h + 1 = k + n PROVE x = y
              OBVIOUS
            <6>2. KeyOf(x) <= h /\ h < KeyOf(x) + BLOCK_SIZE /\ h \in Int /\ x \in Int
              BY <5>1, <6>1
            <6> QED
              BY <1>3, <6>2, NoUnique
          <5> QED
            BY <3>2, <5>1, <5>2
        <4> QED
          BY <1>5, <3>2, <4>1 DEF Linked
      <3> QED
        BY <3>1, <3>2
    <2> QED
      BY <2>1 DEF Linked
  <1>7. LastNo' = LastNo /\ TailNo' = TailNo /\ InsertedNo' = InsertedNo /\ First' = First
    BY <1>1, <1>2 DEF LastNo, TailNo, InsertedNo, First
  <1>8. Owned' = Owned
    BY <1>1, <1>2, <1>3, <1>6, <1>7 DEF Owned
  <1>9. Present' = Present
    <2>1. \A i \in Nat : (\E d \in At(Reading)' : co'[d].index = i) <=>
                            (i = h \/ \E d \in At(Reading) : co[d].index = i)
      BY <1>1, <1>3, <1>4 DEF At, Reading
    <2>2. \A i \in Nat : (h + 1 <= i /\ i < t) \/ i = h <=> (h <= i /\ i < t)
      BY <1>3
    <2>3. pr' = pr /\ q'.tailIndex = t /\ q.tailIndex = t /\ q'.headIndex = h + 1 /\ q.headIndex = h
      BY <1>1, <1>2, <1>3
    <2> QED
      BY <2>1, <2>2, <2>3 DEF Present
  <1>10. Reach(off, index, co')
    <2>1. Reach(off, index, co)
      BY IndexParts
    <2>2. \A d \in Consumers : co'[d].pc \in {"slot", "key", "value", "set_empty", "unlink"}
                                  => co'[d] = co[d]
      BY <1>1, <1>4
    <2> QED
      BY <2>1, <2>2, Zenon DEF Reach
  <1>11. Used(index, block, co', pr.chain, pr.undone)
    <2>1. \A d \in Consumers : /\ co'[d].pc = "release" <=> co[d].pc = "release"
                               /\ co'[d].pc = "release" => co'[d] = co[d]
      BY <1>1, <1>4
    <2>2. Released(co') = Released(co)
      BY <2>1 DEF Released
    <2> QED
      BY <2>1, <2>2, IndexParts DEF Used
  <1>12. Counts(off, index, block, Owned, h + 1, co')
    <2>0. Counts(off, index, block, Owned, h, co)
      BY <1>3, IndexParts
    <2>1. ASSUME NEW x \in Owned
          PROVE  block[Home(off, index, x)].elementsCompletelyDequeued
                    + Cardinality(Holders(co', x)) = Out(h + 1, x)
      <3>1. PICK e : e = block[Home(off, index, x)].elementsCompletelyDequeued
        OBVIOUS
      <3>2. e + Cardinality(Holders(co, x)) = Out(h, x)
        BY <2>0, <3>1 DEF Counts
      <3>3. x \in Int
        BY <1>0, OwnedFacts
      <3>4. Out(h, x) \in 0..BLOCK_SIZE /\ BLOCK_SIZE \in Nat
        BY <3>3, OutStep, SizesAssumption
      <3>5. x \in Int /\ Out(h, x) \in Int /\ Cardinality(Holders(co, x)) \in Nat
        BY <3>3, <3>4, PlacesType
      <3>6. e \in Nat
        BY <3>1, HomeFacts
      <3>7. CASE x = y
        <4>1. Cardinality(Holders(co', x)) = Cardinality(Holders(co, x)) + 1
          BY <1>5, <3>7, PlacesType
        <4>2. Out(h + 1, x) = Out(h, x) + 1
          BY <1>3, <3>5, <3>7, OutStep
        <4> QED
          BY <3>1, <3>2, <3>5, <3>6, <4>1, <4>2
      <3>8. CASE x # y
        BY <1>3, <1>5, <3>1, <3>2, <3>5, <3>8, OutStep
      <3> QED
        BY <3>7, <3>8
    <2>2. ASSUME NEW d \in Consumers, co'[d].pc = "unlink"
          PROVE  /\ h + 1 >= KeyOf(No(co'[d].index) + 1)
                 /\ Holders(co', No(co'[d].index)) = {}
                 /\ \A e \in Consumers : co'[e].pc = "unlink" /\ d # e =>
                       No(co'[d].index) # No(co'[e].index)
      <3>1. d # c /\ co'[d] = co[d] /\ co[d].pc = "unlink"
        BY <1>1, <1>4, <2>2
      <3>2. /\ h >= KeyOf(No(co[d].index) + 1) /\ Holders(co, No(co[d].index)) = {}
            /\ \A e \in Consumers : co[e].pc = "unlink" /\ d # e =>
                  No(co[d].index) # No(co[e].index)
        BY <2>0, <3>1 DEF Counts
      <3>3. No(co[d].index) \in Int
        BY <3>1, ServedFacts DEF Served
      <3>4. KeyOf(No(co[d].index) + 1) \in Int
        BY <3>3, KeyType
      <3>5. No(co[d].index) # y
        BY <1>3, <3>2, <3>4
      <3>6. h + 1 >= KeyOf(No(co[d].index) + 1)
        BY <3>2, <3>4
      <3>7. \A e \in Consumers : co'[e].pc = "unlink" => co'[e] = co[e]
        BY <1>1, <1>4
      <3> QED
        BY <1>5, <3>1, <3>2, <3>5, <3>6, <3>7
    <2> QED
      BY <2>1, <2>2 DEF Counts
  <1> QED
    BY <1>1, <1>2, <1>3, <1>7, <1>8, <1>9, <1>10, <1>11, <1>12
    DEF BlockInv, IndexInv, DataInv

LEMMA KeySlot ==
  ASSUME NEW x \in Int, NEW s \in 0..(BLOCK_SIZE - 1)
  PROVE  /\ No(KeyOf(x) + s) = x /\ Slot(KeyOf(x) + s) = s /\ KeyOf(x) + s \in Int
         /\ x >= 0 => KeyOf(x) + s \in Nat
         /\ KeyOf(x) <= KeyOf(x) + s /\ KeyOf(x) + s < KeyOf(x + 1)
  <1>1. PICK k \in Int, n \in Nat : /\ k = KeyOf(x) /\ n = BLOCK_SIZE /\ s \in 0..(n - 1)
                                    /\ (x >= 0 => k \in Nat) /\ KeyOf(x + 1) = k + n
    BY KeyType
  <1>2. PICK i \in Int : i = k + s
    BY <1>1
  <1>3. KeyOf(x) <= i /\ i < KeyOf(x) + BLOCK_SIZE
    BY <1>1, <1>2
  <1>4. No(i) = x /\ Slot(i) = i - KeyOf(x)
    BY <1>3, NoUnique
  <1> QED
    BY <1>1, <1>2, <1>4

\* The block that a consumer holds is the one of its element.
LEMMA HeldFacts ==
  ASSUME CInv, NEW off, BlockInv(off), NEW c \in Consumers,
         co[c].pc \in {"value", "set_empty", "unlink"}
  PROVE  /\ No(co[c].index) \in Owned /\ No(co[c].index) \in Int
         /\ co[c].entry = Entry(off, index, No(co[c].index))
         /\ BlockHeld(c) = Home(off, index, No(co[c].index))
         /\ BlockHeld(c) \in Blocks /\ BlockHeld(c) # null
  <1>1. No(co[c].index) \in Owned /\ No(co[c].index) \in Int
    BY ServedFacts DEF Served, Holding, Reading
  <1>2. co[c].entry = Entry(off, index, No(co[c].index))
    BY IndexParts DEF Reach
  <1>3. BlockHeld(c) = Home(off, index, No(co[c].index))
    BY <1>2 DEF BlockHeld, Home, Value
  <1> QED
    BY <1>1, <1>2, <1>3, HomeFacts

LEMMA MoveElementKeeps ==
  ASSUME CInv, NEW c \in Consumers, MoveElement(c), NEW off, BlockInv(off)
  PROVE  BlockInv(off)' /\ co'[c].item = co[c].index
  <1>0. TypeInv /\ ProducerInv /\ Counters
    BY DEF CInv
  <1>1. /\ OthersStay(c) /\ co[c].pc = "value" /\ co'[c].pc = "set_empty"
        /\ co'[c].index = co[c].index /\ co'[c].entry = co[c].entry
        /\ UNCHANGED <<q, index, pr>>
        /\ co'[c].item = IF BlockHeld(c) = null THEN None
                         ELSE block[BlockHeld(c)].elements[Slot(co[c].index)]
    BY <1>0, MoveElementFields
  <1>2. PICK x0 \in Owned : /\ x0 = No(co[c].index) /\ x0 \in Int
                            /\ BlockHeld(c) = Home(off, index, x0)
                            /\ co[c].entry = Entry(off, index, x0)
    BY <1>1, HeldFacts
  <1>3. PICK b \in Blocks : b = BlockHeld(c) /\ b = Home(off, index, x0) /\ b # null
    BY <1>1, <1>2, HeldFacts
  <1>4. PICK i \in Nat, s0 \in 0..(BLOCK_SIZE - 1) :
           /\ i = co[c].index /\ s0 = Slot(i) /\ i = KeyOf(x0) + s0
           /\ i < q.headIndex /\ i < q.tailIndex
    <2>1. /\ co[c].index \in Nat /\ co[c].index < q.headIndex /\ q.headIndex <= q.tailIndex
          /\ co[c].index = KeyOf(x0) + Slot(co[c].index)
          /\ Slot(co[c].index) \in 0..(BLOCK_SIZE - 1)
      BY <1>1, <1>2, ServedFacts DEF Served, Holding, Reading
    <2>2. co[c].index < q.tailIndex
      BY <1>0, <2>1 DEF TypeInv, QType
    <2> QED
      BY <2>1, <2>2
  <1>5. Contents(off, index, block, Owned, Present)
    BY IndexParts
  <1>6. co'[c].item = co[c].index
    <2>1. i \in Present
      BY <1>1, <1>4 DEF Present, At, Reading
    <2>2. block[b].elements[s0] = i
      BY <1>3, <1>4, <1>5, <2>1 DEF Contents
    <2> QED
      BY <1>1, <1>3, <1>4, <2>2
  <1>7. \A d \in Consumers : /\ d # c => co'[d] = co[d]
                             /\ co'[d].pc \in Holding <=> co[d].pc \in Holding
                             /\ co'[d].pc \in Holding => co'[d].index = co[d].index
    BY <1>1 DEF OthersStay, Holding, Reading
  <1>8. SamePlaces(co, co')
    <2>1. \A d \in Consumers : /\ co[d].pc = "unlink" <=> co'[d].pc = "unlink"
                               /\ co[d].pc = "release" <=> co'[d].pc = "release"
                               /\ co[d].pc \in {"unlink", "release"} => co'[d] = co[d]
      BY <1>1, <1>7
    <2> QED
      BY <1>7, <2>1 DEF SamePlaces, Holders, Unlinkers
  <1>9. LastNo' = LastNo /\ TailNo' = TailNo /\ InsertedNo' = InsertedNo /\ First' = First
    BY <1>1 DEF LastNo, TailNo, InsertedNo, First
  <1>10. Owned' = Owned
    <2>1. Linked(q.tailIndex, q.headIndex, co') = Linked(q.tailIndex, q.headIndex, co)
      BY <1>8, SamePlacesFacts
    <2> QED
      BY <1>1, <1>9, <2>1 DEF Owned
  <1>11. Present' = Present \ {i}
    <2>1. \A d \in Consumers : d # c /\ co[d].pc \in Reading => co[d].index # i
      BY <1>0, <1>1, <1>4 DEF Counters, At, Served, Holding, Reading
    <2>2. \A j \in Nat : (\E d \in At(Reading)' : co'[d].index = j) <=>
                            (j # i /\ \E d \in At(Reading) : co[d].index = j)
      BY <1>1, <1>4, <1>7, <2>1 DEF At, Reading
    <2>3. \A j \in Nat : (q.headIndex <= j /\ j < q.tailIndex) \/ q.tailIndex <= j => j # i
      BY <1>0, <1>4 DEF TypeInv, QType
    <2> QED
      BY <1>1, <2>2, <2>3 DEF Present
  <1>12. Reach(off, index, co')
    <2>1. Reach(off, index, co)
      BY IndexParts
    <2>2. SUFFICES ASSUME NEW d \in Consumers, NEW x, x = No(co'[d].index)
                   PROVE  /\ co'[d].pc \in {"slot", "key"} =>
                                Ent(off, index, co'[d].header, x) = Entry(off, index, x)
                          /\ co'[d].pc = "key" =>
                                ~Unkeyed(index, index.headers[co'[d].header].index[co'[d].slot])
                          /\ co'[d].pc \in {"value", "set_empty", "unlink"} =>
                                co'[d].entry = Entry(off, index, x)
      BY Zenon DEF Reach
    <2>3. CASE d = c
      BY <1>1, <1>2, <2>2, <2>3
    <2>4. CASE d # c
      BY <1>7, <2>1, <2>2, <2>4, Zenon DEF Reach
    <2> QED
      BY <2>3, <2>4
  <1>13. /\ \A x \in Blocks : x # b => block'[x] = block[x]
         /\ \A x \in Blocks :
               /\ block'[x].state = block[x].state
               /\ block'[x].elementsCompletelyDequeued = block[x].elementsCompletelyDequeued
         /\ \A s \in 0..(BLOCK_SIZE - 1) :
               block'[b].elements[s] = IF s = s0 THEN None ELSE block[b].elements[s]
    BY <1>0, <1>3, <1>4, MoveElementBlocks
  <1>14. Used(index, block', co', pr.chain, pr.undone) /\ Pool(block', q.poolIndex)
    <2>1. Used(index, block, co', pr.chain, pr.undone)
      BY <1>8, IndexParts, SamePlacesFacts
    <2>2. Pool(block, q.poolIndex)
      BY IndexParts
    <2> QED
      BY <1>13, <2>1, <2>2 DEF Used, Pool
  <1>15. Counts(off, index, block', Owned, q.headIndex, co')
    <2>1. Counts(off, index, block, Owned, q.headIndex, co')
      BY <1>8, IndexParts, SamePlacesFacts
    <2>2. \A x \in Owned : Home(off, index, x) \in Blocks
      BY HomeFacts
    <2> QED
      BY <1>13, <2>1, <2>2 DEF Counts
  <1>16. Contents(off, index, block', Owned, Present \ {i})
    <2>1. ASSUME NEW x \in Owned, NEW s \in 0..(BLOCK_SIZE - 1)
          PROVE  block'[Home(off, index, x)].elements[s] =
                    IF KeyOf(x) + s \in Present \ {i} THEN KeyOf(x) + s ELSE None
      <3>1. /\ block[Home(off, index, x)].elements[s] =
                 IF KeyOf(x) + s \in Present THEN KeyOf(x) + s ELSE None
            /\ Home(off, index, x) \in Blocks
        BY <1>5, HomeFacts DEF Contents
      <3>2. No(KeyOf(x) + s) = x /\ Slot(KeyOf(x) + s) = s
        <4>1. x \in Int
          BY <1>0, OwnedFacts
        <4> QED
          BY <4>1, KeySlot
      <3>3. CASE x = x0
        <4>1. KeyOf(x) + s = i <=> s = s0
          BY <1>4, <3>2, <3>3
        <4>2. block'[Home(off, index, x)].elements[s] =
                 IF s = s0 THEN None ELSE block[Home(off, index, x)].elements[s]
          BY <1>3, <1>13, <3>3
        <4> QED
          BY <3>1, <4>1, <4>2
      <3>4. CASE x # x0
        <4>1. KeyOf(x) + s # i
          BY <1>2, <1>4, <3>2, <3>4
        <4>2. Home(off, index, x) # b
          BY <1>3, <3>4, HomeFacts
        <4> QED
          BY <1>13, <3>1, <4>1, <4>2
      <3> QED
        BY <3>3, <3>4
    <2>2. ASSUME NEW a \in Blocks \ Valued(index) PROVE block'[a].elements = NoElements
      <3>1. b \in Valued(index)
        BY <1>3, HomeFacts
      <3> QED
        BY <1>5, <1>13, <2>2, <3>1 DEF Contents
    <2> QED
      BY <2>1, <2>2 DEF Contents
  <1> QED
    BY <1>1, <1>6, <1>9, <1>10, <1>11, <1>12, <1>14, <1>15, <1>16, IndexParts
    DEF BlockInv, IndexInv, DataInv

LEMMA SetEmptyKeeps ==
  ASSUME CInv, NEW c \in Consumers, SetEmpty(c), NEW off, BlockInv(off)
  PROVE  BlockInv(off)' /\ (co'[c].pc = "unlink" => co'[c].item = co[c].item
                                                    /\ co'[c].index = co[c].index)
  <1>0. TypeInv /\ ProducerInv /\ Counters
    BY DEF CInv
  <1>1. /\ OthersStay(c) /\ co[c].pc = "set_empty" /\ UNCHANGED <<q, index, pr>>
        /\ EmptiedBy(block[BlockHeld(c)].elementsCompletelyDequeued) =>
               /\ co'[c].pc = "unlink" /\ co'[c].index = co[c].index
               /\ co'[c].entry = co[c].entry /\ co'[c].item = co[c].item
        /\ ~EmptiedBy(block[BlockHeld(c)].elementsCompletelyDequeued) => co'[c].pc = "idle"
    BY <1>0, SetEmptyFields
  <1>2. PICK x0 \in Owned : /\ x0 = No(co[c].index) /\ x0 \in Int /\ x0 \in Nat
                            /\ BlockHeld(c) = Home(off, index, x0)
                            /\ co[c].entry = Entry(off, index, x0)
                            /\ x0 \in Linked(q.tailIndex, q.headIndex, co)
    <2>1. No(co[c].index) \in Linked(q.tailIndex, q.headIndex, co) /\ No(co[c].index) \in Nat
      BY <1>1, ServedFacts DEF Served, Holding
    <2> QED
      BY <1>1, <2>1, HeldFacts
  <1>3. PICK b \in Blocks : b = BlockHeld(c) /\ b = Home(off, index, x0) /\ b # null
    BY <1>1, <1>2, HeldFacts
  <1>4. /\ \A x \in Blocks : x # b => block'[x] = block[x]
        /\ \A x \in Blocks : /\ block'[x].state = block[x].state
                             /\ block'[x].elements = block[x].elements
        /\ block'[b].elementsCompletelyDequeued = block[b].elementsCompletelyDequeued + 1
    BY <1>0, <1>3, SetEmptyBlocks
  <1>5. PICK n \in Nat, h \in Nat, k \in Nat, m \in Nat :
           /\ n = block[b].elementsCompletelyDequeued /\ h = q.headIndex
           /\ k = Cardinality(Holders(co, x0)) /\ m = Out(h, x0)
    <2>1. Cardinality(Holders(co, x0)) \in Nat
      BY PlacesType
    <2>2. block[b].elementsCompletelyDequeued \in Nat
      BY <1>3, HomeFacts
    <2>3. q.headIndex \in Nat
      BY <1>0 DEF TypeInv, QType
    <2>4. Out(q.headIndex, x0) \in 0..BLOCK_SIZE
      BY <1>2, <2>3, OutStep
    <2>5. Out(q.headIndex, x0) \in Nat
      BY <2>4
    <2> QED
      BY <2>1, <2>2, <2>3, <2>5
  <1>6. /\ n + k = m /\ m <= BLOCK_SIZE /\ k > 0 /\ BLOCK_SIZE \in Nat
        /\ m = BLOCK_SIZE <=> h >= KeyOf(x0 + 1)
    <2>1. n + k = m
      BY <1>2, <1>3, <1>5, IndexParts DEF Counts
    <2>2. c \in Holders(co, x0)
      BY <1>1, <1>2 DEF Holders, Holding
    <2>3. k > 0
      BY <1>5, <2>2, PlacesType
    <2>4. m \in 0..BLOCK_SIZE /\ (m = BLOCK_SIZE <=> h >= KeyOf(x0 + 1))
      BY <1>2, <1>5, OutStep
    <2> QED
      BY <2>1, <2>3, <2>4, SizesAssumption
  <1>7. \A d \in Consumers : d # c => co'[d] = co[d]
    BY <1>1 DEF OthersStay
  <1>8. co'[c].pc \in {"unlink", "idle"} /\ (co'[c].pc = "unlink" <=> n = BLOCK_SIZE - 1)
    BY <1>1, <1>3, <1>5 DEF EmptiedBy
  <1>9. /\ \A x : x # x0 => Holders(co', x) = Holders(co, x) /\ Unlinkers(co', x) = Unlinkers(co, x)
        /\ c \in Holders(co, x0) /\ Holders(co', x0) = Holders(co, x0) \ {c}
        /\ co'[c].pc = "unlink" => c \in Unlinkers(co', x0)
    BY <1>1, <1>2, <1>7, <1>8 DEF Holders, Unlinkers, Holding, Reading
  <1>10. /\ n = BLOCK_SIZE - 1 => Holders(co, x0) = {c} /\ h >= KeyOf(x0 + 1)
         /\ n # BLOCK_SIZE - 1 => h < KeyOf(x0 + 1) \/ Holders(co', x0) # {}
    <2>1. PICK B \in Nat : B = BLOCK_SIZE
      BY <1>6
    <2>2. n = B - 1 => k = 1 /\ m = B
      BY <1>6, <2>1
    <2>3. n # B - 1 => k # 1 \/ m # B
      BY <1>6, <2>1
    <2>4. k = 1 => Holders(co, x0) = {c}
      BY <1>5, <1>9, PlacesType
    <2>5. k # 1 => Holders(co', x0) # {}
      <3>1. Cardinality(Holders(co, x0) \ {c}) = k - 1
        BY <1>5, <1>9, PlacesType
      <3>2. Cardinality(Holders(co', x0)) = k - 1
        BY <1>9, <3>1
      <3>3. Cardinality(Holders(co', x0)) = 0 <=> Holders(co', x0) = {}
        BY PlacesType
      <3> QED
        BY <3>2, <3>3
    <2>6. h \in Int /\ KeyOf(x0 + 1) \in Int
      <3>1. x0 + 1 \in Int
        BY <1>2
      <3> QED
        BY <3>1, KeyType
    <2> QED
      BY <1>6, <2>1, <2>2, <2>3, <2>4, <2>5, <2>6
  <1>11. Linked(q.tailIndex, q.headIndex, co') = Linked(q.tailIndex, q.headIndex, co)
    <2>1. x0 \in Linked(q.tailIndex, q.headIndex, co')
      <3>1. KeyOf(x0) < q.tailIndex
        BY <1>2 DEF Linked
      <3>2. h < KeyOf(x0 + 1) \/ Holders(co', x0) # {} \/ Unlinkers(co', x0) # {}
        BY <1>8, <1>9, <1>10
      <3> QED
        BY <1>2, <1>5, <3>1, <3>2 DEF Linked
    <2>2. \A x \in Nat : x # x0 => (x \in Linked(q.tailIndex, q.headIndex, co')
                                      <=> x \in Linked(q.tailIndex, q.headIndex, co))
      BY <1>9 DEF Linked
    <2> QED
      BY <1>2, <2>1, <2>2 DEF Linked
  <1>12. LastNo' = LastNo /\ TailNo' = TailNo /\ InsertedNo' = InsertedNo /\ First' = First
    BY <1>1 DEF LastNo, TailNo, InsertedNo, First
  <1>13. Owned' = Owned
    BY <1>1, <1>11, <1>12 DEF Owned
  <1>14. Present' = Present
    <2>1. \A d \in Consumers : /\ co'[d].pc \in Reading <=> co[d].pc \in Reading
                               /\ co[d].pc \in Reading => co'[d] = co[d]
      BY <1>1, <1>7, <1>8 DEF Reading
    <2> QED
      BY <1>1, <2>1 DEF Present, At
  <1>15. Reach(off, index, co')
    <2>1. Reach(off, index, co)
      BY IndexParts
    <2>2. SUFFICES ASSUME NEW d \in Consumers, NEW x, x = No(co'[d].index)
                   PROVE  /\ co'[d].pc \in {"slot", "key"} =>
                                Ent(off, index, co'[d].header, x) = Entry(off, index, x)
                          /\ co'[d].pc = "key" =>
                                ~Unkeyed(index, index.headers[co'[d].header].index[co'[d].slot])
                          /\ co'[d].pc \in {"value", "set_empty", "unlink"} =>
                                co'[d].entry = Entry(off, index, x)
      BY Zenon DEF Reach
    <2>3. CASE d = c
      BY <1>1, <1>2, <1>8, <2>2, <2>3
    <2>4. CASE d # c
      BY <1>7, <2>1, <2>2, <2>4, Zenon DEF Reach
    <2> QED
      BY <2>3, <2>4
  <1>16. Used(index, block', co', pr.chain, pr.undone) /\ Pool(block', q.poolIndex)
    <2>1. \A d \in Consumers : /\ co'[d].pc = "release" <=> co[d].pc = "release"
                               /\ co'[d].pc = "release" => co'[d] = co[d]
      BY <1>1, <1>7, <1>8
    <2>2. Released(co') = Released(co)
      BY <2>1 DEF Released
    <2>3. Used(index, block, co, pr.chain, pr.undone) /\ Pool(block, q.poolIndex)
      BY IndexParts
    <2> QED
      BY <1>4, <2>1, <2>2, <2>3 DEF Used, Pool
  <1>17. Counts(off, index, block', Owned, h, co')
    <2>0. Counts(off, index, block, Owned, h, co)
      BY <1>5, IndexParts
    <2>1. ASSUME NEW x \in Owned
          PROVE  block'[Home(off, index, x)].elementsCompletelyDequeued
                    + Cardinality(Holders(co', x)) = Out(h, x)
      <3>1. CASE x = x0
        <4>1. Cardinality(Holders(co', x0)) = k - 1
          <5>1. Cardinality(Holders(co, x0) \ {c}) = k - 1
            BY <1>5, <1>9, PlacesType
          <5> QED
            BY <1>9, <5>1
        <4>2. block'[Home(off, index, x)].elementsCompletelyDequeued = n + 1
          BY <1>3, <1>4, <1>5, <3>1
        <4>3. (n + 1) + (k - 1) = m
          BY <1>6
        <4> QED
          BY <1>5, <3>1, <4>1, <4>2, <4>3, Zenon
      <3>2. CASE x # x0
        <4>1. Home(off, index, x) # b /\ Home(off, index, x) \in Blocks
          BY <1>3, <3>2, HomeFacts
        <4>2. block'[Home(off, index, x)] = block[Home(off, index, x)]
          BY <1>4, <4>1
        <4> QED
          BY <1>9, <2>0, <3>2, <4>2 DEF Counts
      <3> QED
        BY <3>1, <3>2
    <2>2. \A d \in Consumers : co[d].pc = "unlink" =>
             /\ h >= KeyOf(No(co[d].index) + 1) /\ Holders(co, No(co[d].index)) = {}
             /\ No(co[d].index) # x0
             /\ \A e \in Consumers : co[e].pc = "unlink" /\ d # e =>
                   No(co[d].index) # No(co[e].index)
      BY <1>9, <2>0 DEF Counts
    <2>3. ASSUME NEW d \in Consumers, co'[d].pc = "unlink"
          PROVE  /\ h >= KeyOf(No(co'[d].index) + 1)
                 /\ Holders(co', No(co'[d].index)) = {}
                 /\ \A e \in Consumers : co'[e].pc = "unlink" /\ d # e =>
                       No(co'[d].index) # No(co'[e].index)
      <3>1. CASE d = c
        <4>1. No(co'[c].index) = x0 /\ h >= KeyOf(x0 + 1) /\ Holders(co', x0) = {}
          BY <1>1, <1>2, <1>3, <1>5, <1>8, <1>9, <1>10, <2>3, <3>1 DEF EmptiedBy
        <4> QED
          BY <1>7, <2>2, <3>1, <4>1
      <3>2. CASE d # c
        <4>1. co'[d] = co[d] /\ co[d].pc = "unlink"
          BY <1>7, <2>3, <3>2
        <4>2. co'[c].pc = "unlink" => No(co'[c].index) = x0
          BY <1>1, <1>2, <1>3, <1>5, <1>8 DEF EmptiedBy
        <4> QED
          BY <1>7, <1>9, <2>2, <4>1, <4>2
      <3> QED
        BY <3>1, <3>2
    <2> QED
      BY <2>1, <2>3 DEF Counts
  <1>18. Contents(off, index, block', Owned, Present)
    <2>1. Contents(off, index, block, Owned, Present)
      BY IndexParts
    <2>2. \A x \in Owned : Home(off, index, x) \in Blocks
      BY HomeFacts
    <2> QED
      BY <1>4, <2>1, <2>2 DEF Contents
  <1>19. co'[c].pc = "unlink" => co'[c].item = co[c].item /\ co'[c].index = co[c].index
    BY <1>1, <1>3, <1>5, <1>8 DEF EmptiedBy
  <1> QED
    BY <1>1, <1>5, <1>12, <1>13, <1>14, <1>15, <1>16, <1>17, <1>18, <1>19, IndexParts
    DEF BlockInv, IndexInv, DataInv

-----------------------------------------------------------------------------
(***************************************************************************)
(* Steps that change the block index                                       *)
(***************************************************************************)

\* An index with the same rings and keys.
LEMMA IndexSame ==
  ASSUME NEW I, IsIndex(I), HeadersOK(I), I.headers # <<>>, NEW off \in Offsets(I),
         NEW J, SameRings(I, J), SameKeys(I, J)
  PROVE  /\ J.headers # <<>> /\ \A x : Entry(off, J, x) = Entry(off, I, x)
         /\ \A x \in Int : \A y : Keyed(J, Entry(off, J, x), y) <=> Keyed(I, Entry(off, I, x), y)
         /\ \A l \in Int : \A m \in Int : Inserted(off, I, l, m) => Inserted(off, J, l, m)
  <1>1. J.headers # <<>>
    <2>1. Len(I.headers) \in 1..Len(I.headers)
      BY HeaderFacts
    <2> QED
      BY <2>1 DEF SameRings
  <1>2. \A x : Entry(off, J, x) = Entry(off, I, x)
    BY SameEntries
  <1>3. \A x \in Int : Entry(off, I, x) \in 1..Len(I.entries)
    BY RingFacts
  <1>4. ASSUME NEW x \in Int, NEW y
        PROVE  Keyed(J, Entry(off, J, x), y) <=> Keyed(I, Entry(off, I, x), y)
    BY <1>2, <1>3, SameKeyed
  <1>5. ASSUME NEW l \in Int, NEW m \in Int, Inserted(off, I, l, m)
        PROVE  Inserted(off, J, l, m)
    BY <1>4, <1>5 DEF Inserted
  <1> QED
    BY <1>1, <1>2, <1>4, <1>5

LEMMA ReachSame ==
  ASSUME TypeInv, index.headers # <<>>, NEW off, NEW J, SameRings(index, J),
         SameKeys(index, J), Reach(off, index, co)
  PROVE  Reach(off, J, co)
  <1>1. /\ \A h \in 1..Len(index.headers) : \A x : Ent(off, J, h, x) = Ent(off, index, h, x)
        /\ \A x : Entry(off, J, x) = Entry(off, index, x)
    BY SameEntries DEF TypeInv
  <1>2. ASSUME NEW c \in Consumers, co[c].pc = "key"
        PROVE  Unkeyed(J, J.headers[co[c].header].index[co[c].slot])
                  <=> Unkeyed(index, index.headers[co[c].header].index[co[c].slot])
    <2>1. PICK h \in 1..Len(index.headers) : h = co[c].header
      BY <1>2 DEF TypeInv, LoadedOK
    <2>2. PICK p \in 0..(index.headers[h].capacity - 1) : p = co[c].slot
      BY <1>2, <2>1 DEF TypeInv, LoadedOK
    <2>3. index.headers[h].index[p] \in 1..Len(index.entries)
      BY <2>1, <2>2, HeaderAt DEF TypeInv
    <2>4. J.headers[h].index[p] = index.headers[h].index[p]
      BY <2>1 DEF SameRings
    <2> QED
      BY <2>1, <2>2, <2>3, <2>4, SameKeyed
  <1>3. ASSUME NEW c \in Consumers, co[c].pc \in {"slot", "key"}
        PROVE  co[c].header \in 1..Len(index.headers)
    BY <1>3 DEF TypeInv, LoadedOK
  <1> QED
    BY <1>1, <1>2, <1>3 DEF Reach

\* The index with b in its entry e.
WithValue(I, e, b) == [I EXCEPT !.entries[e].value = b]

LEMMA ValueStored ==
  ASSUME NEW I, IsIndex(I), NEW e \in 1..Len(I.entries), NEW b \in 0..MaxBlocks,
         NEW J, J = WithValue(I, e, b)
  PROVE  /\ IsIndex(J) /\ J.headers = I.headers /\ Len(J.entries) = Len(I.entries)
         /\ SameKeys(I, J) /\ Value(J, e) = b
         /\ \A f \in 1..Len(I.entries) : f # e => Value(J, f) = Value(I, f)
  <1> DEFINE K == [I EXCEPT !.entries[e].value = b]
  <1>1. /\ IsIndex(K) /\ K.headers = I.headers /\ Len(K.entries) = Len(I.entries)
        /\ K.entries[e].value = b
        /\ \A f \in 1..Len(I.entries) : /\ K.entries[f].key = I.entries[f].key
                                        /\ f # e => K.entries[f].value = I.entries[f].value
    BY ValueSet
  <1>2. J = K
    BY Zenon DEF WithValue
  <1> HIDE DEF K
  <1> QED
    BY <1>1, <1>2 DEF SameKeys, Value

\* The blocks of the index stay, ...
BlocksKept(off, I, own, w, J) ==
    /\ Len(I.entries) \in Nat /\ Len(J.entries) \in Nat /\ Len(I.entries) <= Len(J.entries)
    /\ \A x \in own : /\ Entry(w, J, x) = Entry(off, I, x)
                      /\ Keyed(J, Entry(w, J, x), x)
                      /\ Entry(off, I, x) \in 1..Len(I.entries)
    /\ \A e \in 1..Len(I.entries) : Value(J, e) = Value(I, e)
    /\ \A e \in 1..Len(J.entries) : e \notin 1..Len(I.entries) => Value(J, e) = null

LEMMA ValuesKept ==
  ASSUME NEW off, NEW I, NEW own, Links(off, I, own), NEW w, NEW J, BlocksKept(off, I, own, w, J)
  PROVE  /\ Links(w, J, own) /\ \A x \in own : Home(w, J, x) = Home(off, I, x)
         /\ Valued(J) = Valued(I)
  <1>0. /\ Len(I.entries) \in Nat /\ Len(J.entries) \in Nat /\ Len(I.entries) <= Len(J.entries)
        /\ \A x \in own : /\ Entry(w, J, x) = Entry(off, I, x)
                          /\ Keyed(J, Entry(w, J, x), x)
                          /\ Entry(off, I, x) \in 1..Len(I.entries)
        /\ \A e \in 1..Len(I.entries) : Value(J, e) = Value(I, e)
        /\ \A e \in 1..Len(J.entries) : e \notin 1..Len(I.entries) => Value(J, e) = null
    BY DEF BlocksKept
  <1> USE <1>0
  <1>1. \A x \in own : Home(w, J, x) = Home(off, I, x)
    BY DEF Home
  <1>2. \A e \in 1..Len(J.entries) : Value(J, e) # null =>
           e \in 1..Len(I.entries) /\ Value(J, e) = Value(I, e)
    OBVIOUS
  <1>3. Valued(J) = Valued(I)
    <2>1. \A e \in 1..Len(I.entries) : e \in 1..Len(J.entries)
      OBVIOUS
    <2> QED
      BY <1>2, <2>1 DEF Valued
  <1>4. Links(w, J, own)
    BY <1>1, <1>2 DEF Links
  <1> QED
    BY <1>1, <1>3, <1>4

\* ... one leaves, ...
LEMMA ValueRemoved ==
  ASSUME NEW off, NEW I, NEW own, Links(off, I, own), NEW J, Len(J.entries) = Len(I.entries),
         \A x \in own : /\ Entry(off, J, x) = Entry(off, I, x)
                        /\ Keyed(J, Entry(off, J, x), x)
                        /\ Entry(off, I, x) \in 1..Len(I.entries),
         \A x, y \in own : Entry(off, I, x) = Entry(off, I, y) => x = y,
         NEW x0 \in own, Value(J, Entry(off, I, x0)) = null,
         \A e \in 1..Len(I.entries) : e # Entry(off, I, x0) => Value(J, e) = Value(I, e)
  PROVE  /\ Links(off, J, own \ {x0})
         /\ \A x \in own \ {x0} : Home(off, J, x) = Home(off, I, x)
         /\ Valued(J) = Valued(I) \ {Home(off, I, x0)}
         /\ Home(off, I, x0) \in Valued(I)
  <1>0. PICK e0 \in 1..Len(I.entries) : e0 = Entry(off, I, x0)
    OBVIOUS
  <1>1. \A x \in own \ {x0} : Entry(off, I, x) # e0 /\ Entry(off, I, x) \in 1..Len(I.entries)
    BY <1>0
  <1>2. \A e \in 1..Len(I.entries) : e # e0 => Value(J, e) = Value(I, e)
    BY <1>0
  <1>3. Value(J, e0) = null /\ Value(I, e0) = Home(off, I, x0) /\ Value(I, e0) # null
    BY <1>0 DEF Home, Links
  <1>4. \A x \in own \ {x0} : Home(off, J, x) = Home(off, I, x)
    BY <1>1, <1>2 DEF Home
  <1>5. Valued(J) = Valued(I) \ {Value(I, e0)} /\ Value(I, e0) \in Valued(I)
    <2>1. \A e, f \in 1..Len(I.entries) :
             Value(I, e) # null /\ Value(I, e) = Value(I, f) => e = f
      BY Zenon DEF Links
    <2>2. \A e \in 1..Len(I.entries) : Value(I, e) = Value(I, e0) => e = e0
      BY <1>3, <2>1
    <2> QED
      BY <1>2, <1>3, <2>2 DEF Valued
  <1>6. Links(off, J, own \ {x0})
    <2>1. \A x \in own \ {x0} : Keyed(J, Entry(off, J, x), x) /\ Home(off, J, x) # null
      BY <1>4 DEF Links
    <2>2. ASSUME NEW e \in 1..Len(J.entries), Value(J, e) # null
          PROVE  \E x \in own \ {x0} : e = Entry(off, J, x)
      <3>1. e # e0 /\ Value(I, e) # null /\ e \in 1..Len(I.entries)
        BY <1>2, <1>3, <2>2
      <3>2. PICK x \in own : e = Entry(off, I, x)
        BY <3>1 DEF Links
      <3> QED
        BY <1>0, <3>1, <3>2
    <2>3. ASSUME NEW e \in 1..Len(J.entries), NEW f \in 1..Len(J.entries),
                 Value(J, e) # null, Value(J, e) = Value(J, f)
          PROVE  e = f
      <3>1. /\ e \in 1..Len(I.entries) /\ f \in 1..Len(I.entries) /\ Value(I, e) # null
            /\ Value(I, e) = Value(I, f)
        BY <1>2, <1>3, <2>3
      <3> QED
        BY <3>1 DEF Links
    <2> QED
      BY <2>1, <2>2, <2>3 DEF Links
  <1> QED
    BY <1>3, <1>4, <1>5, <1>6

\* ... or one is added.
\* A number that gets a block.
Gains(off, I, own, J, x0, e0, b, more) ==
    /\ Links(off, I, own) /\ Len(J.entries) = Len(I.entries)
    /\ e0 \in 1..Len(I.entries) /\ e0 = Entry(off, I, x0) /\ e0 = Entry(off, J, x0)
    /\ Keyed(J, e0, x0) /\ b # null /\ b \notin Valued(I)
    /\ \A x \in own : /\ Entry(off, J, x) = Entry(off, I, x)
                      /\ Keyed(J, Entry(off, J, x), x)
                      /\ Entry(off, I, x) \in 1..Len(I.entries)
                      /\ Entry(off, I, x) # e0
    /\ Value(I, e0) = null /\ Value(J, e0) = b
    /\ \A e \in 1..Len(I.entries) : e # e0 => Value(J, e) = Value(I, e)
    /\ \A x : x \in more <=> x \in own \/ x = x0

Gained(off, I, own, J, x0, b, more) ==
    /\ Links(off, J, more)
    /\ \A x \in own : Home(off, J, x) = Home(off, I, x)
    /\ Home(off, J, x0) = b
    /\ \A v : v \in Valued(J) <=> v \in Valued(I) \/ v = b

LEMMA ValueAdded ==
  ASSUME NEW off, NEW I, NEW own, NEW J, NEW x0, NEW e0, NEW b, NEW more,
         Gains(off, I, own, J, x0, e0, b, more)
  PROVE  Gained(off, I, own, J, x0, b, more)
  <1>0. /\ Links(off, I, own) /\ Len(J.entries) = Len(I.entries) /\ e0 \in 1..Len(I.entries)
        /\ e0 = Entry(off, I, x0) /\ e0 = Entry(off, J, x0)
        /\ Keyed(J, e0, x0) /\ b # null /\ b \notin Valued(I)
        /\ \A x \in own : Entry(off, J, x) = Entry(off, I, x) /\ Keyed(J, Entry(off, J, x), x)
        /\ \A x : x \in more <=> x \in own \/ x = x0
    BY DEF Gains
  <1> USE <1>0
  <1>1. \A x \in own : Entry(off, I, x) # e0 /\ Entry(off, I, x) \in 1..Len(I.entries)
    BY DEF Gains
  <1>2. \A e \in 1..Len(I.entries) : e # e0 => Value(J, e) = Value(I, e)
    BY DEF Gains
  <1>3. Value(J, e0) = b /\ Value(I, e0) = null /\ Home(off, J, x0) = b
    BY DEF Gains, Home
  <1>4. \A x \in own : Home(off, J, x) = Home(off, I, x)
    BY <1>1, <1>2 DEF Home
  <1>5. Valued(J) = Valued(I) \cup {b}
    BY <1>2, <1>3 DEF Valued
  <1>6. \A e \in 1..Len(I.entries) : Value(I, e) # b
    BY DEF Valued
  <1>7. Links(off, J, more)
    <2>1. \A x \in more : Keyed(J, Entry(off, J, x), x) /\ Home(off, J, x) # null
      BY <1>3, <1>4 DEF Links
    <2>2. ASSUME NEW e \in 1..Len(J.entries), Value(J, e) # null
          PROVE  \E x \in more : e = Entry(off, J, x)
      <3>1. CASE e = e0
        BY <3>1
      <3>2. CASE e # e0
        <4>1. Value(I, e) # null /\ e \in 1..Len(I.entries)
          BY <1>2, <2>2, <3>2
        <4>2. PICK x \in own : e = Entry(off, I, x)
          BY <4>1 DEF Links
        <4> QED
          BY <4>2
      <3> QED
        BY <3>1, <3>2
    <2>3. ASSUME NEW e \in 1..Len(J.entries), NEW f \in 1..Len(J.entries),
                 Value(J, e) # null, Value(J, e) = Value(J, f)
          PROVE  e = f
      <3>1. e # e0 => Value(J, e) # b
        BY <1>2, <1>6
      <3>2. f # e0 => Value(J, f) # b
        BY <1>2, <1>6
      <3>3. CASE e = e0 \/ f = e0
        BY <1>3, <2>3, <3>1, <3>2, <3>3
      <3>4. CASE e # e0 /\ f # e0
        <4>1. Value(I, e) # null /\ Value(I, e) = Value(I, f)
          BY <1>2, <2>3, <3>4
        <4> QED
          BY <4>1 DEF Links
      <3> QED
        BY <3>3, <3>4
    <2> QED
      BY <2>1, <2>2, <2>3 DEF Links
  <1> QED
    BY <1>3, <1>4, <1>5, <1>7 DEF Gained

\* A step that changes values only.
LEMMA ValueStep ==
  ASSUME CInv, NEW off, BlockInv(off), index.headers # <<>>, NEW J,
         J.headers = index.headers, SameKeys(index, J)
  PROVE  /\ SameRings(index, J) /\ Aligned(off, J) /\ HeadersOK(J) /\ off \in Offsets(J)
         /\ Window(off, J, TailNo) /\ Inserted(off, J, LastNo, InsertedNo)
         /\ Reach(off, J, co)
         /\ \A x : Entry(off, J, x) = Entry(off, index, x)
         /\ \A x \in Owned : /\ Keyed(J, Entry(off, J, x), x)
                             /\ Entry(off, index, x) \in 1..Len(index.entries)
         /\ \A x, y \in Owned : Entry(off, index, x) = Entry(off, index, y) => x = y
  <1>0. TypeInv /\ ProducerInv /\ TailNo \in Int /\ LastNo \in Int /\ InsertedNo \in Int
    BY TailNoFacts DEF CInv
  <1>1. /\ IsIndex(index) /\ HeadersOK(index) /\ off \in Offsets(index) /\ Aligned(off, index)
        /\ Window(off, index, TailNo) /\ Inserted(off, index, LastNo, InsertedNo)
        /\ Links(off, index, Owned) /\ Reach(off, index, co)
    BY IndexParts
  <1>2. SameRings(index, J)
    BY DEF SameRings
  <1>3. Aligned(off, J) /\ HeadersOK(J) /\ off \in Offsets(J)
    BY <1>1, <1>2, AlignedSame
  <1>4. TailAt(off, index, TailNo)
    BY <1>1, WindowParts
  <1>5. TailAt(off, J, TailNo)
    BY <1>4 DEF TailAt, Cap
  <1>6. Window(off, J, TailNo)
    BY <1>0, <1>1, <1>2, <1>5, WindowSame
  <1>7. /\ Inserted(off, J, LastNo, InsertedNo)
        /\ \A x : Entry(off, J, x) = Entry(off, index, x)
        /\ \A x \in Int : \A y : Keyed(J, Entry(off, J, x), y) <=> Keyed(index, Entry(off, index, x), y)
    BY <1>0, <1>1, <1>2, IndexSame
  <1>8. Reach(off, J, co)
    BY <1>0, <1>1, <1>2, ReachSame
  <1>9. \A x \in Owned : /\ Keyed(J, Entry(off, J, x), x) /\ Keyed(index, Entry(off, index, x), x)
                         /\ Entry(off, index, x) \in 1..Len(index.entries) /\ x \in Int
    BY <1>0, <1>1, <1>7, HomeFacts, OwnedFacts
  <1>10. ASSUME NEW x \in Owned, NEW y \in Owned, Entry(off, index, x) = Entry(off, index, y)
         PROVE  x = y
    BY <1>9, <1>10, KeyedFacts
  <1> QED
    BY <1>2, <1>3, <1>6, <1>7, <1>8, <1>9, <1>10

\* A consumer that unlinks a block leaves none of its elements.
LEMMA UnlinkedIsEmpty ==
  ASSUME CInv, NEW c \in Consumers, co[c].pc = "unlink", NEW off, BlockInv(off)
  PROVE  block[Home(off, index, No(co[c].index))].elements = NoElements
  <1>0. TypeInv /\ ProducerInv
    BY DEF CInv
  <1>1. PICK x0 \in Owned : x0 = No(co[c].index) /\ x0 \in Int /\ x0 \in Nat
    BY HeldFacts, OwnedFacts, <1>0
  <1>2. PICK b \in Blocks : b = Home(off, index, x0)
    BY HomeFacts
  <1>3. q.headIndex >= KeyOf(x0 + 1) /\ Holders(co, x0) = {}
    BY <1>1, IndexParts DEF Counts
  <1>4. q.headIndex <= q.tailIndex /\ q.headIndex \in Nat /\ q.tailIndex \in Nat
    <2>1. co[c].pc \in Served
      BY DEF Served
    <2> QED
      BY <1>0, <2>1, ServedFacts DEF TypeInv, QType
  <1>5. ASSUME NEW s \in 0..(BLOCK_SIZE - 1)
        PROVE  block[b].elements[s] = None
    <2>1. PICK i \in Int : i = KeyOf(x0) + s /\ No(i) = x0 /\ i < KeyOf(x0 + 1)
      BY <1>1, KeySlot
    <2>2. PICK k \in Int : k = KeyOf(x0 + 1)
      <3>1. x0 + 1 \in Int
        BY <1>1
      <3> QED
        BY <3>1, KeyType
    <2>3. i < q.headIndex /\ i < q.tailIndex
      BY <1>3, <1>4, <2>1, <2>2
    <2>4. \A d \in At(Reading) : co[d].index # i
      BY <1>3, <2>1 DEF Holders, Holding, At
    <2>5. i \notin Present
      BY <1>4, <2>3, <2>4 DEF Present
    <2>6. Contents(off, index, block, Owned, Present)
      BY IndexParts
    <2> QED
      BY <1>2, <2>1, <2>5, <2>6 DEF Contents
  <1>6. block[b].elements \in [0..(BLOCK_SIZE - 1) -> Int]
    BY <1>0, BlockAt DEF TypeInv
  <1>7. block[b].elements = NoElements
    BY <1>5, <1>6 DEF NoElements
  <1> QED
    BY <1>1, <1>2, <1>7

LEMMA UnlinkKeeps ==
  ASSUME CInv, NEW c \in Consumers, Unlink(c), NEW off, BlockInv(off)
  PROVE  BlockInv(off)'
  <1>0. TypeInv /\ ProducerInv
    BY DEF CInv
  <1>1. /\ OthersStay(c) /\ co[c].pc = "unlink" /\ co'[c].pc = "release"
        /\ co'[c].header = BlockHeld(c)
        /\ index' = [index EXCEPT !.entries[co[c].entry].value = null]
        /\ UNCHANGED <<q, block, pr>>
    BY <1>0, UnlinkFields
  <1>2. PICK x0 \in Owned : /\ x0 = No(co[c].index) /\ x0 \in Int /\ x0 \in Nat
                            /\ BlockHeld(c) = Home(off, index, x0)
                            /\ co[c].entry = Entry(off, index, x0)
                            /\ x0 \in Linked(q.tailIndex, q.headIndex, co)
    <2>1. No(co[c].index) \in Linked(q.tailIndex, q.headIndex, co) /\ No(co[c].index) \in Nat
      BY <1>1, ServedFacts DEF Served, Holding
    <2> QED
      BY <1>1, <2>1, HeldFacts
  <1>3. PICK b \in Blocks : b = BlockHeld(c) /\ b = Home(off, index, x0) /\ b # null
    BY <1>1, <1>2, HeldFacts
  <1>4. PICK e0 \in 1..Len(index.entries) : e0 = Entry(off, index, x0) /\ e0 = co[c].entry
    BY <1>2, HomeFacts
  <1>5. index.headers # <<>>
    BY <1>0, <1>2, OwnedFacts
  <1>6. PICK J : /\ J = index' /\ IsIndex(J) /\ J.headers = index.headers
                 /\ Len(J.entries) = Len(index.entries)
                 /\ Value(J, e0) = null /\ SameKeys(index, J)
                 /\ \A f \in 1..Len(index.entries) : f # e0 => Value(J, f) = Value(index, f)
    <2>1. null \in 0..MaxBlocks /\ IsIndex(index)
      BY <1>0, SizesAssumption DEF TypeInv, null
    <2>2. index' = [index EXCEPT !.entries[e0].value = null]
      BY <1>1, <1>4
    <2>3. PICK n \in 0..MaxBlocks : n = null
      BY <2>1
    <2>4. PICK J : J = WithValue(index, e0, n)
      OBVIOUS
    <2>5. /\ IsIndex(J) /\ J.headers = index.headers /\ Len(J.entries) = Len(index.entries)
          /\ SameKeys(index, J) /\ Value(J, e0) = n
          /\ \A f \in 1..Len(index.entries) : f # e0 => Value(J, f) = Value(index, f)
      BY <2>1, <2>4, ValueStored
    <2>6. J = index'
      BY <2>2, <2>3, <2>4, Zenon DEF WithValue
    <2> QED
      BY <2>3, <2>5, <2>6
  <1>7. /\ SameRings(index, J) /\ Aligned(off, J) /\ HeadersOK(J) /\ off \in Offsets(J)
        /\ Window(off, J, TailNo) /\ Inserted(off, J, LastNo, InsertedNo)
        /\ Reach(off, J, co)
        /\ \A x : Entry(off, J, x) = Entry(off, index, x)
        /\ \A x \in Owned : /\ Keyed(J, Entry(off, J, x), x)
                            /\ Entry(off, index, x) \in 1..Len(index.entries)
        /\ \A x, y \in Owned : Entry(off, index, x) = Entry(off, index, y) => x = y
    BY <1>5, <1>6, ValueStep
  <1>8. /\ Links(off, J, Owned \ {x0})
        /\ \A x \in Owned \ {x0} : Home(off, J, x) = Home(off, index, x)
        /\ Valued(J) = Valued(index) \ {b} /\ b \in Valued(index)
    <2>1. Links(off, index, Owned)
      BY IndexParts
    <2>2. Value(J, Entry(off, index, x0)) = null
      BY <1>4, <1>6
    <2>3. \A e \in 1..Len(index.entries) : e # Entry(off, index, x0) => Value(J, e) = Value(index, e)
      BY <1>4, <1>6
    <2>4. \A x \in Owned : /\ Entry(off, J, x) = Entry(off, index, x)
                            /\ Keyed(J, Entry(off, J, x), x)
                            /\ Entry(off, index, x) \in 1..Len(index.entries)
      BY <1>7
    <2>5. /\ Links(off, J, Owned \ {x0})
          /\ \A x \in Owned \ {x0} : Home(off, J, x) = Home(off, index, x)
          /\ Valued(J) = Valued(index) \ {Home(off, index, x0)}
          /\ Home(off, index, x0) \in Valued(index)
      <3>1. Len(J.entries) = Len(index.entries)
        BY <1>6
      <3>2. \A x, y \in Owned : Entry(off, index, x) = Entry(off, index, y) => x = y
        BY <1>7
      <3> QED
        BY <2>1, <2>2, <2>3, <2>4, <3>1, <3>2, ValueRemoved, Zenon
    <2> QED
      BY <1>3, <2>5
  <1>9. \A d \in Consumers : d # c => co'[d] = co[d]
    BY <1>1 DEF OthersStay
  <1>10. /\ q.headIndex >= KeyOf(x0 + 1) /\ Holders(co, x0) = {}
         /\ \A d \in Consumers : co[d].pc = "unlink" /\ c # d => x0 # No(co[d].index)
    BY <1>1, <1>2, IndexParts DEF Counts
  <1>11. /\ \A x : Holders(co', x) = Holders(co, x)
         /\ \A x : x # x0 => Unlinkers(co', x) = Unlinkers(co, x)
         /\ Unlinkers(co', x0) = {}
    <2>1. \A x : Holders(co', x) = Holders(co, x)
      BY <1>1, <1>9 DEF Holders, Holding, Reading
    <2>2. \A x : x # x0 => Unlinkers(co', x) = Unlinkers(co, x)
      BY <1>1, <1>2, <1>9 DEF Unlinkers
    <2>3. Unlinkers(co', x0) = {}
      BY <1>1, <1>9, <1>10 DEF Unlinkers
    <2> QED
      BY <2>1, <2>2, <2>3
  <1>12. Linked(q.tailIndex, q.headIndex, co') = Linked(q.tailIndex, q.headIndex, co) \ {x0}
    <2>1. x0 \notin Linked(q.tailIndex, q.headIndex, co')
      <3>1. PICK k \in Int, h \in Nat : k = KeyOf(x0 + 1) /\ h = q.headIndex
        <4>1. x0 + 1 \in Int
          BY <1>2
        <4> QED
          BY <1>0, <4>1, KeyType DEF TypeInv, QType
      <3>2. ~(h < k)
        BY <1>10, <3>1
      <3> QED
        BY <1>10, <1>11, <3>1, <3>2 DEF Linked
    <2>2. \A x \in Nat : x # x0 => (x \in Linked(q.tailIndex, q.headIndex, co')
                                      <=> x \in Linked(q.tailIndex, q.headIndex, co))
      BY <1>11 DEF Linked
    <2> QED
      BY <2>1, <2>2 DEF Linked
  <1>13. LastNo' = LastNo /\ TailNo' = TailNo /\ InsertedNo' = InsertedNo /\ First' = First
    BY <1>1 DEF LastNo, TailNo, InsertedNo, First
  <1>14. x0 \notin ChainNos(LastNo, pr.chain, pr.undone)
    <2>1. x0 <= LastNo /\ LastNo \in Int
      BY <1>0, <1>2, OwnedFacts, TailNoFacts
    <2> QED
      BY <1>0, <1>2, <2>1, OwnedFacts
  <1>15. Owned' = Owned \ {x0}
    BY <1>1, <1>12, <1>13, <1>14 DEF Owned
  <1>16. Present' = Present
    <2>1. \A d \in Consumers : /\ co'[d].pc \in Reading <=> co[d].pc \in Reading
                               /\ co[d].pc \in Reading => co'[d] = co[d]
      BY <1>1, <1>9 DEF Reading
    <2> QED
      BY <1>1, <2>1 DEF Present, At
  <1>17. Reach(off, J, co')
    <2>1. SUFFICES ASSUME NEW d \in Consumers, NEW x, x = No(co'[d].index)
                   PROVE  /\ co'[d].pc \in {"slot", "key"} =>
                                Ent(off, J, co'[d].header, x) = Entry(off, J, x)
                          /\ co'[d].pc = "key" =>
                                ~Unkeyed(J, J.headers[co'[d].header].index[co'[d].slot])
                          /\ co'[d].pc \in {"value", "set_empty", "unlink"} =>
                                co'[d].entry = Entry(off, J, x)
      BY Zenon DEF Reach
    <2>2. CASE d = c
      BY <1>1, <2>2
    <2>3. CASE d # c
      BY <1>7, <1>9, <2>1, <2>3, Zenon DEF Reach
    <2> QED
      BY <2>2, <2>3
  <1>18. Used(J, block, co', pr.chain, pr.undone)
    <2>1. Used(index, block, co, pr.chain, pr.undone)
      BY IndexParts
    <2>2. Released(co') = Released(co) \cup {b}
      BY <1>1, <1>3, <1>9 DEF Released
    <2>3. b \notin Released(co) /\ b \notin Undone(pr.chain, pr.undone)
      BY <1>8, <2>1 DEF Used
    <2>4. \A d \in Consumers : co[d].pc = "release" => co[d].header # b
      BY <2>3 DEF Released
    <2>5. \A d \in Consumers : co'[d].pc = "release" =>
             d = c \/ (co[d].pc = "release" /\ co'[d] = co[d])
      BY <1>9
    <2>6. /\ \A d, e \in Consumers : co'[d].pc = "release" /\ co'[e].pc = "release" /\ d # e
                => co'[d].header # co'[e].header
          /\ \A d \in Consumers : co'[d].pc = "release" => co'[d].header \in Blocks
      BY <1>1, <1>3, <2>1, <2>4, <2>5 DEF Used
    <2>7. Valued(J) \cup Released(co') = Valued(index) \cup Released(co)
      BY <1>8, <2>2
    <2>8. /\ Valued(J) \cap Released(co') = {}
          /\ Valued(J) \cap Undone(pr.chain, pr.undone) = {}
          /\ Undone(pr.chain, pr.undone) \cap Released(co') = {}
      BY <1>8, <2>1, <2>2, <2>3 DEF Used
    <2>9. \A x \in Blocks : block[x].state = "used" <=>
             x \in Valued(J) \cup Undone(pr.chain, pr.undone) \cup Released(co')
      BY <2>1, <2>7 DEF Used
    <2> QED
      BY <2>1, <2>6, <2>8, <2>9 DEF Used
  <1>19. Counts(off, J, block, Owned \ {x0}, q.headIndex, co')
    <2>1. Counts(off, index, block, Owned, q.headIndex, co)
      BY IndexParts
    <2>2. \A x \in Owned \ {x0} :
             block[Home(off, J, x)].elementsCompletelyDequeued + Cardinality(Holders(co', x))
                = Out(q.headIndex, x)
      BY <1>8, <1>11, <2>1 DEF Counts
    <2>3. \A d \in Consumers : co'[d].pc = "unlink" => co[d].pc = "unlink" /\ co'[d] = co[d]
      BY <1>1, <1>9
    <2> QED
      BY <1>11, <2>1, <2>2, <2>3 DEF Counts
  <1>20. Contents(off, J, block, Owned \ {x0}, Present)
    <2>1. Contents(off, index, block, Owned, Present)
      BY IndexParts
    <2>2. block[b].elements = NoElements
      BY <1>1, <1>2, <1>3, UnlinkedIsEmpty
    <2> QED
      BY <1>8, <2>1, <2>2 DEF Contents
  <1>21. Chained(off, J, Owned \ {x0}, LastNo, pr.chain, pr.undone, First)
    <2>1. Chained(off, index, Owned, LastNo, pr.chain, pr.undone, First)
      BY IndexParts
    <2>2. \A k \in 1..Len(pr.chain) : k > pr.undone => LastNo + k \in Owned \ {x0}
      <3>1. /\ LastNo \in Int /\ pr.undone \in Nat /\ Len(pr.chain) \in Nat
        BY <1>0, TailNoFacts
      <3>2. \A k \in 1..Len(pr.chain) : k > pr.undone =>
               LastNo + k \in ChainNos(LastNo, pr.chain, pr.undone)
        BY <3>1 DEF ChainNos
      <3> QED
        BY <1>14, <3>2 DEF Owned
    <2> QED
      BY <1>8, <2>1, <2>2 DEF Chained
  <1>22. Pool(block, q.poolIndex)
    BY IndexParts
  <1>23. off \in [1..Len(J.headers) -> Int]
    BY <1>7 DEF Offsets
  <1> QED
    BY <1>1, <1>6, <1>7, <1>8, <1>13, <1>15, <1>16, <1>17, <1>18, <1>19, <1>20, <1>21, <1>22, <1>23
    DEF BlockInv, IndexInv, DataInv

LEMMA ReleaseKeeps ==
  ASSUME CInv, NEW c \in Consumers, AddBlockToFreeList(c), NEW off, BlockInv(off)
  PROVE  BlockInv(off)'
  <1>0. TypeInv /\ ProducerInv
    BY DEF CInv
  <1>1. /\ OthersStay(c) /\ co[c].pc = "release" /\ co'[c].pc = "idle"
        /\ UNCHANGED <<q, index, pr>>
    BY <1>0, ReleaseFields
  <1>2. Used(index, block, co, pr.chain, pr.undone) /\ Pool(block, q.poolIndex)
    BY IndexParts
  <1>3. PICK b \in Blocks : b = co[c].header /\ b \in Released(co)
    BY <1>1, <1>2 DEF Used, Released
  <1>4. /\ \A x \in Blocks : x # b => block'[x] = block[x]
        /\ \A x \in Blocks :
              /\ block'[x].elements = block[x].elements
              /\ block'[x].elementsCompletelyDequeued = block[x].elementsCompletelyDequeued
        /\ block'[b].state \in {"free", "none"}
    BY <1>0, <1>3, ReleaseBlocks
  <1>5. \A d \in Consumers : d # c => co'[d] = co[d]
    BY <1>1 DEF OthersStay
  <1>6. \A x : Holders(co', x) = Holders(co, x) /\ Unlinkers(co', x) = Unlinkers(co, x)
    BY <1>1, <1>5 DEF Holders, Unlinkers, Holding, Reading
  <1>7. Linked(q.tailIndex, q.headIndex, co') = Linked(q.tailIndex, q.headIndex, co)
    BY <1>6 DEF Linked
  <1>8. LastNo' = LastNo /\ TailNo' = TailNo /\ InsertedNo' = InsertedNo /\ First' = First
    BY <1>1 DEF LastNo, TailNo, InsertedNo, First
  <1>9. Owned' = Owned
    BY <1>1, <1>7, <1>8 DEF Owned
  <1>10. Present' = Present
    <2>1. \A d \in Consumers : /\ co'[d].pc \in Reading <=> co[d].pc \in Reading
                               /\ co[d].pc \in Reading => co'[d] = co[d]
      BY <1>1, <1>5 DEF Reading
    <2> QED
      BY <1>1, <2>1 DEF Present, At
  <1>11. Reach(off, index, co')
    <2>1. Reach(off, index, co)
      BY IndexParts
    <2>2. SUFFICES ASSUME NEW d \in Consumers, NEW x, x = No(co'[d].index)
                   PROVE  /\ co'[d].pc \in {"slot", "key"} =>
                                Ent(off, index, co'[d].header, x) = Entry(off, index, x)
                          /\ co'[d].pc = "key" =>
                                ~Unkeyed(index, index.headers[co'[d].header].index[co'[d].slot])
                          /\ co'[d].pc \in {"value", "set_empty", "unlink"} =>
                                co'[d].entry = Entry(off, index, x)
      BY Zenon DEF Reach
    <2>3. CASE d = c
      BY <1>1, <2>3
    <2>4. CASE d # c
      BY <1>5, <2>1, <2>2, <2>4, Zenon DEF Reach
    <2> QED
      BY <2>3, <2>4
  <1>12. Used(index, block', co', pr.chain, pr.undone)
    <2>1. \A d \in Consumers : co'[d].pc = "release" =>
             d # c /\ co[d].pc = "release" /\ co'[d] = co[d] /\ co[d].header # b
      BY <1>1, <1>2, <1>3, <1>5 DEF Used
    <2>2. Released(co') = Released(co) \ {b}
      <3>1. \A d \in Consumers : d # c /\ co[d].pc = "release" => co'[d].pc = "release"
        BY <1>5
      <3> QED
        BY <1>3, <1>5, <2>1, <3>1 DEF Released
    <2>3. b \notin Valued(index) /\ b \notin Undone(pr.chain, pr.undone)
      BY <1>2, <1>3 DEF Used
    <2>4. \A x \in Blocks : block'[x].state = "used" <=>
             x \in Valued(index) \cup Undone(pr.chain, pr.undone) \cup Released(co')
      BY <1>2, <1>4, <2>2, <2>3 DEF Used
    <2>5. /\ Valued(index) \cap Released(co') = {}
          /\ Undone(pr.chain, pr.undone) \cap Released(co') = {}
      BY <1>2, <2>2 DEF Used
    <2> QED
      BY <1>2, <2>1, <2>4, <2>5 DEF Used
  <1>13. Pool(block', q.poolIndex)
    <2>1. block[b].state = "used"
      BY <1>2, <1>3 DEF Used
    <2> QED
      BY <1>2, <1>4, <2>1 DEF Pool
  <1>14. \A x \in Owned : Home(off, index, x) \in Blocks
    BY HomeFacts
  <1>15. Counts(off, index, block', Owned, q.headIndex, co')
    <2>1. Counts(off, index, block, Owned, q.headIndex, co)
      BY IndexParts
    <2>2. \A d \in Consumers : co'[d].pc = "unlink" <=> co[d].pc = "unlink"
      BY <1>1, <1>5
    <2>3. \A d \in Consumers : co'[d].pc = "unlink" => co'[d] = co[d]
      BY <1>1, <1>5
    <2> QED
      BY <1>4, <1>6, <1>14, <2>1, <2>2, <2>3 DEF Counts
  <1>16. Contents(off, index, block', Owned, Present)
    <2>1. Contents(off, index, block, Owned, Present)
      BY IndexParts
    <2> QED
      BY <1>4, <1>14, <2>1 DEF Contents
  <1> QED
    BY <1>1, <1>8, <1>9, <1>10, <1>11, <1>12, <1>13, <1>15, <1>16, IndexParts
    DEF BlockInv, IndexInv, DataInv

\* Steps of the producer that leave blocks, index and what is allocated alone.
LEMMA ProducerFrame ==
  ASSUME CInv, NEW off, BlockInv(off), UNCHANGED <<index, block, co>>,
         q'.tailIndex = q.tailIndex, q'.headIndex = q.headIndex,
         q'.poolIndex = q.poolIndex,
         pr'.chain = pr.chain, pr'.undone = pr.undone,
         TailNo' = TailNo, InsertedNo' = InsertedNo, First' = First, Present' = Present
  PROVE  BlockInv(off)'
  <1>1. LastNo' = LastNo
    BY DEF LastNo
  <1>2. Owned' = Owned
    BY <1>1 DEF Owned
  <1> QED
    BY <1>1, <1>2 DEF BlockInv, IndexInv, DataInv

LEMMA NothingFilled ==
  ASSUME UNCHANGED co, q'.tailIndex = q.tailIndex, q'.headIndex = q.headIndex,
         pr.pc # "publish", pr'.pc # "publish"
  PROVE  Present' = Present
  <1>1. Present = {i \in Nat : \/ q.headIndex <= i /\ i < q.tailIndex
                              \/ \E c \in At(Reading) : co[c].index = i}
    BY DEF Present
  <1>2. Present' = {i \in Nat : \/ q'.headIndex <= i /\ i < q'.tailIndex
                               \/ \E c \in At(Reading)' : co'[c].index = i}
    BY DEF Present
  <1>3. At(Reading)' = At(Reading)
    BY DEF At
  <1> QED
    BY <1>1, <1>2, <1>3, Zenon

LEMMA HeadCovered == ASSUME CInv PROVE q.headIndex <= q.tailIndex
  <1>1. TypeInv /\ ProducerInv /\ Counters
    BY DEF CInv
  <1>2. PICK lost \in SUBSET Drawn : Tickets(lost)
    BY <1>1 DEF Counters
  <1> QED
    BY <1>1, <1>2, CounterFacts DEF Counters

LEMMA FailuresKeep ==
  ASSUME CInv, InsertFails \/ RequisitionFails, NEW off, BlockInv(off)
  PROVE  BlockInv(off)'
  <1>0. TypeInv /\ ProducerInv
    BY DEF CInv
  <1>1. /\ UNCHANGED <<q, index, block, co>> /\ pr.pc \in {"index", "requisition"}
        /\ pr'.pc = "rollback" /\ pr'.chain = pr.chain /\ pr'.undone = pr.undone
        /\ pr'.inserted = pr.inserted /\ pr'.startBlock = pr.startBlock
    BY <1>0, InsertFailsFields, RequisitionFailsFields DEF InsertFails, RequisitionFails
  <1>2. TailNo' = TailNo /\ InsertedNo' = InsertedNo /\ First' = First
    BY <1>1 DEF TailNo, InsertedNo, First, LastNo
  <1>3. Present' = Present
    BY <1>1, NothingFilled
  <1> QED
    BY <1>1, <1>2, <1>3, ProducerFrame

LEMMA EnqueueBulkKeeps ==
  ASSUME CInv, NEW n \in 1..MaxBatch, EnqueueBulk(n), NEW off, BlockInv(off)
  PROVE  BlockInv(off)'
  <1>0. TypeInv /\ ProducerInv
    BY DEF CInv
  <1>1. /\ UNCHANGED <<q, index, block, co>> /\ pr.pc = "idle"
        /\ pr'.pc \in {"fill", "index"} /\ pr'.chain = <<>> /\ pr'.undone = 0
        /\ pr'.inserted = FALSE /\ pr'.startBlock = pr.tailBlock
    BY <1>0, EnqueueBulkFields DEF EnqueueBulk
  <1>2. pr.chain = <<>> /\ pr.undone = 0 /\ pr.inserted = FALSE
    <2>1. PICK p \in ProducerRec : p = pr /\ p.undone \in Nat /\ p.inserted \in BOOLEAN
      BY <1>0 DEF TypeInv, PrType, ProducerRec
    <2>2. p.chain = <<>> /\ ~p.inserted /\ p.undone <= Len(p.chain)
      BY <1>0, <1>1, <2>1 DEF ProducerInv
    <2> QED
      BY <2>1, <2>2
  <1>3. TailNo' = TailNo /\ InsertedNo' = InsertedNo /\ First' = First
    BY <1>1, <1>2 DEF TailNo, InsertedNo, First, LastNo
  <1>4. Present' = Present
    BY <1>1, NothingFilled
  <1> QED
    BY <1>1, <1>2, <1>3, <1>4, ProducerFrame

\* The elements are in their blocks before they are published.
LEMMA PublishKeeps ==
  ASSUME CInv, Publish, NEW off, BlockInv(off)
  PROVE  BlockInv(off)'
  <1>0. TypeInv /\ ProducerInv
    BY DEF CInv
  <1>1. /\ UNCHANGED <<index, block, co>> /\ pr.pc = "publish"
        /\ pr'.pc = "idle" /\ pr'.chain = <<>> /\ pr'.undone = pr.undone
        /\ pr'.inserted = pr.inserted /\ pr'.tailBlock = pr.tailBlock
        /\ q'.headIndex = q.headIndex /\ q'.poolIndex = q.poolIndex
        /\ q'.tailIndex = q.tailIndex + pr.count
    <2>1. q' = [q EXCEPT !.tailIndex = NewTail,
                         !.permits = IF q.byPermit THEN @ + pr.count ELSE 0]
      BY DEF Publish
    <2>2. q'.headIndex = q.headIndex /\ q'.poolIndex = q.poolIndex
      BY <1>0, <2>1 DEF TypeInv, QType
    <2>3. q'.tailIndex = q.tailIndex + pr.count
      <3>1. Publish => Producer
        BY DEF Producer
      <3>2. pr.count \in Nat /\ q.tailIndex \in Nat /\ 2 * (q.tailIndex + pr.count) < IndexMod
        BY <1>0, ProducerFacts
      <3>3. (q.tailIndex + pr.count) % IndexMod = q.tailIndex + pr.count
        <4>1. PICK s \in Nat : s = q.tailIndex + pr.count
          BY <3>2
        <4>2. IndexMod \in Nat
          BY SizesAssumption
        <4>3. s < IndexMod /\ s \in Int /\ 0 <= s
          BY <3>2, <4>1, <4>2
        <4>4. s % IndexMod = s
          BY <4>3, ModSmall
        <4> QED
          BY <4>1, <4>4
      <3>4. q'.tailIndex = NewTail
        BY <1>0, <2>1 DEF TypeInv, QType
      <3> QED
        BY <3>3, <3>4 DEF NewTail, start
    <2> QED
      BY <1>0, <2>2, <2>3, PublishFields DEF Publish
  <1>2. PICK t \in Nat, n \in Nat, h \in Nat, L \in Int, l \in Nat :
           /\ t = q.tailIndex /\ n = pr.count /\ h = q.headIndex /\ L = LastNo
           /\ l = Len(pr.chain) /\ n > 0
           /\ pr.undone = 0 /\ ~pr.inserted /\ L + l = No(t + n - 1) /\ L = No(t - 1)
    <2>1. pr.undone = 0
      <3>1. pr.undone \in Nat
        BY <1>0, TailNoFacts
      <3> QED
        BY <1>0, <1>1, <3>1 DEF ProducerInv
    <2>2. ~pr.inserted /\ LastNo + Len(pr.chain) = No(q.tailIndex + pr.count - 1) /\ pr.count > 0
      BY <1>0, <1>1 DEF ProducerInv
    <2>3. q.headIndex \in Nat
      BY <1>0 DEF TypeInv, QType
    <2> QED
      BY <1>0, <2>1, <2>2, <2>3, ProducerFacts DEF LastNo
  <1>3. h <= t /\ L >= -1 /\ L \in Int /\ LastNo \in Int
    BY <1>0, <1>2, HeadCovered, ProducerFacts
  <1>4. LastNo' = L + l /\ TailNo' = TailNo /\ InsertedNo' = InsertedNo /\ InsertedNo = L + l
    <2>1. LastNo' = L + l
      <3>1. LastNo' = No(t + n - 1)
        BY <1>1, <1>2 DEF LastNo
      <3> QED
        BY <1>2, <3>1
    <2>2. Len(pr'.chain) = 0
      BY <1>1
    <2>3. TailNo = L + l /\ InsertedNo = L + l
      BY <1>1, <1>2 DEF TailNo, InsertedNo
    <2>4. TailNo' = LastNo' /\ InsertedNo' = LastNo'
      BY <1>1, <1>2, <2>1, <2>2 DEF TailNo, InsertedNo
    <2> QED
      BY <2>1, <2>3, <2>4
  <1>5. Owned' = Owned
    <2>1. Owned = Linked(t, h, co) \cup (L + 1)..(L + l)
      BY <1>2 DEF Owned, ChainNos
    <2>2. Owned' = Linked(t + n, h, co)
      <3>1. ChainNos(LastNo', pr'.chain, pr'.undone) = {}
        BY <1>1, <1>2, <1>4 DEF ChainNos
      <3> QED
        BY <1>1, <1>2, <3>1 DEF Owned
    <2>3. ASSUME NEW x \in Nat
          PROVE  /\ x <= L <=> KeyOf(x) < t
                 /\ x <= L + l <=> KeyOf(x) < t + n
                 /\ KeyOf(x) < KeyOf(x + 1)
      <3>1. x \in Int
        OBVIOUS
      <3>2. PICK k \in Int, B \in Nat : k = KeyOf(x) /\ KeyOf(x + 1) = k + B /\ B > 1 /\ B = BLOCK_SIZE
        BY <3>1, KeyType
      <3>3. x <= L <=> k < t
        <4>1. t - 1 \in Int
          OBVIOUS
        <4>2. KeyOf(L) <= t - 1 /\ t - 1 < KeyOf(L) + B /\ KeyOf(L) \in Int
          BY <1>2, <1>3, <3>2, <4>1, NoFacts, KeyType
        <4>3. x <= L => k <= KeyOf(L)
          BY <1>3, <3>1, <3>2, KeyMono
        <4>4. L < x => KeyOf(L) + B <= k
          BY <1>3, <3>1, <3>2, KeyMono
        <4> QED
          BY <1>3, <3>1, <3>2, <4>2, <4>3, <4>4
      <3>4. x <= L + l <=> k < t + n
        <4>0. PICK m \in Int : m = L + l
          BY <1>3
        <4>1. t + n - 1 \in Int
          OBVIOUS
        <4>2. m = No(t + n - 1)
          BY <1>2, <4>0
        <4>3. KeyOf(m) <= t + n - 1 /\ t + n - 1 < KeyOf(m) + B /\ KeyOf(m) \in Int
          BY <3>2, <4>1, <4>2, NoFacts, KeyType
        <4>4. x <= m => k <= KeyOf(m)
          BY <4>0, <3>1, <3>2, KeyMono
        <4>5. m < x => KeyOf(m) + B <= k
          BY <4>0, <3>1, <3>2, KeyMono
        <4>6. x <= m <=> k < t + n
          BY <3>1, <3>2, <4>3, <4>4, <4>5
        <4> QED
          BY <4>0, <4>6
      <3> QED
        BY <3>2, <3>3, <3>4
    <2>4. ASSUME NEW x \in Nat
          PROVE  x \in Linked(t + n, h, co) <=> x \in Linked(t, h, co) \cup (L + 1)..(L + l)
      <3>0. PICK k \in Int, j \in Int : k = KeyOf(x) /\ j = KeyOf(x + 1) /\ k < j
        <4>1. x \in Int /\ x + 1 \in Int
          OBVIOUS
        <4> QED
          BY <2>3, <4>1, KeyType
      <3>1. (x <= L <=> k < t) /\ (x <= L + l <=> k < t + n)
        BY <2>3, <3>0
      <3>2. x \in Linked(t, h, co) <=> k < t /\ (h < j \/ Holders(co, x) # {} \/ Unlinkers(co, x) # {})
        BY <3>0 DEF Linked
      <3>3. x \in Linked(t + n, h, co) <=>
               k < t + n /\ (h < j \/ Holders(co, x) # {} \/ Unlinkers(co, x) # {})
        BY <3>0 DEF Linked
      <3>4. x \in (L + 1)..(L + l) <=> ~(k < t) /\ k < t + n
        BY <1>3, <3>1
      <3>5. ~(k < t) => h < j
        BY <1>3, <3>0
      <3>6. k < t => k < t + n
        OBVIOUS
      <3> QED
        BY <3>2, <3>3, <3>4, <3>5, <3>6
    <2>5. (L + 1)..(L + l) \subseteq Nat
      BY <1>3
    <2>6. Linked(t, h, co) \subseteq Nat /\ Linked(t + n, h, co) \subseteq Nat
      BY DEF Linked
    <2> QED
      BY <2>1, <2>2, <2>4, <2>5, <2>6
  <1>6. Present' = Present
    <2>1. Present = {i \in Nat : (h <= i /\ i < t)
             \/ (\E c \in At(Reading) : co[c].index = i) \/ (t <= i /\ i < t + n)}
      BY <1>1, <1>2 DEF Present
    <2>2. Present' = {i \in Nat : (h <= i /\ i < t + n)
             \/ (\E c \in At(Reading)' : co'[c].index = i)}
      BY <1>1, <1>2 DEF Present
    <2>3. At(Reading)' = At(Reading)
      BY <1>1 DEF At
    <2>4. \A i \in Nat : (h <= i /\ i < t) \/ (t <= i /\ i < t + n) <=> h <= i /\ i < t + n
      BY <1>3
    <2> QED
      BY <1>1, <2>1, <2>2, <2>3, <2>4
  <1>7. Inserted(off, index, LastNo', InsertedNo')
    <2>1. ((LastNo') + 1)..(InsertedNo') = {}
      BY <1>3, <1>4
    <2> QED
      BY <2>1 DEF Inserted
  <1>8. Chained(off, index, Owned, LastNo', pr'.chain, pr'.undone, First')
    <2>1. Chained(off, index, Owned, LastNo, pr.chain, pr.undone, First)
      BY IndexParts
    <2>2. First = pr.startBlock /\ First' = pr.tailBlock
      BY <1>1 DEF First
    <2>3. ASSUME LastNo' \in Owned PROVE Home(off, index, LastNo') = pr.tailBlock
      <3>1. CASE pr.chain = <<>>
        <4>1. pr.tailBlock = pr.startBlock
          BY <1>0, <1>1, <3>1 DEF ProducerInv
        <4>2. LastNo' = LastNo
          BY <1>2, <1>3, <1>4, <3>1
        <4> QED
          BY <2>1, <2>2, <2>3, <4>1, <4>2 DEF Chained
      <3>2. CASE pr.chain # <<>>
        <4>1. pr.tailBlock = pr.chain[l]
          BY <1>0, <1>1, <1>2, <3>2 DEF ProducerInv
        <4>2. l \in 1..Len(pr.chain) /\ l > pr.undone
          <5>1. pr.chain \in Seq(Blocks)
            BY <1>0, TailNoFacts
          <5>2. Len(pr.chain) # 0
            BY <3>2, <5>1
          <5> QED
            BY <1>2, <5>2
        <4>3. Home(off, index, LastNo + l) = pr.chain[l]
          BY <2>1, <4>2 DEF Chained
        <4> QED
          BY <1>2, <1>4, <4>1, <4>3
      <3> QED
        BY <3>1, <3>2
    <2> QED
      BY <1>1, <2>2, <2>3 DEF Chained
  <1>9. Used(index, block, co, pr'.chain, pr'.undone)
    <2>1. Used(index, block, co, pr.chain, pr.undone)
      BY IndexParts
    <2>2. Undone(pr'.chain, pr'.undone) = {} /\ Undone(pr.chain, pr.undone) = {}
      BY <1>1, <1>2 DEF Undone
    <2> QED
      BY <1>1, <2>1, <2>2 DEF Used
  <1> QED
    BY <1>1, <1>4, <1>5, <1>6, <1>7, <1>8, <1>9, IndexParts
    DEF BlockInv, IndexInv, DataInv

LEMMA EnqueueFailsKeeps ==
  ASSUME CInv, EnqueueFails, NEW off, BlockInv(off)
  PROVE  BlockInv(off)'
  <1>0. TypeInv /\ ProducerInv
    BY DEF CInv
  <1>1. /\ UNCHANGED <<q, index, co>> /\ pr.pc = "rollback" /\ ~pr.inserted
        /\ pr.undone = Len(pr.chain)
        /\ pr'.pc = "idle" /\ pr'.chain = <<>> /\ pr'.undone = 0
        /\ pr'.inserted = pr.inserted /\ pr'.tailBlock = pr.startBlock
    BY <1>0, EnqueueFailsFields DEF EnqueueFails
  <1>2. \A b \in Blocks :
               /\ block'[b].elementsCompletelyDequeued = block[b].elementsCompletelyDequeued
               /\ block'[b].elements = block[b].elements
               /\ (\E k \in DOMAIN pr.chain : pr.chain[k] = b) =>
                     block'[b].state \in {"free", "none"}
               /\ (\A k \in DOMAIN pr.chain : pr.chain[k] # b) =>
                     block'[b] = block[b]
    BY <1>0, EnqueueFailsBlocks
  <1>3. PICK L \in Int, l \in Nat : L = LastNo /\ l = Len(pr.chain) /\ l = pr.undone
    BY <1>0, <1>1, TailNoFacts
  <1>4. /\ LastNo' = LastNo /\ TailNo' = TailNo /\ First' = First
        /\ InsertedNo' = LastNo /\ Owned' = Owned
    <2>1. LastNo' = LastNo
      BY <1>1 DEF LastNo
    <2>2. Len(pr'.chain) = 0
      BY <1>1
    <2>3. TailNo = L /\ TailNo' = L /\ InsertedNo' = L
      BY <1>1, <1>3, <2>1, <2>2 DEF TailNo, InsertedNo
    <2>4. First' = First
      BY <1>1 DEF First
    <2>5. /\ ChainNos(LastNo, pr.chain, pr.undone) = {}
          /\ ChainNos(LastNo', pr'.chain, pr'.undone) = {}
      BY <1>1, <1>3, <2>1, <2>2 DEF ChainNos
    <2> QED
      BY <1>1, <1>3, <2>1, <2>3, <2>4, <2>5 DEF Owned
  <1>5. Present' = Present
    BY <1>1, NothingFilled
  <1>6. Inserted(off, index, LastNo', InsertedNo')
    <2>1. (LastNo + 1)..LastNo = {}
      BY <1>3
    <2> QED
      BY <1>4, <2>1 DEF Inserted
  <1>7. Chained(off, index, Owned, LastNo', pr'.chain, pr'.undone, First')
    BY <1>1, <1>4, IndexParts DEF Chained
  <1>8. \A b : b \in Undone(pr.chain, pr.undone) <=> \E k \in DOMAIN pr.chain : pr.chain[k] = b
    <2>1. DOMAIN pr.chain = 1..l
      <3>1. PICK s \in Seq(Blocks) : s = pr.chain
        BY <1>0, TailNoFacts
      <3>2. DOMAIN s = 1..Len(s)
        OBVIOUS
      <3> QED
        BY <1>3, <3>1, <3>2, Zenon
    <2> QED
      BY <1>3, <2>1 DEF Undone
  <1>9. Used(index, block', co, pr'.chain, pr'.undone) /\ Pool(block', q.poolIndex)
    <2>1. Used(index, block, co, pr.chain, pr.undone) /\ Pool(block, q.poolIndex)
      BY IndexParts
    <2>2. Undone(pr'.chain, pr'.undone) = {}
      BY <1>1 DEF Undone
    <2>3. ASSUME NEW b \in Blocks
          PROVE  /\ block'[b].state = "used" <=> b \in Valued(index) \cup Released(co)
                 /\ block'[b].state = "pool" <=> block[b].state = "pool"
      <3>1. CASE b \in Undone(pr.chain, pr.undone)
        <4>1. block'[b].state \in {"free", "none"} /\ block[b].state = "used"
          BY <1>2, <1>8, <2>1, <3>1 DEF Used
        <4> QED
          BY <2>1, <3>1, <4>1 DEF Used
      <3>2. CASE b \notin Undone(pr.chain, pr.undone)
        <4>1. block'[b] = block[b]
          BY <1>2, <1>8, <3>2
        <4> QED
          BY <2>1, <3>2, <4>1 DEF Used
      <3> QED
        BY <3>1, <3>2
    <2>4. Used(index, block', co, pr'.chain, pr'.undone)
      BY <1>1, <2>1, <2>2, <2>3 DEF Used
    <2> QED
      BY <2>1, <2>3, <2>4 DEF Pool
  <1>10. \A x \in Owned : Home(off, index, x) \in Blocks
    BY HomeFacts
  <1>11. Counts(off, index, block', Owned, q.headIndex, co)
    BY <1>2, <1>10, IndexParts DEF Counts
  <1>12. Contents(off, index, block', Owned, Present)
    BY <1>2, <1>10, IndexParts DEF Contents
  <1> QED
    BY <1>1, <1>4, <1>5, <1>6, <1>7, <1>9, <1>11, <1>12, IndexParts
    DEF BlockInv, IndexInv, DataInv

\* The blocks into which elements are constructed.
LEMMA NewElementsFacts ==
  ASSUME CInv, pr.pc = "fill", NEW off, BlockInv(off)
  PROVE  /\ NewElements = {i \in Nat : q.tailIndex <= i /\ i < q.tailIndex + pr.count}
         /\ \A i \in NewElements : No(i) \in Owned /\ BlockOf(i) = Home(off, index, No(i))
  <1>0. TypeInv /\ ProducerInv
    BY DEF CInv
  <1>1. PICK t \in Nat, n \in Nat, h \in Nat, L \in Int, l \in Nat :
           /\ t = q.tailIndex /\ n = pr.count /\ h = q.headIndex /\ L = LastNo
           /\ l = Len(pr.chain) /\ n > 0 /\ 2 * (t + n) < IndexMod
           /\ pr.undone = 0 /\ L + l = No(t + n - 1) /\ L = No(t - 1) /\ L >= -1
           /\ Base(start - 1) = KeyOf(L) % IndexMod
    <2>1. pr.undone = 0
      <3>1. pr.undone \in Nat
        BY <1>0, TailNoFacts
      <3> QED
        BY <1>0, <3>1 DEF ProducerInv
    <2>2. LastNo + Len(pr.chain) = No(q.tailIndex + pr.count - 1) /\ pr.count > 0
      BY <1>0 DEF ProducerInv
    <2>3. q.headIndex \in Nat
      BY <1>0 DEF TypeInv, QType
    <2> QED
      BY <1>0, <2>1, <2>2, <2>3, ProducerFacts DEF LastNo
  <1>2. h <= t /\ IndexMod \in Nat
    BY <1>1, HeadCovered, SizesAssumption
  <1>3. NewElements = {i \in Nat : t <= i /\ i < t + n}
    <2>1. ASSUME NEW k \in 0..(n - 1) PROVE (t + k) % IndexMod = t + k
      <3>1. PICK j \in Int : j = t + k
        OBVIOUS
      <3>2. 0 <= j /\ j < IndexMod
        <4>1. PICK M \in Nat : M = IndexMod /\ 2 * (t + n) < M
          BY <1>1, <1>2
        <4>2. 0 <= j /\ j < M
          BY <3>1, <4>1
        <4> QED
          BY <4>1, <4>2
      <3>3. j % IndexMod = j
        BY <3>2, ModSmall
      <3> QED
        BY <3>1, <3>3
    <2>2. NewElements = {(t + k) % IndexMod : k \in 0..(n - 1)}
      BY <1>1 DEF NewElements, start
    <2>3. NewElements = {t + k : k \in 0..(n - 1)}
      BY <2>1, <2>2
    <2>4. \A i \in Nat : t <= i /\ i < t + n => i - t \in 0..(n - 1) /\ t + (i - t) = i
      OBVIOUS
    <2>5. \A k \in 0..(n - 1) : t + k \in Nat /\ t <= t + k /\ t + k < t + n
      OBVIOUS
    <2> QED
      BY <2>3, <2>4, <2>5
  <1>4. ASSUME NEW i \in Nat, t <= i, i < t + n
        PROVE  No(i) \in Owned /\ BlockOf(i) = Home(off, index, No(i))
    <2>1. PICK x \in Int, k \in Int, B \in Nat :
             /\ x = No(i) /\ k = KeyOf(x) /\ B = BLOCK_SIZE /\ KeyOf(x + 1) = k + B
             /\ k <= i /\ i < k + B /\ x >= 0
      <3>1. i \in Int
        OBVIOUS
      <3>2. No(i) \in Int /\ KeyOf(No(i)) <= i /\ i < KeyOf(No(i)) + BLOCK_SIZE /\ No(i) >= 0
        BY <3>1, NoFacts
      <3> QED
        BY <3>2, KeyType
    <2>2. PICK g \in Int : g = KeyOf(L) /\ g <= t - 1 /\ t - 1 < g + B
      <3>1. t - 1 \in Int
        OBVIOUS
      <3>2. KeyOf(No(t - 1)) <= t - 1 /\ t - 1 < KeyOf(No(t - 1)) + BLOCK_SIZE
        BY <3>1, NoFacts
      <3> QED
        BY <1>1, <2>1, <3>2, KeyType
    <2>3. L <= x /\ x <= L + l
      <3>1. t - 1 \in Int /\ t + n - 1 \in Int /\ i \in Int /\ t - 1 <= i /\ i <= t + n - 1
        BY <1>4
      <3>2. No(t - 1) <= No(i) /\ No(i) <= No(t + n - 1)
        BY <3>1, NoMono
      <3> QED
        BY <1>1, <2>1, <3>2
    <2>4. BlockOffset(Base(i), Base(start - 1)) = x - L
      <3>1. 2 * (k - g) < IndexMod /\ 2 * (g - k) <= IndexMod
        <4>1. g <= k
          BY <1>1, <2>1, <2>2, <2>3, KeyMono
        <4>2. BLOCK_SIZE > 1
          BY SizesAssumption
        <4>3. 2 * (k - g) < IndexMod
          <5>1. PICK d \in Disciplines : d = q.byPermit
            BY <1>0 DEF TypeInv, QType
          <5>2. PICK m \in Nat : m = MaxIndex[d] /\ 2 * (m + BLOCK_SIZE) <= IndexMod
            BY <5>1, BoundsAssumption
          <5>3. t + n <= m
            BY <1>0, <1>1, <5>1, <5>2 DEF ProducerInv
          <5>4. k - g < n + B
            BY <1>4, <2>1, <2>2
          <5>5. t = 0 \/ n < m
            BY <5>3
          <5>6. CASE t > 0
            BY <1>2, <1>4, <2>1, <2>2, <4>2, <5>2, <5>3, <5>4, <5>6
          <5>7. CASE t = 0
            BY <1>2, <1>4, <2>1, <2>2, <4>2, <5>2, <5>3, <5>4, <5>7
          <5> QED
            BY <5>6, <5>7
        <4> QED
          BY <1>2, <4>1, <4>3
      <3>2. (Base(i) - Base(start - 1)) % IndexMod = (KeyOf(x) - KeyOf(L)) % IndexMod
        <4>1. Base(i) = KeyOf(x) % IndexMod
          BY <2>1, BaseNo
        <4>2. ((k % IndexMod) + (-(g % IndexMod))) % IndexMod = (k + (-(g % IndexMod))) % IndexMod
          <5>1. PICK u \in Int : u = -(g % IndexMod)
            BY ModType
          <5> QED
            BY <5>1, ModAdd
        <4>3. PICK j \in Int, r \in Nat : g = IndexMod * j + r /\ r = g % IndexMod
          <5>1. IndexMod > 0
            BY SizesAssumption
          <5> QED
            <6>1. PICK M \in Nat : M = IndexMod /\ M > 0
              BY <1>2, <5>1
            <6>2. g = M * (g \div M) + (g % M) /\ g % M \in 0..(M - 1) /\ g \div M \in Int
              BY <6>1, DivMod
            <6>3. g % M \in Nat
              BY <6>1, <6>2
            <6> QED
              BY <6>1, <6>2, <6>3, Zenon
        <4>4. (k + (-(g % IndexMod))) % IndexMod = (k - g) % IndexMod
          <5>1. PICK a \in Int : a = k - g
            OBVIOUS
          <5>2. (a + IndexMod * j) % IndexMod = a % IndexMod
            <6>1. IndexMod > 0
              BY SizesAssumption
            <6> QED
              BY <1>2, <6>1, ModPeriod
          <5>3. a + IndexMod * j = k - r
            <6>1. PICK z \in Int : z = IndexMod * j
              BY <1>2
            <6>2. g = z + r
              BY <4>3, <6>1, Zenon
            <6>3. a + z = k - r
              BY <5>1, <6>2
            <6> QED
              BY <6>1, <6>3, Zenon
          <5>4. k + (-(g % IndexMod)) = k - r
            BY <4>3
          <5> QED
            BY <5>1, <5>2, <5>3, <5>4
        <4>5. (k % IndexMod) - (g % IndexMod) = (k % IndexMod) + (-(g % IndexMod))
          BY ModType
        <4> QED
          BY <1>1, <2>1, <2>2, <4>1, <4>2, <4>4, <4>5
      <3>3. 2 * (KeyOf(x) - KeyOf(L)) < IndexMod /\ 2 * (KeyOf(L) - KeyOf(x)) <= IndexMod
        BY <2>1, <2>2, <3>1
      <3> QED
        BY <3>2, <3>3, OffsetOfBlocks
    <2>5. Chained(off, index, Owned, LastNo, pr.chain, pr.undone, First)
      BY IndexParts
    <2>6. CASE x = L
      <3>1. L \in Owned
        <4>1. KeyOf(L) < t /\ h < KeyOf(L + 1) /\ L \in Nat
          BY <1>2, <1>4, <2>1, <2>2, <2>6
        <4> QED
          BY <1>1, <4>1 DEF Owned, Linked
      <3>2. BlockOf(i) = pr.startBlock
        <4>1. BlockOffset(Base(i), Base(start - 1)) = 0
          BY <2>4, <2>6
        <4> QED
          BY <4>1 DEF BlockOf
      <3>3. First = pr.startBlock
        BY DEF First
      <3> QED
        BY <1>1, <2>1, <2>5, <2>6, <3>1, <3>2, <3>3 DEF Chained
    <2>7. CASE x # L
      <3>1. PICK m \in 1..l : m = x - L /\ x = L + m
        BY <2>3, <2>7
      <3>2. x \in Owned
        <4>1. x \in ChainNos(LastNo, pr.chain, pr.undone)
          BY <1>1, <2>3, <2>7 DEF ChainNos
        <4> QED
          BY <4>1 DEF Owned
      <3>3. BlockOf(i) = pr.chain[m]
        BY <2>4, <3>1 DEF BlockOf
      <3>4. Home(off, index, LastNo + m) = pr.chain[m]
        <4>1. m \in 1..Len(pr.chain) /\ m > pr.undone
          BY <1>1, <3>1
        <4> QED
          BY <2>5, <4>1 DEF Chained
      <3> QED
        BY <1>1, <2>1, <3>1, <3>2, <3>3, <3>4
    <2> QED
      BY <2>6, <2>7
  <1> QED
    BY <1>1, <1>3, <1>4

LEMMA FillKeeps ==
  ASSUME CInv, Fill, NEW off, BlockInv(off)
  PROVE  BlockInv(off)'
  <1>0. TypeInv /\ ProducerInv
    BY DEF CInv
  <1>1. /\ UNCHANGED <<q, index, co>> /\ pr.pc = "fill" /\ pr'.pc = "publish"
        /\ pr'.chain = pr.chain /\ pr'.undone = pr.undone /\ pr'.inserted = pr.inserted
        /\ pr'.startBlock = pr.startBlock /\ pr'.count = pr.count
    BY <1>0, FillFields DEF Fill
  <1>2. \A b \in Blocks :
           /\ block'[b].state = block[b].state
           /\ block'[b].elementsCompletelyDequeued = block[b].elementsCompletelyDequeued
           /\ \A s \in 0..(BLOCK_SIZE - 1) :
                 \/ /\ block'[b].elements[s] \in NewElements
                    /\ BlockOf(block'[b].elements[s]) = b
                    /\ Slot(block'[b].elements[s]) = s
                 \/ /\ block'[b].elements[s] = block[b].elements[s]
                    /\ \A i \in NewElements : ~(BlockOf(i) = b /\ Slot(i) = s)
    BY <1>0, FillBlocks
  <1>3. /\ NewElements = {i \in Nat : q.tailIndex <= i /\ i < q.tailIndex + pr.count}
        /\ \A i \in NewElements : No(i) \in Owned /\ BlockOf(i) = Home(off, index, No(i))
    BY <1>1, NewElementsFacts
  <1>4. LastNo' = LastNo /\ TailNo' = TailNo /\ InsertedNo' = InsertedNo /\ First' = First
    BY <1>1 DEF LastNo, TailNo, InsertedNo, First
  <1>5. Owned' = Owned
    BY <1>1, <1>4 DEF Owned
  <1>6. Present' = Present \cup NewElements
    <2>1. Present = {i \in Nat : (q.headIndex <= i /\ i < q.tailIndex)
                                    \/ (\E c \in At(Reading) : co[c].index = i)}
      BY <1>1 DEF Present
    <2>2. Present' = {i \in Nat : (q.headIndex <= i /\ i < q.tailIndex)
                                    \/ (\E c \in At(Reading)' : co[c].index = i)
                                    \/ (q.tailIndex <= i /\ i < q.tailIndex + pr.count)}
      BY <1>1 DEF Present
    <2>3. At(Reading)' = At(Reading)
      BY <1>1 DEF At
    <2> QED
      BY <1>3, <2>1, <2>2, <2>3
  <1>7. \A x \in Owned : Home(off, index, x) \in Blocks /\ Home(off, index, x) \in Valued(index)
    BY HomeFacts
  <1>8. Contents(off, index, block, Owned, Present)
    BY IndexParts
  <1>9. ASSUME NEW x \in Owned, NEW s \in 0..(BLOCK_SIZE - 1)
        PROVE  block'[Home(off, index, x)].elements[s] =
                  IF KeyOf(x) + s \in Present' THEN KeyOf(x) + s ELSE None
    <2>1. PICK i \in Int : i = KeyOf(x) + s /\ No(i) = x /\ Slot(i) = s
      <3>1. x \in Int
        BY <1>0, OwnedFacts
      <3> QED
        BY <3>1, KeySlot
    <2>2. PICK b \in Blocks : b = Home(off, index, x)
      BY <1>7
    <2>3. CASE i \in NewElements
      <3>1. BlockOf(i) = b /\ Slot(i) = s
        BY <1>3, <2>1, <2>2, <2>3
      <3>2. PICK j \in NewElements : j = block'[b].elements[s] /\ BlockOf(j) = b /\ Slot(j) = s
        BY <1>2, <2>3, <3>1
      <3>3. No(j) = x
        BY <1>3, <2>2, <3>2, HomeFacts
      <3>4. j = i
        <4>1. j \in Int
          BY <1>3
        <4>2. j = KeyOf(No(j)) + Slot(j)
          BY <4>1, NoFacts
        <4> QED
          BY <2>1, <3>2, <3>3, <4>2
      <3> QED
        BY <1>6, <2>1, <2>2, <2>3, <3>2, <3>4
    <2>4. CASE i \notin NewElements
      <3>1. block'[b].elements[s] = block[b].elements[s]
        <4>1. SUFFICES ASSUME NEW j \in NewElements, j = block'[b].elements[s],
                              BlockOf(j) = b, Slot(j) = s
                       PROVE  FALSE
          BY <1>2
        <4>2. No(j) = x
          BY <1>3, <2>2, <4>1, HomeFacts
        <4>3. j \in Int
          BY <1>3
        <4>4. j = KeyOf(No(j)) + Slot(j)
          BY <4>3, NoFacts
        <4> QED
          BY <2>1, <2>4, <4>1, <4>2, <4>4
      <3>2. block[b].elements[s] = IF i \in Present THEN i ELSE None
        BY <1>8, <2>1, <2>2 DEF Contents
      <3> QED
        BY <1>6, <2>1, <2>2, <2>4, <3>1, <3>2
    <2> QED
      BY <2>3, <2>4
  <1>10. ASSUME NEW b \in Blocks \ Valued(index)
         PROVE  block'[b].elements = NoElements
    <2>1. \A s \in 0..(BLOCK_SIZE - 1) : block'[b].elements[s] = block[b].elements[s]
      BY <1>2, <1>3, <1>7
    <2>2. block[b].elements = NoElements
      BY <1>8 DEF Contents
    <2>3. block'[b].elements \in [0..(BLOCK_SIZE - 1) -> Int]
      <3>1. BlockType'
        BY <1>0, FillBlocks
      <3>2. block' \in [Blocks -> BlockRec]
        BY <3>1 DEF BlockType
      <3> QED
        BY <3>2 DEF BlockRec
    <2> QED
      BY <2>1, <2>2, <2>3 DEF NoElements
  <1>11. Contents(off, index, block', Owned, Present')
    BY <1>9, <1>10, Zenon DEF Contents
  <1>12. Counts(off, index, block', Owned, q.headIndex, co)
    BY <1>2, <1>7, IndexParts DEF Counts
  <1>13. Used(index, block', co, pr.chain, pr.undone) /\ Pool(block', q.poolIndex)
    BY <1>2, IndexParts DEF Used, Pool
  <1> QED
    BY <1>1, <1>4, <1>5, <1>11, <1>12, <1>13, IndexParts
    DEF BlockInv, IndexInv, DataInv

\* Without a block index nothing has been enqueued.
LEMMA NothingOwned ==
  ASSUME CInv, index.headers = <<>>
  PROVE  /\ Owned = {} /\ LastNo = -1 /\ TailNo = -1 /\ InsertedNo = -1
         /\ pr.chain = <<>> /\ pr.undone = 0
         /\ \A c \in Consumers : co[c].pc \notin Served
         /\ Valued(index) = {}
  <1>0. TypeInv /\ ProducerInv
    BY DEF CInv
  <1>1. pr.chain = <<>> /\ pr.undone = 0 /\ ~pr.inserted /\ pr.pc # "tail" /\ q.tailIndex = 0
    <2>1. PICK p \in ProducerRec, t \in Nat : p = pr /\ p.undone \in Nat /\ p.inserted \in BOOLEAN
                                              /\ t = q.tailIndex
      BY <1>0 DEF TypeInv, PrType, ProducerRec, QType
    <2>2. p.chain = <<>> /\ ~p.inserted /\ p.pc # "tail" /\ ~(t > 0) /\ p.undone <= Len(p.chain)
      BY <1>0, <2>1 DEF ProducerInv
    <2> QED
      BY <2>1, <2>2
  <1>2. LastNo = -1
    BY <1>0, <1>1, ProducerFacts
  <1>3. TailNo = -1 /\ InsertedNo = -1
    BY <1>1, <1>2 DEF TailNo, InsertedNo
  <1>4. ChainNos(LastNo, pr.chain, pr.undone) = {}
    BY <1>1, <1>2 DEF ChainNos
  <1>5. Linked(q.tailIndex, q.headIndex, co) = {}
    <2>1. ASSUME NEW x \in Nat PROVE ~(KeyOf(x) < 0)
      <3>1. x \in Int /\ x >= 0
        OBVIOUS
      <3>2. KeyOf(x) \in Nat
        BY <3>1, KeyType
      <3> QED
        BY <3>2
    <2> QED
      BY <1>1, <2>1 DEF Linked
  <1>6. ASSUME NEW c \in Consumers, co[c].pc \in Served PROVE FALSE
    <2>1. co[c].index \in Nat /\ co[c].index < q.headIndex /\ q.headIndex <= q.tailIndex
      BY <1>6, ServedFacts
    <2>2. q.headIndex \in Nat
      BY <1>0 DEF TypeInv, QType
    <2> QED
      BY <1>1, <2>1, <2>2
  <1>7. Valued(index) = {}
    <2>1. Len(index.entries) = 0
      BY <1>0 DEF ProducerInv
    <2> QED
      BY <2>1 DEF Valued
  <1> QED
    BY <1>1, <1>2, <1>3, <1>4, <1>5, <1>6, <1>7 DEF Owned

LEMMA FirstIndexFacts ==
  ASSUME NEW J, J = FirstIndex, NEW w, w = [h \in 1..1 |-> 0]
  PROVE  /\ IsIndex(J) /\ J.headers # <<>> /\ w \in Offsets(J)
         /\ HeadersOK(J) /\ Aligned(w, J) /\ Window(w, J, -1)
         /\ \A e \in 1..Len(J.entries) : Value(J, e) = null
  <1>1. PICK n \in Nat : n = IMPLICIT_INITIAL_INDEX_SIZE /\ n > 1
    BY SizesAssumption
  <1>2. /\ IsIndex(J) /\ Len(J.headers) = 1 /\ J.headers[1].capacity = n
        /\ J.headers[1].tail = n - 1 /\ J.headers[1].index = [i \in 0..(n - 1) |-> i + 1]
        /\ Len(J.entries) = n
        /\ \A e \in 1..n : J.entries[e] = [key |-> INVALID_BLOCK_BASE, value |-> null]
    <2>1. /\ IsIndex(J) /\ Len(J.headers) = 1
          /\ J.headers[1].capacity = IMPLICIT_INITIAL_INDEX_SIZE
          /\ J.headers[1].tail = IMPLICIT_INITIAL_INDEX_SIZE - 1
          /\ J.headers[1].index = [i \in 0..(IMPLICIT_INITIAL_INDEX_SIZE - 1) |-> i + 1]
          /\ Len(J.entries) = IMPLICIT_INITIAL_INDEX_SIZE
          /\ \A e \in 1..Len(J.entries) :
                J.entries[e] = [key |-> INVALID_BLOCK_BASE, value |-> null]
      BY FirstIndexType, Zenon
    <2> QED
      BY <1>1, <2>1, Zenon
  <1>3. J.headers # <<>> /\ w \in Offsets(J) /\ w[1] = 0 /\ Cap(J) = n
    BY <1>2 DEF Offsets, Cap
  <1>4. \A e \in 1..n : Unkeyed(J, e) /\ Value(J, e) = null
    BY <1>2 DEF Unkeyed, Value
  <1>5. \A e \in 1..n : \A y \in Int : ~Keyed(J, e, y)
    BY <1>4, KeyedFacts
  <1>6. HeadersOK(J)
    <2>1. \A p, r \in 0..(n - 1) : J.headers[1].index[p] = J.headers[1].index[r] => p = r
      BY <1>2
    <2>2. Cap(J) = J.headers[1].capacity * 1
      BY <1>1, <1>2, <1>3
    <2>3. \A h \in 1..Len(J.headers) : h = 1 /\ ~(h < Len(J.headers))
      BY <1>2
    <2>4. \E m \in Nat : m > 0 /\ Cap(J) = J.headers[1].capacity * m
      BY <2>2
    <2>5. \A h \in 1..Len(J.headers) :
             /\ \A p, r \in 0..(J.headers[h].capacity - 1) :
                   J.headers[h].index[p] = J.headers[h].index[r] => p = r
             /\ \E m \in Nat : m > 0 /\ Cap(J) = J.headers[h].capacity * m
      BY <1>2, <2>1, <2>3, <2>4
    <2> QED
      BY <2>3, <2>5 DEF HeadersOK
  <1>7. Aligned(w, J)
    <2>1. \A p \in 0..(n - 1) : J.headers[1].index[p] \in 1..n
      BY <1>2
    <2> QED
      BY <1>2, <1>4, <2>1 DEF Aligned
  <1>8. \A x \in Int : Entry(w, J, x) \in 1..n
    BY <1>2, <1>3, <1>6, RingFacts
  <1>9. Window(w, J, -1)
    <2>1. Pos(0, n, -1) = n - 1
      BY <1>1 DEF Pos
    <2>2. TailAt(w, J, -1)
      BY <1>2, <1>3, <2>1 DEF TailAt
    <2>3. KeysNear(w, J, -1)
      BY <1>5, <1>8 DEF KeysNear
    <2>4. Filling(w, J, -1)
      <3>1. \A x \in ((-1) - n + 1)..(-1) : \A z \in ((-1) - n + 1)..x : z \in Int
        OBVIOUS
      <3> QED
        BY <1>3, <1>4, <1>8, <3>1 DEF Filling
    <2> QED
      BY <1>3, <2>2, <2>3, <2>4, WindowParts
  <1> QED
    BY <1>2, <1>3, <1>4, <1>6, <1>7, <1>9

LEMMA AddProducerKeeps ==
  ASSUME CInv, AddProducer, NEW off, BlockInv(off)
  PROVE  \E w : BlockInv(w)'
  <1>0. TypeInv /\ ProducerInv
    BY DEF CInv
  <1>1. /\ UNCHANGED <<block, pr, co>> /\ q.hasProducer = FALSE
        /\ q'.tailIndex = q.tailIndex /\ q'.headIndex = q.headIndex
        /\ q'.poolIndex = q.poolIndex
    BY <1>0 DEF AddProducer, TypeInv, QType
  <1>2. CASE index' = index
    <2>1. SameUse(co, co')
      BY <1>1 DEF SameUse
    <2> QED
      BY <1>1, <1>2, <2>1, FrameStep
  <1>3. CASE index' = FirstIndex
    <2>1. index.headers = <<>>
      BY <1>0, <1>1 DEF ProducerInv
    <2>2. /\ Owned = {} /\ LastNo = -1 /\ TailNo = -1 /\ InsertedNo = -1
          /\ pr.chain = <<>> /\ pr.undone = 0
          /\ \A c \in Consumers : co[c].pc \notin Served
          /\ Valued(index) = {}
      BY <2>1, NothingOwned
    <2>3. PICK J : J = index' /\ J = FirstIndex
      BY <1>3
    <2>4. PICK w : w = [h \in 1..1 |-> 0]
      OBVIOUS
    <2>5. /\ IsIndex(J) /\ J.headers # <<>> /\ w \in Offsets(J)
          /\ HeadersOK(J) /\ Aligned(w, J) /\ Window(w, J, -1)
          /\ \A e \in 1..Len(J.entries) : Value(J, e) = null
      BY <2>3, <2>4, FirstIndexFacts
    <2>6. Valued(J) = {} /\ Links(w, J, {})
      BY <2>5 DEF Valued, Links
    <2>7. LastNo' = LastNo /\ TailNo' = TailNo /\ InsertedNo' = InsertedNo /\ First' = First
      BY <1>1 DEF LastNo, TailNo, InsertedNo, First
    <2>8. Owned' = {}
      <3>1. Owned' = Owned
        BY <1>1, <2>7 DEF Owned
      <3> QED
        BY <2>2, <3>1
    <2>9. Inserted(w, J, LastNo, InsertedNo)
      <3>1. (LastNo + 1)..InsertedNo = {}
        BY <2>2
      <3> QED
        BY <3>1 DEF Inserted
    <2>10. Chained(w, J, {}, LastNo, pr.chain, pr.undone, First)
      BY <2>2 DEF Chained
    <2>11. Reach(w, J, co)
      BY <2>2 DEF Reach, Served, Holding, Reading
    <2>12. Used(J, block, co, pr.chain, pr.undone) /\ Pool(block, q.poolIndex)
      BY <2>2, <2>6, IndexParts DEF Used
    <2>13. Counts(w, J, block, {}, q.headIndex, co)
      BY <2>2 DEF Counts, Served, Holding, Reading
    <2>14. Contents(w, J, block, {}, Present')
      BY <2>2, <2>6, IndexParts DEF Contents
    <2>15. BlockInv(w)'
      BY <1>1, <2>2, <2>3, <2>5, <2>6, <2>7, <2>8, <2>9, <2>10, <2>11, <2>12, <2>13, <2>14
      DEF BlockInv, IndexInv, DataInv, Offsets
    <2> QED
      BY <2>15
  <1> QED
    BY <1>2, <1>3 DEF AddProducer

\* A step that moves the tail of the block index.
LEMMA TailStep ==
  ASSUME CInv, NEW off, BlockInv(off), index.headers # <<>>, NEW J, NEW d \in Int,
         SameRings(index, J), SameKeys(index, J),
         J.headers[Len(index.headers)].tail = (header.tail + d) % header.capacity,
         \/ d = 1 /\ Keyed(index, Entry(off, index, TailNo + 1), TailNo + 1)
         \/ d = -1 /\ TailNo >= 0 /\ Keyed(index, Entry(off, index, TailNo), TailNo)
  PROVE  /\ Aligned(off, J) /\ HeadersOK(J) /\ off \in Offsets(J)
         /\ Window(off, J, TailNo + d) /\ Reach(off, J, co)
         /\ \A m \in Int : m <= InsertedNo => Inserted(off, J, LastNo, m)
         /\ \A x : Entry(off, J, x) = Entry(off, index, x)
         /\ \A x \in Owned : /\ Keyed(J, Entry(off, J, x), x)
                             /\ Entry(off, index, x) \in 1..Len(index.entries)
         /\ \A x, y \in Owned : Entry(off, index, x) = Entry(off, index, y) => x = y
  <1>0. TypeInv /\ ProducerInv /\ TailNo \in Int /\ LastNo \in Int /\ InsertedNo \in Int
    BY TailNoFacts DEF CInv
  <1>1. /\ IsIndex(index) /\ HeadersOK(index) /\ off \in Offsets(index) /\ Aligned(off, index)
        /\ Window(off, index, TailNo) /\ Inserted(off, index, LastNo, InsertedNo)
        /\ Links(off, index, Owned) /\ Reach(off, index, co)
    BY IndexParts
  <1>2. Aligned(off, J) /\ HeadersOK(J) /\ off \in Offsets(J)
    BY <1>1, AlignedSame
  <1>3. TailAt(off, index, TailNo)
    BY <1>1, WindowParts
  <1>4. PICK n \in Int, m \in Int, c \in Nat, o \in Int :
           /\ n = TailNo /\ m = n + d /\ c = Cap(index) /\ c > 0 /\ o = off[Len(index.headers)]
           /\ Len(index.headers) \in 1..Len(index.headers)
    <2>1. Len(index.headers) \in 1..Len(index.headers) /\ Cap(index) \in Nat /\ Cap(index) > 0
      BY <1>1, HeaderFacts
    <2>2. off[Len(index.headers)] \in Int
      BY <1>1, <2>1 DEF Offsets
    <2> QED
      BY <1>0, <2>1, <2>2
  <1>5. TailAt(off, J, m)
    <2>1. header.tail = Pos(o, c, n) /\ header.capacity = c
      BY <1>3, <1>4 DEF TailAt, Cap, header
    <2>2. (Pos(o, c, n) + (m - n)) % c = Pos(o, c, m)
      <3>1. c > 0
        BY <1>4
      <3> QED
        BY <3>1, PosShift
    <2>3. m - n = d
      BY <1>4
    <2>4. J.headers[Len(index.headers)].tail = Pos(o, c, m)
      BY <2>1, <2>2, <2>3
    <2>5. Len(J.headers) = Len(index.headers) /\ Cap(J) = c
      BY <1>1, <1>4, SameEntries DEF SameRings
    <2> QED
      BY <1>4, <2>4, <2>5 DEF TailAt
  <1>6. Window(off, J, m)
    <2>1. \/ m = n + 1 /\ Keyed(index, Entry(off, index, m), m)
          \/ m = n - 1 /\ n >= 0 /\ Keyed(index, Entry(off, index, n), n)
      BY <1>4
    <2> QED
      BY <1>1, <1>4, <1>5, <2>1, WindowSame
  <1>7. /\ Inserted(off, J, LastNo, InsertedNo)
        /\ \A x : Entry(off, J, x) = Entry(off, index, x)
        /\ \A x \in Int : \A y : Keyed(J, Entry(off, J, x), y) <=> Keyed(index, Entry(off, index, x), y)
    BY <1>0, <1>1, IndexSame
  <1>8. ASSUME NEW i \in Int, i <= InsertedNo PROVE Inserted(off, J, LastNo, i)
    <2>1. \A x \in (LastNo + 1)..i : x \in (LastNo + 1)..InsertedNo
      BY <1>0, <1>8
    <2> QED
      BY <1>7, <2>1 DEF Inserted
  <1>9. Reach(off, J, co)
    BY <1>0, <1>1, ReachSame
  <1>10. \A x \in Owned : /\ Keyed(J, Entry(off, J, x), x) /\ Keyed(index, Entry(off, index, x), x)
                         /\ Entry(off, index, x) \in 1..Len(index.entries) /\ x \in Int
    BY <1>0, <1>1, <1>7, HomeFacts, OwnedFacts
  <1>11. ASSUME NEW x \in Owned, NEW y \in Owned, Entry(off, index, x) = Entry(off, index, y)
         PROVE  x = y
    BY <1>10, <1>11, KeyedFacts
  <1> QED
    BY <1>2, <1>4, <1>6, <1>7, <1>8, <1>9, <1>10, <1>11

\* A step of the producer that changes the index, with offsets w afterwards,
\* its tail at number n, keys up to m, and the blocks where they were.
IndexKept(off, w, J, n, m) ==
    /\ Aligned(w, J) /\ HeadersOK(J) /\ w \in Offsets(J)
    /\ Window(w, J, n) /\ Reach(w, J, co) /\ Inserted(w, J, LastNo, m)
    /\ BlocksKept(off, index, Owned, w, J)

LEMMA IndexKeeps ==
  ASSUME CInv, NEW off, BlockInv(off), UNCHANGED <<q, block, co>>, index.headers # <<>>,
         NEW w, NEW J, NEW n, NEW m, IndexKept(off, w, J, n, m),
         J = index', n = TailNo', m = InsertedNo',
         pr'.chain = pr.chain, pr'.undone = pr.undone, First' = First,
         pr.pc # "publish", pr'.pc # "publish"
  PROVE  BlockInv(w)'
  <1>0. TypeInv /\ ProducerInv
    BY DEF CInv
  <1>1. /\ Aligned(w, J) /\ HeadersOK(J) /\ w \in Offsets(J)
        /\ Window(w, J, n) /\ Reach(w, J, co) /\ Inserted(w, J, LastNo, m)
    BY DEF IndexKept
  <1>2. LastNo' = LastNo
    BY DEF LastNo
  <1>3. Owned' = Owned /\ Present' = Present
    BY <1>2, NothingFilled DEF Owned
  <1>4. /\ Links(w, J, Owned) /\ \A x \in Owned : Home(w, J, x) = Home(off, index, x)
        /\ Valued(J) = Valued(index)
    <2>1. Links(off, index, Owned)
      BY IndexParts
    <2>2. BlocksKept(off, index, Owned, w, J)
      BY DEF IndexKept
    <2> QED
      BY <2>1, <2>2, ValuesKept
  <1>5. Chained(w, J, Owned, LastNo, pr.chain, pr.undone, First)
    <2>1. Chained(off, index, Owned, LastNo, pr.chain, pr.undone, First)
      BY IndexParts
    <2>2. \A k \in 1..Len(pr.chain) : k > pr.undone => LastNo + k \in Owned
      <3>1. /\ LastNo \in Int /\ pr.undone \in Nat /\ Len(pr.chain) \in Nat
        BY <1>0, TailNoFacts
      <3> QED
        BY <3>1 DEF Owned, ChainNos
    <2> QED
      BY <1>4, <2>1, <2>2 DEF Chained
  <1>6. Used(J, block, co, pr.chain, pr.undone) /\ Pool(block, q.poolIndex)
    BY <1>4, IndexParts DEF Used
  <1>7. Counts(w, J, block, Owned, q.headIndex, co)
    BY <1>4, IndexParts DEF Counts
  <1>8. Contents(w, J, block, Owned, Present)
    BY <1>4, IndexParts DEF Contents
  <1> QED
    BY <1>1, <1>2, <1>3, <1>4, <1>5, <1>6, <1>7, <1>8
    DEF BlockInv, IndexInv, DataInv, Offsets

\* ... and leaves the blocks where they are.
LEMMA TailKeeps ==
  ASSUME CInv, NEW off, BlockInv(off), UNCHANGED <<q, block, co>>, index.headers # <<>>,
         IsIndex(index'), SameRings(index, index'), SameKeys(index, index'),
         SameValues(index, index'), NEW d \in Int,
         index'.headers[Len(index.headers)].tail = (header.tail + d) % header.capacity,
         \/ d = 1 /\ Keyed(index, Entry(off, index, TailNo + 1), TailNo + 1)
         \/ d = -1 /\ TailNo >= 0 /\ Keyed(index, Entry(off, index, TailNo), TailNo),
         pr'.chain = pr.chain, pr'.undone = pr.undone, First' = First,
         pr.pc # "publish", pr'.pc # "publish",
         TailNo' = TailNo + d, InsertedNo' <= InsertedNo, InsertedNo' \in Int
  PROVE  BlockInv(off)'
  <1>0. TypeInv /\ ProducerInv
    BY DEF CInv
  <1>1. PICK J : J = index'
    OBVIOUS
  <1>2. PICK m \in Int : m = InsertedNo'
    OBVIOUS
  <1>3. SameRings(index, J) /\ SameKeys(index, J) /\ SameValues(index, J)
    BY <1>1
  <1>4. J.headers[Len(index.headers)].tail = (header.tail + d) % header.capacity
    BY <1>1
  <1>5. /\ Aligned(off, J) /\ HeadersOK(J) /\ off \in Offsets(J)
        /\ Window(off, J, TailNo + d) /\ Reach(off, J, co)
        /\ \A i \in Int : i <= InsertedNo => Inserted(off, J, LastNo, i)
        /\ \A x : Entry(off, J, x) = Entry(off, index, x)
        /\ \A x \in Owned : /\ Keyed(J, Entry(off, J, x), x)
                            /\ Entry(off, index, x) \in 1..Len(index.entries)
    BY <1>3, <1>4, TailStep
  <1>6. Inserted(off, J, LastNo, m)
    BY <1>2, <1>5
  <1>7. IndexKept(off, off, J, TailNo + d, m)
    <2>1. /\ Len(J.entries) = Len(index.entries) /\ Len(index.entries) \in Nat
          /\ \A e \in 1..Len(index.entries) : Value(J, e) = Value(index, e)
      BY <1>0, <1>3 DEF SameValues, Value, TypeInv, IsIndex
    <2>2. \A e \in 1..Len(J.entries) : e \notin 1..Len(index.entries) => Value(J, e) = null
      BY <2>1
    <2>3. Len(J.entries) \in Nat /\ Len(index.entries) <= Len(J.entries)
      BY <2>1
    <2> QED
      BY <1>5, <1>6, <2>1, <2>2, <2>3 DEF IndexKept, BlocksKept
  <1> QED
    BY <1>1, <1>2, <1>7, IndexKeeps

LEMMA InsertTailKeeps ==
  ASSUME CInv, InsertTail, NEW off, BlockInv(off)
  PROVE  BlockInv(off)'
  <1>0. TypeInv /\ ProducerInv
    BY DEF CInv
  <1>1. /\ UNCHANGED <<q, block, co>> /\ pr.pc = "tail" /\ pr'.pc = "requisition"
        /\ pr'.chain = pr.chain /\ pr'.undone = pr.undone /\ pr'.inserted = TRUE
        /\ pr'.startBlock = pr.startBlock /\ index' = WithTail(1)
    BY <1>0, InsertTailFields DEF InsertTail
  <1>2. index.headers # <<>>
    BY <1>0, <1>1 DEF ProducerInv
  <1>3. /\ IsIndex(index') /\ index'.entries = index.entries
        /\ Len(index'.headers) = Len(index.headers)
        /\ index'.headers[Len(index.headers)].tail = (header.tail + 1) % header.capacity
        /\ \A h \in 1..Len(index.headers) :
               /\ index'.headers[h].capacity = index.headers[h].capacity
               /\ index'.headers[h].index = index.headers[h].index
    <2>1. IsIndex(index) /\ 1 \in Int
      BY <1>0 DEF TypeInv
    <2> QED
      BY <1>1, <1>2, <2>1, WithTailSet
  <1>4. SameRings(index, index') /\ SameKeys(index, index') /\ SameValues(index, index')
    BY <1>3 DEF SameRings, SameKeys, SameValues
  <1>5. PICK L \in Int, l \in Nat : L = LastNo /\ l = Len(pr.chain) /\ pr.undone = 0 /\ ~pr.inserted
    <2>1. pr.undone = 0 /\ ~pr.inserted
      <3>1. pr.undone \in Nat
        BY <1>0, TailNoFacts
      <3> QED
        BY <1>0, <1>1, <3>1 DEF ProducerInv
    <2> QED
      BY <1>0, <2>1, TailNoFacts
  <1>6. /\ TailNo = L + l /\ InsertedNo = L + l + 1
        /\ TailNo' = TailNo + 1 /\ InsertedNo' = InsertedNo /\ InsertedNo' \in Int
    <2>1. TailNo = L + l /\ InsertedNo = L + l + 1
      BY <1>1, <1>5 DEF TailNo, InsertedNo
    <2>2. LastNo' = L
      BY <1>1, <1>5 DEF LastNo
    <2>3. TailNo' = L + l + 1 /\ InsertedNo' = L + l + 1
      <3>1. (IF pr'.inserted THEN 1 ELSE 0) = 1
            /\ (IF pr'.inserted \/ pr'.pc = "tail" THEN 1 ELSE 0) = 1
        BY <1>1
      <3>2. Len(pr'.chain) = l /\ pr'.undone = 0
        BY <1>1, <1>5
      <3>3. L + l - 0 + 1 = L + l + 1
        OBVIOUS
      <3> QED
        BY <2>2, <3>1, <3>2, <3>3, Zenon DEF TailNo, InsertedNo
    <2> QED
      BY <2>1, <2>3
  <1>7. Keyed(index, Entry(off, index, TailNo + 1), TailNo + 1)
    <2>1. Inserted(off, index, LastNo, InsertedNo)
      BY IndexParts
    <2>2. TailNo + 1 \in (LastNo + 1)..InsertedNo
      BY <1>5, <1>6
    <2> QED
      BY <2>1, <2>2 DEF Inserted
  <1>8. First' = First
    BY <1>1 DEF First
  <1>9. PICK d \in Int : d = 1
    OBVIOUS
  <1>10. InsertedNo' <= InsertedNo
    BY <1>6
  <1> QED
    BY <1>1, <1>2, <1>3, <1>4, <1>6, <1>7, <1>8, <1>9, <1>10, TailKeeps

LEMMA Negative == -1 \in Int
  OBVIOUS

LEMMA TailAndValue ==
  ASSUME NEW I, NEW J, IsIndex(J), SameRings(I, J), J.entries = I.entries,
         NEW e \in 1..Len(I.entries), NEW n \in 0..MaxBlocks,
         NEW K, K = WithValue(J, e, n)
  PROVE  /\ IsIndex(K) /\ SameRings(I, K) /\ SameKeys(I, K) /\ K.headers = J.headers
         /\ Value(K, e) = n
         /\ \A f \in 1..Len(I.entries) : f # e => Value(K, f) = Value(I, f)
  <1>1. e \in 1..Len(J.entries)
    OBVIOUS
  <1>2. /\ IsIndex(K) /\ K.headers = J.headers /\ Len(K.entries) = Len(J.entries)
        /\ SameKeys(J, K) /\ Value(K, e) = n
        /\ \A f \in 1..Len(J.entries) : f # e => Value(K, f) = Value(J, f)
    BY <1>1, ValueStored
  <1>3. SameRings(I, K)
    BY <1>2 DEF SameRings
  <1>4. SameKeys(I, K) /\ \A f : Value(J, f) = Value(I, f)
    BY <1>2 DEF SameKeys, Value
  <1> QED
    BY <1>2, <1>3, <1>4

\* What rewinding makes of the index.
RewoundTo(K, d, e) == K = [WithTail(d) EXCEPT !.entries[e].value = null]

LEMMA RewoundIndex ==
  ASSUME IsIndex(index), index.headers # <<>>, NEW e \in 1..Len(index.entries), NEW d \in Int,
         NEW K, RewoundTo(K, d, e)
  PROVE  /\ IsIndex(K) /\ SameRings(index, K) /\ SameKeys(index, K)
         /\ K.headers[Len(index.headers)].tail = (header.tail + d) % header.capacity
         /\ Value(K, e) = null
         /\ \A f \in 1..Len(index.entries) : f # e => Value(K, f) = Value(index, f)
  <1>0. PICK J : J = WithTail(d)
    OBVIOUS
  <1>1. /\ IsIndex(J) /\ J.entries = index.entries
        /\ Len(J.headers) = Len(index.headers)
        /\ J.headers[Len(index.headers)].tail = (header.tail + d) % header.capacity
        /\ \A h \in 1..Len(index.headers) :
               /\ J.headers[h].capacity = index.headers[h].capacity
               /\ J.headers[h].index = index.headers[h].index
    BY <1>0, WithTailSet
  <1>2. PICK n \in 0..MaxBlocks : n = null
    BY SizesAssumption DEF null
  <1>3. K = WithValue(J, e, n)
    BY <1>0, <1>2, Zenon DEF RewoundTo, WithValue
  <1>4. SameRings(index, J) /\ IsIndex(J) /\ J.entries = index.entries
    BY <1>1 DEF SameRings
  <1>5. /\ IsIndex(K) /\ SameRings(index, K) /\ SameKeys(index, K) /\ K.headers = J.headers
        /\ Value(K, e) = n
        /\ \A f \in 1..Len(index.entries) : f # e => Value(K, f) = Value(index, f)
    BY <1>3, <1>4, TailAndValue
  <1> QED
    BY <1>1, <1>2, <1>5

\* An entry without a block.
LEMMA VacantNumber ==
  ASSUME CInv, NEW off, BlockInv(off), NEW n \in Int, n \notin Owned,
         index.headers # <<>>, Keyed(index, Entry(off, index, n), n)
  PROVE  /\ Entry(off, index, n) \in 1..Len(index.entries)
         /\ Value(index, Entry(off, index, n)) = null
         /\ \A x \in Owned : Entry(off, index, x) # Entry(off, index, n)
  <1>0. TypeInv /\ ProducerInv
    BY DEF CInv
  <1>1. Entry(off, index, n) \in 1..Len(index.entries)
    BY IndexParts, RingFacts
  <1>2. ASSUME NEW x \in Owned, Entry(off, index, x) = Entry(off, index, n) PROVE FALSE
    <2>1. x \in Int /\ Keyed(index, Entry(off, index, x), x)
      BY <1>0, OwnedFacts, HomeFacts
    <2> QED
      BY <1>2, <2>1, KeyedFacts
  <1>3. Links(off, index, Owned)
    BY IndexParts
  <1> QED
    BY <1>1, <1>2, <1>3 DEF Links

LEMMA RewindInsertedKeeps ==
  ASSUME CInv, RewindInserted, NEW off, BlockInv(off)
  PROVE  BlockInv(off)'
  <1>0. TypeInv /\ ProducerInv
    BY DEF CInv
  <1>1. /\ UNCHANGED <<q, block, co>> /\ pr.pc = "rollback" /\ pr'.pc = "rollback" /\ pr.inserted
        /\ pr'.chain = pr.chain /\ pr'.undone = pr.undone /\ pr'.inserted = FALSE
        /\ pr'.startBlock = pr.startBlock
        /\ index' = [WithTail(-1) EXCEPT !.entries[header.index[header.tail]].value = null]
    BY <1>0, RewindInsertedFields DEF RewindInserted
  <1>2. index.headers # <<>>
    BY <1>0, <1>1 DEF ProducerInv
  <1>3. PICK L \in Int, l \in Nat : L = LastNo /\ l = Len(pr.chain) /\ pr.undone = 0 /\ L >= -1
    <2>1. pr.undone = 0
      <3>1. pr.undone \in Nat
        BY <1>0, TailNoFacts
      <3> QED
        BY <1>0, <1>1, <3>1 DEF ProducerInv
    <2> QED
      BY <1>0, <2>1, TailNoFacts
  <1>4. PICK n \in Int : n = TailNo /\ n = L + l + 1 /\ n = InsertedNo /\ n >= 0
    BY <1>1, <1>3 DEF TailNo, InsertedNo
  <1>5. TailNo' = n - 1 /\ InsertedNo' = n - 1
    <2>1. LastNo' = L
      BY <1>1, <1>3 DEF LastNo
    <2>2. (IF pr'.inserted THEN 1 ELSE 0) = 0
          /\ (IF pr'.inserted \/ pr'.pc = "tail" THEN 1 ELSE 0) = 0
      BY <1>1
    <2>3. Len(pr'.chain) = l /\ pr'.undone = 0
      BY <1>1, <1>3
    <2>4. L + l - 0 + 0 = n - 1 /\ L + l + 0 = n - 1
      BY <1>4
    <2> QED
      BY <2>1, <2>2, <2>3, <2>4, Zenon DEF TailNo, InsertedNo
  <1>6. Keyed(index, Entry(off, index, n), n)
    <2>1. Inserted(off, index, LastNo, InsertedNo)
      BY IndexParts
    <2>2. n \in (LastNo + 1)..InsertedNo
      BY <1>3, <1>4
    <2> QED
      BY <2>1, <2>2 DEF Inserted
  <1>7. n \notin Owned
    <2>1. ASSUME n \in Owned PROVE FALSE
      <3>1. n \in Linked(q.tailIndex, q.headIndex, co) => n <= L
        BY <1>0, <1>3, <2>1, OwnedFacts
      <3>2. n \in ChainNos(LastNo, pr.chain, pr.undone) => n <= L + l
        BY <1>3 DEF ChainNos
      <3> QED
        BY <1>3, <1>4, <2>1, <3>1, <3>2 DEF Owned
    <2> QED
      BY <2>1
  <1>8. PICK e \in 1..Len(index.entries) : /\ e = Entry(off, index, n)
                                           /\ e = header.index[header.tail]
                                           /\ Value(index, e) = null
    <2>1. header.index[header.tail] = Entry(off, index, TailNo)
      BY <1>2, IndexParts, TailEntry DEF header
    <2> QED
      BY <1>2, <1>4, <1>6, <1>7, <2>1, VacantNumber
  <1>9. PICK d \in Int : d = -1
    BY Zenon, Negative
  <1>10. /\ IsIndex(index') /\ SameRings(index, index') /\ SameKeys(index, index')
         /\ index'.headers[Len(index.headers)].tail = (header.tail + d) % header.capacity
         /\ Value(index', e) = null
         /\ \A f \in 1..Len(index.entries) : f # e => Value(index', f) = Value(index, f)
    <2>1. IsIndex(index)
      BY <1>0 DEF TypeInv
    <2>2. PICK K : K = index' /\ RewoundTo(K, d, e)
      BY <1>1, <1>8, <1>9, Zenon DEF RewoundTo
    <2>3. /\ IsIndex(K) /\ SameRings(index, K) /\ SameKeys(index, K)
          /\ K.headers[Len(index.headers)].tail = (header.tail + d) % header.capacity
          /\ Value(K, e) = null
          /\ \A f \in 1..Len(index.entries) : f # e => Value(K, f) = Value(index, f)
      BY <1>2, <2>1, <2>2, RewoundIndex
    <2> QED
      BY <2>2, <2>3, Zenon
  <1>11. SameValues(index, index')
    BY <1>8, <1>10 DEF SameValues, SameKeys, Value
  <1>12. First' = First
    BY <1>1 DEF First
  <1>13. TailNo' = TailNo + d /\ InsertedNo' <= InsertedNo /\ InsertedNo' \in Int
    BY <1>4, <1>5, <1>9
  <1>14. TailNo >= 0 /\ Keyed(index, Entry(off, index, TailNo), TailNo)
    BY <1>4, <1>6
  <1>15. pr.pc # "publish" /\ pr'.pc # "publish"
    BY <1>1
  <1> QED
    BY <1>1, <1>2, <1>9, <1>10, <1>11, <1>12, <1>13, <1>14, <1>15, TailKeeps

LEMMA BaseOfKey ==
  ASSUME NEW x \in Nat, KeyOf(x) < IndexMod
  PROVE  Base(KeyOf(x)) = KeyOf(x)
  <1>1. PICK k \in Nat, B \in Nat : k = KeyOf(x) /\ B = BLOCK_SIZE /\ B > 1
    <2>1. x \in Int /\ x >= 0
      OBVIOUS
    <2> QED
      BY <2>1, KeyType
  <1>2. No(k) = x
    <2>1. k \in Int /\ x \in Int /\ k < k + B
      BY <1>1
    <2> QED
      BY <1>1, <2>1, NoUnique
  <1>3. Base(k) = KeyOf(No(k))
    BY <1>1, BaseInRange
  <1> QED
    BY <1>1, <1>2, <1>3

\* get_block_index_index_for_index, as the producer calls it.
LEMMA CurrentNumber ==
  ASSUME CInv, NEW off, BlockInv(off), index.headers # <<>>, TailNo >= 0,
         Keyed(index, Entry(off, index, TailNo), TailNo),
         NEW x \in Nat, 2 * KeyOf(x) < IndexMod, NEW i, Base(i) = KeyOf(x)
  PROVE  CurrentEntry(i) = Entry(off, index, x)
  <1>0. TypeInv /\ ProducerInv
    BY DEF CInv
  <1>1. PICK n \in Nat : n = TailNo /\ 2 * KeyOf(n) < IndexMod
    BY <1>0, TailNoFacts
  <1>2. IsIndex(index) /\ HeadersOK(index) /\ off \in Offsets(index) /\ Window(off, index, TailNo)
    BY IndexParts
  <1>3. PICK h \in 1..Len(index.headers) : h = Len(index.headers) /\ index.headers[h] = header
    BY <1>2, HeaderFacts DEF header
  <1>4. header.tail = Pos(off[h], index.headers[h].capacity, n)
    <2>1. TailAt(off, index, TailNo)
      BY <1>2, WindowParts
    <2> QED
      BY <1>1, <1>3, <2>1 DEF TailAt, Cap
  <1>5. header.index[header.tail] = Entry(off, index, n)
    BY <1>1, <1>2, TailEntry DEF header
  <1>6. index.entries[header.index[header.tail]].key = KeyOf(n)
    BY <1>1, <1>5 DEF Keyed
  <1>7. EntryFor(index.headers[h], header.tail, KeyOf(n), i) = Ent(off, index, h, x)
    BY <1>1, <1>2, <1>4, EntryForNo
  <1>8. CurrentEntry(i) = EntryFor(index.headers[h], header.tail, KeyOf(n), i)
    BY <1>3, <1>6, Zenon DEF CurrentEntry
  <1>9. Ent(off, index, h, x) = Entry(off, index, x)
    BY <1>3, Zenon DEF Entry
  <1> QED
    BY <1>7, <1>8, <1>9

\* The numbers above the last one have no elements that are published.
LEMMA AboveLast ==
  ASSUME CInv, NEW x \in Int, x > LastNo
  PROVE  q.tailIndex <= KeyOf(x) /\ q.headIndex <= KeyOf(x) /\ Holders(co, x) = {}
  <1>0. TypeInv /\ ProducerInv
    BY DEF CInv
  <1>1. PICK t \in Nat, h \in Nat : t = q.tailIndex /\ h = q.headIndex /\ h <= t
    BY <1>0, HeadCovered DEF TypeInv, QType
  <1>2. t - 1 \in Int
    OBVIOUS
  <1>3. PICK L \in Int : L = No(t - 1) /\ L = LastNo /\ L < x
    BY <1>1, <1>2, NoFacts DEF LastNo
  <1>4. KeyOf(L) + BLOCK_SIZE <= KeyOf(x)
    BY <1>3, KeyMono
  <1>5. t - 1 < KeyOf(L) + BLOCK_SIZE
    BY <1>2, <1>3, NoFacts
  <1>6. KeyOf(L) \in Int /\ KeyOf(x) \in Int /\ BLOCK_SIZE \in Nat
    BY <1>3, KeyType
  <1>7. t <= KeyOf(x) /\ h <= KeyOf(x)
    BY <1>1, <1>4, <1>5, <1>6
  <1>8. ASSUME NEW c \in Holders(co, x) PROVE FALSE
    <2>1. c \in Consumers /\ co[c].pc \in Served /\ No(co[c].index) = x
      BY <1>8 DEF Holders, Served
    <2>2. KeyOf(x) <= co[c].index /\ co[c].index < q.headIndex /\ co[c].index \in Nat
      BY <2>1, ServedFacts
    <2> QED
      BY <1>1, <1>6, <1>7, <2>2
  <1> QED
    BY <1>1, <1>7, <1>8

\* Before they are filled in they have none at all.
LEMMA AboveIsAbsent ==
  ASSUME CInv, pr.pc # "publish", NEW x \in Int, x > LastNo, NEW s \in 0..(BLOCK_SIZE - 1)
  PROVE  KeyOf(x) + s \notin Present
  <1>1. PICK t \in Nat, h \in Nat : t = q.tailIndex /\ h = q.headIndex /\ h <= t
    BY HeadCovered DEF CInv, TypeInv, QType
  <1>2. PICK i \in Int : i = KeyOf(x) + s /\ KeyOf(x) <= i
    BY KeySlot
  <1>3. t <= i
    <2>1. KeyOf(x) \in Int /\ t <= KeyOf(x)
      BY <1>1, AboveLast, KeyType
    <2> QED
      BY <1>2, <2>1
  <1>4. ASSUME NEW c \in At(Reading), co[c].index = i PROVE FALSE
    <2>1. c \in Consumers /\ co[c].pc \in Served
      BY <1>4 DEF At, Served, Holding
    <2>2. co[c].index < q.headIndex /\ co[c].index \in Nat
      BY <2>1, ServedFacts
    <2> QED
      BY <1>1, <1>3, <1>4, <2>2
  <1>5. i \notin Present
    BY <1>1, <1>3, <1>4 DEF Present
  <1> QED
    BY <1>2, <1>5

\* What the producer has allocated and not published has no elements yet.
LEMMA AllocatedIsEmpty ==
  ASSUME CInv, pr.pc # "publish", NEW off, BlockInv(off),
         NEW x \in ChainNos(LastNo, pr.chain, pr.undone)
  PROVE  block[Home(off, index, x)].elements = NoElements
  <1>0. TypeInv /\ ProducerInv
    BY DEF CInv
  <1>1. PICK x0 \in Owned : x0 = x /\ x0 \in Int /\ x0 > LastNo
    BY OwnedFacts, <1>0 DEF Owned
  <1>2. PICK b \in Blocks : b = Home(off, index, x0)
    BY HomeFacts
  <1>3. ASSUME NEW s \in 0..(BLOCK_SIZE - 1)
        PROVE  block[b].elements[s] = None
    <2>1. KeyOf(x0) + s \notin Present
      BY <1>1, AboveIsAbsent
    <2>2. Contents(off, index, block, Owned, Present)
      BY IndexParts
    <2> QED
      BY <1>2, <2>1, <2>2 DEF Contents
  <1>4. block[b].elements \in [0..(BLOCK_SIZE - 1) -> Int]
    BY <1>0, BlockAt DEF TypeInv
  <1>5. block[b].elements = NoElements
    BY <1>3, <1>4 DEF NoElements
  <1> QED
    BY <1>1, <1>2, <1>5

LEMMA RewoundBase ==
  ASSUME NEW L \in Int, NEW u \in Nat, Base(start - 1) = KeyOf(L) % IndexMod,
         L + u + 1 \in Nat, KeyOf(L + u + 1) < IndexMod
  PROVE  Base(Base(start - 1) + (u + 1) * BLOCK_SIZE) = KeyOf(L + u + 1)
  <1>1. PICK x \in Nat : x = L + u + 1 /\ KeyOf(x) < IndexMod
    OBVIOUS
  <1>2. PICK k \in Int, g \in Nat, B \in Nat, M \in Nat :
           g = KeyOf(x) /\ k = KeyOf(L) /\ B = BLOCK_SIZE /\ M = IndexMod /\ B > 1 /\ g < M
    <2>1. x \in Int /\ x >= 0
      OBVIOUS
    <2> QED
      BY <1>1, <2>1, KeyType, SizesAssumption
  <1>3. PICK b \in Int : b = (u + 1) * BLOCK_SIZE /\ k + b = g
    <2>1. PICK w \in Int : w = u + 1 /\ x = L + w
      BY <1>1
    <2>2. B * (L + w) = B * L + B * w /\ B * w \in Int /\ B * w = w * B
      BY <1>2
    <2>3. k = B * L /\ g = B * (L + w)
      BY <1>2, <2>1 DEF KeyOf
    <2>4. PICK b \in Int : b = B * w
      BY <2>2
    <2>5. k + b = g
      BY <2>2, <2>3, <2>4, Zenon
    <2>6. b = (u + 1) * BLOCK_SIZE
      BY <1>2, <2>1, <2>2, <2>4, Zenon
    <2> QED
      BY <2>5, <2>6
  <1>4. PICK i \in Int : i = Base(start - 1) + (u + 1) * BLOCK_SIZE /\ i = (k % IndexMod) + b
    <2>1. k % IndexMod \in Nat
      BY ModType
    <2>2. (k % IndexMod) + b \in Int
      BY <2>1
    <2>3. Base(start - 1) + (u + 1) * BLOCK_SIZE = (k % IndexMod) + b
      BY <1>2, <1>3, Zenon
    <2> QED
      BY <2>2, <2>3
  <1>5. i % IndexMod = g % IndexMod
    BY <1>3, <1>4, ModAdd
  <1>6. Base(i) = Base(g)
    BY <1>5, Zenon DEF Base
  <1>7. Base(KeyOf(x)) = KeyOf(x)
    BY <1>1, BaseOfKey
  <1> QED
    BY <1>1, <1>2, <1>4, <1>6, <1>7, Zenon

LEMMA RewindBlockKeeps ==
  ASSUME CInv, RewindBlock, NEW off, BlockInv(off)
  PROVE  BlockInv(off)'
  <1>0. TypeInv /\ ProducerInv
    BY DEF CInv
  <1>1. /\ UNCHANGED <<q, block, co>> /\ pr.pc = "rollback" /\ pr'.pc = "rollback" /\ ~pr.inserted
        /\ pr'.chain = pr.chain /\ pr'.undone = pr.undone + 1 /\ pr'.inserted = pr.inserted
        /\ pr'.startBlock = pr.startBlock /\ pr.undone < Len(pr.chain)
        /\ index' = [WithTail(-1) EXCEPT !.entries[
                        CurrentEntry(Base(start - 1) + (pr.undone + 1) * BLOCK_SIZE)].value = null]
    BY <1>0, RewindBlockFields DEF RewindBlock, Rewound
  <1>2. index.headers # <<>>
    <2>1. pr.chain \in Seq(Blocks) /\ pr.undone \in Nat
      BY <1>0, TailNoFacts
    <2>2. pr.chain # <<>>
      BY <1>1, <2>1
    <2> QED
      BY <1>0, <2>2 DEF ProducerInv
  <1>3. PICK L \in Int, l \in Nat, u \in Nat :
           /\ L = LastNo /\ l = Len(pr.chain) /\ u = pr.undone /\ u < l /\ L >= -1
           /\ Base(start - 1) = KeyOf(L) % IndexMod
    BY <1>0, <1>1, TailNoFacts, ProducerFacts
  <1>4. PICK n \in Int : n = TailNo /\ n = L + l - u /\ n >= 0 /\ InsertedNo = L + l
    BY <1>1, <1>3 DEF TailNo, InsertedNo
  <1>5. LastNo' = L /\ TailNo' = n - 1 /\ InsertedNo' = InsertedNo /\ First' = First
    <2>1. LastNo' = L
      BY <1>1, <1>3 DEF LastNo
    <2>2. (IF pr'.inserted THEN 1 ELSE 0) = 0
          /\ (IF pr'.inserted \/ pr'.pc = "tail" THEN 1 ELSE 0) = 0
      BY <1>1
    <2>3. Len(pr'.chain) = l /\ pr'.undone = u + 1
      BY <1>1, <1>3
    <2>4. L + l - (u + 1) + 0 = n - 1 /\ L + l + 0 = L + l
      BY <1>4
    <2>5. TailNo' = n - 1 /\ InsertedNo' = L + l
      BY <2>1, <2>2, <2>3, <2>4, Zenon DEF TailNo, InsertedNo
    <2>6. First' = First
      BY <1>1 DEF First
    <2> QED
      BY <1>4, <2>1, <2>5, <2>6
  <1>6. PICK x0 \in Owned : /\ x0 = L + u + 1 /\ x0 \in Nat /\ 2 * KeyOf(x0) < IndexMod
                            /\ x0 \in ChainNos(LastNo, pr.chain, pr.undone)
    <2>1. L + u + 1 \in ChainNos(LastNo, pr.chain, pr.undone)
      BY <1>3 DEF ChainNos
    <2> QED
      BY <1>0, <2>1, OwnedFacts DEF Owned
  <1>7. Keyed(index, Entry(off, index, n), n)
    <2>1. Inserted(off, index, LastNo, InsertedNo)
      BY IndexParts
    <2>2. n \in (LastNo + 1)..InsertedNo
      BY <1>3, <1>4
    <2> QED
      BY <2>1, <2>2 DEF Inserted
  <1>8. PICK e \in 1..Len(index.entries) :
           /\ e = Entry(off, index, x0)
           /\ e = CurrentEntry(Base(start - 1) + (pr.undone + 1) * BLOCK_SIZE)
    <2>1. PICK i : i = Base(start - 1) + (pr.undone + 1) * BLOCK_SIZE
      OBVIOUS
    <2>2. KeyOf(x0) < IndexMod
      <3>1. KeyOf(x0) \in Nat
        <4>1. x0 \in Int /\ x0 >= 0
          BY <1>6
        <4> QED
          BY <4>1, KeyType
      <3>2. IndexMod \in Nat
        BY SizesAssumption
      <3> QED
        BY <1>6, <3>1, <3>2
    <2>3. Base(i) = KeyOf(x0)
      <3>1. L + u + 1 \in Nat /\ KeyOf(L + u + 1) < IndexMod
        BY <1>6, <2>2, Zenon
      <3>2. Base(Base(start - 1) + (u + 1) * BLOCK_SIZE) = KeyOf(L + u + 1)
        BY <1>3, <3>1, RewoundBase
      <3> QED
        BY <1>3, <1>6, <2>1, <3>2, Zenon
    <2>4. CurrentEntry(i) = Entry(off, index, x0)
      BY <1>2, <1>4, <1>6, <1>7, <2>3, CurrentNumber
    <2>5. Entry(off, index, x0) \in 1..Len(index.entries)
      BY HomeFacts
    <2> QED
      BY <2>1, <2>4, <2>5
  <1>9. PICK d \in Int : d = -1
    BY Zenon, Negative
  <1>10. PICK J : /\ J = index' /\ IsIndex(J) /\ SameRings(index, J) /\ SameKeys(index, J)
                  /\ J.headers[Len(index.headers)].tail = (header.tail + d) % header.capacity
                  /\ Value(J, e) = null
                  /\ \A f \in 1..Len(index.entries) : f # e => Value(J, f) = Value(index, f)
    <2>1. IsIndex(index)
      BY <1>0 DEF TypeInv
    <2>2. PICK K : K = index' /\ RewoundTo(K, d, e)
      BY <1>1, <1>8, <1>9, Zenon DEF RewoundTo
    <2>3. /\ IsIndex(K) /\ SameRings(index, K) /\ SameKeys(index, K)
          /\ K.headers[Len(index.headers)].tail = (header.tail + d) % header.capacity
          /\ Value(K, e) = null
          /\ \A f \in 1..Len(index.entries) : f # e => Value(K, f) = Value(index, f)
      BY <1>2, <2>1, <2>2, RewoundIndex
    <2> QED
      BY <2>2, <2>3, Zenon
  <1>11. /\ Aligned(off, J) /\ HeadersOK(J) /\ off \in Offsets(J)
         /\ Window(off, J, n - 1) /\ Reach(off, J, co)
         /\ Inserted(off, J, LastNo, InsertedNo)
         /\ \A x : Entry(off, J, x) = Entry(off, index, x)
         /\ \A x \in Owned : /\ Keyed(J, Entry(off, J, x), x)
                             /\ Entry(off, index, x) \in 1..Len(index.entries)
         /\ \A x, y \in Owned : Entry(off, index, x) = Entry(off, index, y) => x = y
    <2>1. TailNo >= 0 /\ Keyed(index, Entry(off, index, TailNo), TailNo)
      BY <1>4, <1>7
    <2>2. /\ Aligned(off, J) /\ HeadersOK(J) /\ off \in Offsets(J)
          /\ Window(off, J, TailNo + d) /\ Reach(off, J, co)
          /\ \A m \in Int : m <= InsertedNo => Inserted(off, J, LastNo, m)
          /\ \A x : Entry(off, J, x) = Entry(off, index, x)
          /\ \A x \in Owned : /\ Keyed(J, Entry(off, J, x), x)
                              /\ Entry(off, index, x) \in 1..Len(index.entries)
          /\ \A x, y \in Owned : Entry(off, index, x) = Entry(off, index, y) => x = y
      BY <1>2, <1>9, <1>10, <2>1, TailStep
    <2>3. TailNo + d = n - 1
      BY <1>4, <1>9
    <2>4. InsertedNo \in Int /\ InsertedNo <= InsertedNo
      BY <1>4
    <2> QED
      BY <2>2, <2>3, <2>4
  <1>12. PICK b \in Blocks : b = Home(off, index, x0) /\ b = pr.chain[u + 1]
    <2>1. Home(off, index, x0) \in Blocks
      BY HomeFacts
    <2>2. PICK k \in 1..Len(pr.chain) : k = u + 1 /\ k > pr.undone
      BY <1>3
    <2>3. Home(off, index, LastNo + k) = pr.chain[k]
      BY <2>2, IndexParts DEF Chained
    <2>4. LastNo + k = x0
      BY <1>3, <1>6, <2>2
    <2> QED
      BY <2>1, <2>2, <2>3, <2>4
  <1>13. /\ Links(off, J, Owned \ {x0})
         /\ \A x \in Owned \ {x0} : Home(off, J, x) = Home(off, index, x)
         /\ Valued(J) = Valued(index) \ {b} /\ b \in Valued(index)
    <2>1. Links(off, index, Owned)
      BY IndexParts
    <2>2. Value(J, Entry(off, index, x0)) = null
      BY <1>8, <1>10
    <2>3. \A f \in 1..Len(index.entries) : f # Entry(off, index, x0) => Value(J, f) = Value(index, f)
      BY <1>8, <1>10
    <2>4. \A x \in Owned : /\ Entry(off, J, x) = Entry(off, index, x)
                            /\ Keyed(J, Entry(off, J, x), x)
                            /\ Entry(off, index, x) \in 1..Len(index.entries)
      BY <1>11
    <2>5. /\ Links(off, J, Owned \ {x0})
          /\ \A x \in Owned \ {x0} : Home(off, J, x) = Home(off, index, x)
          /\ Valued(J) = Valued(index) \ {Home(off, index, x0)}
          /\ Home(off, index, x0) \in Valued(index)
      <3>1. Len(J.entries) = Len(index.entries)
        BY <1>10 DEF SameKeys
      <3>2. \A x, y \in Owned : Entry(off, index, x) = Entry(off, index, y) => x = y
        BY <1>11
      <3> QED
        BY <2>1, <2>2, <2>3, <2>4, <3>1, <3>2, ValueRemoved, Zenon
    <2> QED
      BY <1>12, <2>5
  <1>14. Owned' = Owned \ {x0}
    <2>1. ChainNos(LastNo', pr'.chain, pr'.undone) = ChainNos(LastNo, pr.chain, pr.undone) \ {x0}
      <3>1. ChainNos(LastNo', pr'.chain, pr'.undone) = (L + (u + 1) + 1)..(L + l)
        BY <1>1, <1>3, <1>5 DEF ChainNos
      <3>2. ChainNos(LastNo, pr.chain, pr.undone) = (L + u + 1)..(L + l)
        BY <1>3 DEF ChainNos
      <3> QED
        BY <1>6, <3>1, <3>2
    <2>2. x0 \notin Linked(q.tailIndex, q.headIndex, co)
      <3>1. x0 \in Linked(q.tailIndex, q.headIndex, co) => x0 <= LastNo
        BY <1>0, OwnedFacts
      <3> QED
        BY <1>3, <1>6, <3>1
    <2> QED
      BY <1>1, <2>1, <2>2 DEF Owned
  <1>15. Present' = Present
    BY <1>1, NothingFilled
  <1>16. Chained(off, J, Owned \ {x0}, LastNo, pr.chain, u + 1, First)
    <2>1. Chained(off, index, Owned, LastNo, pr.chain, pr.undone, First)
      BY IndexParts
    <2>2. \A k \in 1..Len(pr.chain) : k > u + 1 => LastNo + k \in Owned \ {x0} /\ k > pr.undone
      <3>1. \A k \in 1..Len(pr.chain) : k > u + 1 =>
               LastNo + k \in ChainNos(LastNo, pr.chain, pr.undone) /\ LastNo + k # x0 /\ k > pr.undone
        <4>1. PICK z \in Int : z = x0 /\ z = L + u + 1
          BY <1>6
        <4>2. \A k \in 1..l : k > u + 1 =>
                 L + k \in (L + u + 1)..(L + l) /\ L + k # z /\ k > u
          BY <1>3, <4>1
        <4> QED
          BY <1>3, <4>1, <4>2 DEF ChainNos
      <3> QED
        BY <3>1 DEF Owned
    <2> QED
      BY <1>13, <2>1, <2>2 DEF Chained
  <1>17. Used(J, block, co, pr.chain, u + 1) /\ Pool(block, q.poolIndex)
    <2>1. Used(index, block, co, pr.chain, pr.undone) /\ Pool(block, q.poolIndex)
      BY IndexParts
    <2>2. Undone(pr.chain, u + 1) = Undone(pr.chain, pr.undone) \cup {b}
      <3>1. 1..(u + 1) = (1..u) \cup {u + 1}
        OBVIOUS
      <3> QED
        BY <1>3, <1>12, <3>1 DEF Undone
    <2>3. b \notin Released(co) /\ b \notin Undone(pr.chain, pr.undone)
      BY <1>13, <2>1 DEF Used
    <2>4. Valued(J) \cup Undone(pr.chain, u + 1) = Valued(index) \cup Undone(pr.chain, pr.undone)
      BY <1>13, <2>2
    <2>5. /\ Valued(J) \cap Undone(pr.chain, u + 1) = {}
          /\ Valued(J) \cap Released(co) = {}
          /\ Undone(pr.chain, u + 1) \cap Released(co) = {}
      BY <1>13, <2>1, <2>2, <2>3 DEF Used
    <2>6. \A x \in Blocks : block[x].state = "used" <=>
             x \in Valued(J) \cup Undone(pr.chain, u + 1) \cup Released(co)
      BY <2>1, <2>4 DEF Used
    <2> QED
      BY <2>1, <2>5, <2>6 DEF Used
  <1>18. Counts(off, J, block, Owned \ {x0}, q.headIndex, co)
    BY <1>13, IndexParts DEF Counts
  <1>19. Contents(off, J, block, Owned \ {x0}, Present)
    <2>1. Contents(off, index, block, Owned, Present)
      BY IndexParts
    <2>2. block[b].elements = NoElements
      BY <1>1, <1>6, <1>12, AllocatedIsEmpty
    <2> QED
      BY <1>13, <2>1, <2>2 DEF Contents
  <1>20. off \in [1..Len(J.headers) -> Int]
    BY <1>11 DEF Offsets
  <1> QED
    BY <1>1, <1>3, <1>5, <1>10, <1>11, <1>13, <1>14, <1>15, <1>16, <1>17, <1>18, <1>19, <1>20
    DEF BlockInv, IndexInv, DataInv
\* A block goes into an entry.
StoresBlock(e, b) ==
    \E J : /\ J = index' /\ IsIndex(J) /\ J.headers = index.headers
           /\ Len(J.entries) = Len(index.entries)
           /\ Value(J, e) = b /\ SameKeys(index, J)
           /\ \A f \in 1..Len(index.entries) : f # e => Value(J, f) = Value(index, f)

LEMMA BlockStored ==
  ASSUME IsIndex(index), NEW e \in 1..Len(index.entries), NEW b \in Blocks,
         index' = [index EXCEPT !.entries[e].value = b]
  PROVE  StoresBlock(e, b)
  <1>1. PICK v \in 0..MaxBlocks : v = b
    BY SizesAssumption DEF Blocks
  <1>2. PICK J : J = WithValue(index, e, v)
    OBVIOUS
  <1>3. /\ IsIndex(J) /\ J.headers = index.headers /\ Len(J.entries) = Len(index.entries)
        /\ SameKeys(index, J) /\ Value(J, e) = v
        /\ \A f \in 1..Len(index.entries) : f # e => Value(J, f) = Value(index, f)
    BY <1>2, ValueStored
  <1>4. J = index'
    BY <1>1, <1>2, Zenon DEF WithValue
  <1> QED
    BY <1>1, <1>3, <1>4 DEF StoresBlock


\* A block that can be obtained is nobody's.
LEMMA ObtainableFacts ==
  ASSUME CInv, NEW off, BlockInv(off), NEW b \in Blocks, b \in Obtainable
  PROVE  /\ block[b].state # "used" /\ block[b].elements = NoElements
         /\ b \notin Valued(index) /\ b \notin Released(co)
         /\ q.poolIndex < PoolSize => b = q.poolIndex + 1
         /\ q.poolIndex >= PoolSize => block[b].state # "pool"
  <1>0. TypeInv
    BY DEF CInv
  <1>1. PICK p \in Nat, n \in Nat : p = q.poolIndex /\ n = PoolSize
    BY <1>0, SizesAssumption DEF TypeInv, QType
  <1>2. Used(index, block, co, pr.chain, pr.undone) /\ Pool(block, p)
    BY <1>1, IndexParts
  <1>3. CASE p < n
    <2>1. b = p + 1
      BY <1>1, <1>3 DEF Obtainable
    <2>2. b > p /\ b <= n
      BY <1>3, <2>1
    <2>3. block[b].state = "pool"
      BY <1>1, <1>2, <2>2 DEF Pool
    <2> QED
      BY <1>1, <1>2, <1>3, <2>1, <2>3, IndexParts DEF Used, Contents
  <1>4. CASE ~(p < n)
    <2>1. block[b].state \in {"free", "none"}
      BY <1>1, <1>4 DEF Obtainable, BlocksIn
    <2> QED
      BY <1>1, <1>2, <1>4, <2>1, IndexParts DEF Used, Contents
  <1> QED
    BY <1>3, <1>4

LEMMA RequisitionBlockKeeps ==
  ASSUME CInv, NEW b \in Blocks, RequisitionBlock(b), NEW off, BlockInv(off)
  PROVE  BlockInv(off)'
  <1>0. TypeInv /\ ProducerInv
    BY DEF CInv
  <1>1. /\ UNCHANGED co /\ pr.pc = "requisition" /\ b \in Obtainable
        /\ pr'.pc \in {"fill", "index"} /\ pr'.chain = Append(pr.chain, b)
        /\ pr'.undone = pr.undone /\ pr'.inserted = FALSE /\ pr'.startBlock = pr.startBlock
        /\ q'.tailIndex = q.tailIndex /\ q'.headIndex = q.headIndex
        /\ q'.poolIndex = IF q.poolIndex < PoolSize THEN q.poolIndex + 1 ELSE q.poolIndex
        /\ index' = [index EXCEPT !.entries[CurrentEntry(NextBase)].value = b]
    <2>1. /\ q'.tailIndex = q.tailIndex /\ q'.headIndex = q.headIndex
          /\ q'.poolIndex = IF q.poolIndex < PoolSize THEN q.poolIndex + 1 ELSE q.poolIndex
      BY <1>0 DEF RequisitionBlock, TypeInv, QType
    <2>2. /\ pr'.pc \in {"fill", "index"} /\ pr'.chain = Append(pr.chain, b)
          /\ pr'.undone = pr.undone /\ pr'.inserted = FALSE /\ pr'.startBlock = pr.startBlock
      BY <1>0, RequisitionBlockFields
    <2> QED
      BY <2>1, <2>2 DEF RequisitionBlock
  <1>2. index.headers # <<>> /\ pr.inserted
    BY <1>0, <1>1 DEF ProducerInv
  <1>3. PICK L \in Int, l \in Nat : L = LastNo /\ l = Len(pr.chain) /\ pr.undone = 0 /\ L >= -1
                                    /\ NextBase = KeyOf(L + l + 1)
    <2>1. pr.undone = 0
      <3>1. pr.undone \in Nat
        BY <1>0, TailNoFacts
      <3> QED
        BY <1>0, <1>1, <3>1 DEF ProducerInv
    <2> QED
      BY <1>0, <1>1, <2>1, TailNoFacts, ProducerFacts DEF FilledNo
  <1>4. PICK x0 \in Nat : /\ x0 = L + l + 1 /\ x0 = TailNo /\ x0 = InsertedNo
                          /\ 2 * KeyOf(x0) < IndexMod /\ x0 \in Int /\ x0 > LastNo
    <2>1. L + l + 1 = TailNo /\ L + l + 1 = InsertedNo /\ L + l + 1 \in Nat /\ L + l + 1 > LastNo
      BY <1>2, <1>3 DEF TailNo, InsertedNo
    <2> QED
      BY <1>0, <2>1, TailNoFacts
  <1>5. LastNo' = L /\ TailNo' = TailNo /\ InsertedNo' = InsertedNo /\ First' = First
    <2>1. LastNo' = L
      BY <1>1, <1>3 DEF LastNo
    <2>2. (IF pr'.inserted THEN 1 ELSE 0) = 0
          /\ (IF pr'.inserted \/ pr'.pc = "tail" THEN 1 ELSE 0) = 0
      BY <1>1
    <2>3. Len(pr'.chain) = l + 1 /\ pr'.undone = 0
      <3>1. pr.chain \in Seq(Blocks)
        BY <1>0, TailNoFacts
      <3>2. Len(Append(pr.chain, b)) = Len(pr.chain) + 1
        BY <3>1
      <3> QED
        BY <1>1, <1>3, <3>2
    <2>4. L + (l + 1) - 0 + 0 = L + l + 1 /\ L + (l + 1) + 0 = L + l + 1
      BY <1>3
    <2>5. TailNo' = L + l + 1 /\ InsertedNo' = L + l + 1
      BY <2>1, <2>2, <2>3, <2>4, Zenon DEF TailNo, InsertedNo
    <2>6. First' = First
      BY <1>1 DEF First
    <2> QED
      BY <1>4, <2>1, <2>5, <2>6
  <1>6. Keyed(index, Entry(off, index, x0), x0)
    <2>1. Inserted(off, index, LastNo, InsertedNo)
      BY IndexParts
    <2>2. x0 \in (LastNo + 1)..InsertedNo
      BY <1>3, <1>4
    <2> QED
      BY <2>1, <2>2 DEF Inserted
  <1>7. x0 \notin Owned
    <2>1. ASSUME x0 \in Owned PROVE FALSE
      <3>1. x0 \in Linked(q.tailIndex, q.headIndex, co) => x0 <= L
        BY <1>0, <1>3, <2>1, OwnedFacts
      <3>2. x0 \in ChainNos(LastNo, pr.chain, pr.undone) => x0 <= L + l
        BY <1>3 DEF ChainNos
      <3> QED
        BY <1>3, <1>4, <2>1, <3>1, <3>2 DEF Owned
    <2> QED
      BY <2>1
  <1>8. PICK e \in 1..Len(index.entries) :
           /\ e = Entry(off, index, x0) /\ e = CurrentEntry(NextBase) /\ Value(index, e) = null
           /\ \A x \in Owned : Entry(off, index, x) # e
    <2>1. KeyOf(x0) < IndexMod
      <3>1. KeyOf(x0) \in Nat
        <4>1. x0 \in Int /\ x0 >= 0
          BY <1>4
        <4> QED
          BY <4>1, KeyType
      <3>2. IndexMod \in Nat
        BY SizesAssumption
      <3> QED
        BY <1>4, <3>1, <3>2
    <2>2. Base(NextBase) = KeyOf(x0)
      <3>1. Base(KeyOf(x0)) = KeyOf(x0)
        BY <2>1, BaseOfKey
      <3> QED
        BY <1>3, <1>4, <3>1, Zenon
    <2>3. TailNo >= 0 /\ Keyed(index, Entry(off, index, TailNo), TailNo)
      BY <1>4, <1>6
    <2>4. CurrentEntry(NextBase) = Entry(off, index, x0)
      BY <1>2, <1>4, <2>2, <2>3, CurrentNumber
    <2> QED
      BY <1>2, <1>4, <1>6, <1>7, <2>4, VacantNumber
  <1>9. PICK J : /\ J = index' /\ IsIndex(J) /\ J.headers = index.headers
                 /\ Len(J.entries) = Len(index.entries)
                 /\ Value(J, e) = b /\ SameKeys(index, J)
                 /\ \A f \in 1..Len(index.entries) : f # e => Value(J, f) = Value(index, f)
    <2>1. IsIndex(index) /\ b \in Blocks
      BY <1>0 DEF TypeInv
    <2>2. index' = [index EXCEPT !.entries[e].value = b]
      BY <1>1, <1>8
    <2>3. StoresBlock(e, b)
      BY <2>1, <2>2, BlockStored
    <2> QED
      BY <2>3 DEF StoresBlock
  <1>10. /\ SameRings(index, J) /\ Aligned(off, J) /\ HeadersOK(J) /\ off \in Offsets(J)
         /\ Window(off, J, TailNo) /\ Inserted(off, J, LastNo, InsertedNo)
         /\ Reach(off, J, co)
         /\ \A x : Entry(off, J, x) = Entry(off, index, x)
         /\ \A x \in Owned : /\ Keyed(J, Entry(off, J, x), x)
                             /\ Entry(off, index, x) \in 1..Len(index.entries)
    BY <1>2, <1>9, ValueStep
  <1>11. /\ block[b].state # "used" /\ block[b].elements = NoElements
         /\ b \notin Valued(index) /\ b \notin Released(co)
         /\ q.poolIndex < PoolSize => b = q.poolIndex + 1
         /\ q.poolIndex >= PoolSize => block[b].state # "pool"
    BY <1>1, ObtainableFacts
  <1>12. /\ Links(off, J, Owned \cup {x0})
         /\ \A x \in Owned : Home(off, J, x) = Home(off, index, x)
         /\ Home(off, J, x0) = b /\ Valued(J) = Valued(index) \cup {b}
    <2>1. Links(off, index, Owned)
      BY IndexParts
    <2>2. Keyed(J, e, x0) /\ e = Entry(off, J, x0)
      <3>1. Entry(off, J, x0) = e
        BY <1>8, <1>10
      <3> QED
        BY <1>6, <1>8, <1>9, <3>1, SameKeyed
    <2>3. \A x \in Owned : /\ Entry(off, J, x) = Entry(off, index, x)
                           /\ Keyed(J, Entry(off, J, x), x)
                           /\ Entry(off, index, x) \in 1..Len(index.entries)
                           /\ Entry(off, index, x) # e
      BY <1>8, <1>10
    <2>4. b # null /\ Len(J.entries) = Len(index.entries)
      BY <1>9 DEF Blocks, null
    <2>5. b \notin Valued(index)
      BY <1>11
    <2>6. Value(index, e) = null /\ Value(J, e) = b /\ e = Entry(off, index, x0)
      BY <1>8, <1>9
    <2>7. \A f \in 1..Len(index.entries) : f # e => Value(J, f) = Value(index, f)
      BY <1>9
    <2>8. PICK more : more = Owned \cup {x0}
      OBVIOUS
    <2>9. \A x : x \in more <=> x \in Owned \/ x = x0
      BY <2>8
    <2>10. Gains(off, index, Owned, J, x0, e, b, more)
      BY <2>1, <2>2, <2>3, <2>4, <2>5, <2>6, <2>7, <2>9 DEF Gains
    <2>11. Gained(off, index, Owned, J, x0, b, more)
      BY <2>10, ValueAdded
    <2>12. Valued(J) = Valued(index) \cup {b}
      BY <2>11 DEF Gained
    <2> QED
      BY <2>8, <2>11, <2>12 DEF Gained
  <1>13. Owned' = Owned \cup {x0}
    <2>1. ChainNos(LastNo', pr'.chain, pr'.undone) = ChainNos(LastNo, pr.chain, pr.undone) \cup {x0}
      <3>1. ChainNos(LastNo', pr'.chain, pr'.undone) = (L + 1)..(L + l + 1)
        <4>1. pr.chain \in Seq(Blocks)
          BY <1>0, TailNoFacts
        <4>2. Len(pr'.chain) = l + 1
          BY <1>1, <1>3, <4>1
        <4> QED
          BY <1>1, <1>3, <1>5, <4>2 DEF ChainNos
      <3>2. ChainNos(LastNo, pr.chain, pr.undone) = (L + 1)..(L + l)
        BY <1>3 DEF ChainNos
      <3> QED
        BY <1>4, <3>1, <3>2
    <2> QED
      BY <1>1, <2>1 DEF Owned
  <1>14. Present' = Present
    BY <1>1, NothingFilled
  <1>15. /\ BlockType'
         /\ \A x \in Blocks : x # b => block'[x] = block[x]
         /\ block'[b].state = "used" /\ block'[b].elementsCompletelyDequeued = 0
         /\ block'[b].elements = block[b].elements
    BY <1>0, RequisitionBlockBlocks
  <1>16. \A k \in 1..Len(pr'.chain) :
            \/ k \in 1..Len(pr.chain) /\ pr'.chain[k] = pr.chain[k] /\ k > pr.undone
            \/ k = l + 1 /\ pr'.chain[k] = b
    <2>1. pr.chain \in Seq(Blocks)
      BY <1>0, TailNoFacts
    <2> QED
      BY <1>1, <1>3, <2>1
  <1>17. \A k \in 1..Len(pr.chain) : /\ LastNo + k \in Owned
                                     /\ Home(off, index, LastNo + k) = pr.chain[k]
                                     /\ pr.chain[k] # b
    <2>1. Chained(off, index, Owned, LastNo, pr.chain, pr.undone, First)
      BY IndexParts
    <2>2. ASSUME NEW k \in 1..Len(pr.chain) PROVE LastNo + k \in Owned /\ k > pr.undone
      <3>1. LastNo + k \in ChainNos(LastNo, pr.chain, pr.undone) /\ k > pr.undone
        BY <1>3 DEF ChainNos
      <3> QED
        BY <3>1 DEF Owned
    <2> QED
      BY <1>11, <2>1, <2>2, HomeFacts DEF Chained
  <1>18. Chained(off, J, Owned \cup {x0}, LastNo, pr'.chain, pr'.undone, First)
    <2>1. Chained(off, index, Owned, LastNo, pr.chain, pr.undone, First)
      BY IndexParts
    <2>2. ASSUME NEW k \in 1..Len(pr'.chain) PROVE Home(off, J, LastNo + k) = pr'.chain[k]
      <3>1. CASE k = l + 1 /\ pr'.chain[k] = b
        <4>1. LastNo + k = x0
          BY <1>3, <1>4, <3>1
        <4> QED
          BY <1>12, <3>1, <4>1
      <3>2. CASE k \in 1..Len(pr.chain) /\ pr'.chain[k] = pr.chain[k]
        BY <1>12, <1>17, <3>2
      <3> QED
        BY <1>16, <3>1, <3>2
    <2>3. ASSUME LastNo \in Owned \cup {x0} PROVE Home(off, J, LastNo) = First
      <3>1. LastNo # x0
        BY <1>3, <1>4
      <3> QED
        BY <1>12, <2>1, <2>3, <3>1 DEF Chained
    <2> QED
      BY <2>2, <2>3 DEF Chained
  <1>19. Used(J, block', co, pr'.chain, pr'.undone)
    <2>1. Used(index, block, co, pr.chain, pr.undone)
      BY IndexParts
    <2>2. Undone(pr'.chain, pr'.undone) = {} /\ Undone(pr.chain, pr.undone) = {}
      BY <1>1, <1>3 DEF Undone
    <2>3. \A x \in Blocks : block'[x].state = "used" <=>
             x \in Valued(J) \cup Undone(pr'.chain, pr'.undone) \cup Released(co)
      BY <1>12, <1>15, <2>1, <2>2 DEF Used
    <2>4. Valued(J) \cap Released(co) = {}
      BY <1>11, <1>12, <2>1 DEF Used
    <2>5. \A j, k \in 1..Len(pr'.chain) : j # k => pr'.chain[j] # pr'.chain[k]
      BY <1>16, <1>17, <2>1 DEF Used
    <2> QED
      BY <2>1, <2>2, <2>3, <2>4, <2>5 DEF Used
  <1>20. Pool(block', q'.poolIndex)
    <2>1. PICK p \in Nat, n \in Nat : p = q.poolIndex /\ n = PoolSize
      BY <1>0, SizesAssumption DEF TypeInv, QType
    <2>2. Pool(block, p)
      BY <2>1, IndexParts
    <2>3. Blocks \subseteq Nat
      BY SizesAssumption DEF Blocks
    <2>4. \A x \in Blocks : block'[x].state = "pool" <=> x # b /\ x > p /\ x <= n
      BY <1>15, <2>1, <2>2 DEF Pool
    <2>5. CASE p < n
      <3>1. b = p + 1 /\ q'.poolIndex = p + 1
        BY <1>1, <1>11, <2>1, <2>5
      <3>2. \A x \in Nat : x # p + 1 /\ x > p <=> x > p + 1
        OBVIOUS
      <3> QED
        BY <2>1, <2>3, <2>4, <3>1, <3>2 DEF Pool
    <2>6. CASE ~(p < n)
      <3>1. q'.poolIndex = p
        BY <1>1, <2>1, <2>6
      <3>2. \A x \in Nat : ~(x > p /\ x <= n)
        BY <2>6
      <3> QED
        BY <2>1, <2>3, <2>4, <3>1, <3>2 DEF Pool
    <2> QED
      BY <2>5, <2>6
  <1>21. \A x \in Owned : Home(off, index, x) \in Blocks /\ Home(off, index, x) # b
    BY <1>11, HomeFacts
  <1>22. Counts(off, J, block', Owned \cup {x0}, q.headIndex, co)
    <2>1. Counts(off, index, block, Owned, q.headIndex, co)
      BY IndexParts
    <2>2. Holders(co, x0) = {} /\ q.headIndex <= KeyOf(x0)
      BY <1>4, AboveLast
    <2>3. Out(q.headIndex, x0) = 0
      <3>1. q.headIndex \in Nat
        BY <1>0 DEF TypeInv, QType
      <3> QED
        BY <1>4, <2>2, <3>1, OutStep
    <2>4. Cardinality(Holders(co, x0)) = 0
      BY <2>2, PlacesType
    <2>5. 0 + 0 = 0
      OBVIOUS
    <2>6. block'[Home(off, J, x0)].elementsCompletelyDequeued + Cardinality(Holders(co, x0))
             = Out(q.headIndex, x0)
      BY <1>12, <1>15, <2>3, <2>4, <2>5, Zenon
    <2>7. \A x \in Owned :
             block'[Home(off, J, x)].elementsCompletelyDequeued + Cardinality(Holders(co, x))
                = Out(q.headIndex, x)
      BY <1>12, <1>15, <1>21, <2>1 DEF Counts
    <2> QED
      BY <2>1, <2>6, <2>7 DEF Counts
  <1>23. Contents(off, J, block', Owned \cup {x0}, Present)
    <2>1. Contents(off, index, block, Owned, Present)
      BY IndexParts
    <2>2. \A s \in 0..(BLOCK_SIZE - 1) :
             KeyOf(x0) + s \notin Present /\ block'[b].elements[s] = None
      <3>1. \A s \in 0..(BLOCK_SIZE - 1) : NoElements[s] = None
        BY DEF NoElements
      <3> QED
        BY <1>1, <1>4, <1>11, <1>15, <3>1, AboveIsAbsent
    <2>3. \A x \in Owned : \A s \in 0..(BLOCK_SIZE - 1) :
             block'[Home(off, J, x)].elements[s] =
                IF KeyOf(x) + s \in Present THEN KeyOf(x) + s ELSE None
      BY <1>12, <1>15, <1>21, <2>1 DEF Contents
    <2>4. \A x \in Blocks \ Valued(J) : block'[x].elements = NoElements
      BY <1>12, <1>15, <2>1 DEF Contents
    <2> QED
      BY <1>12, <2>2, <2>3, <2>4 DEF Contents
  <1> QED
    BY <1>1, <1>3, <1>5, <1>9, <1>10, <1>12, <1>13, <1>14, <1>18, <1>19, <1>20, <1>22, <1>23
    DEF BlockInv, IndexInv, DataInv, Offsets

LEMMA KeyStored ==
  ASSUME NEW I, IsIndex(I), NEW e \in 1..Len(I.entries), NEW k \in Nat,
         NEW J, J = [I EXCEPT !.entries[e].key = k]
  PROVE  /\ IsIndex(J) /\ J.headers = I.headers /\ Len(J.entries) = Len(I.entries)
         /\ J.entries[e].key = k
         /\ \A f \in 1..Len(I.entries) : f # e => J.entries[f].key = I.entries[f].key
         /\ \A f \in 1..Len(I.entries) : Value(J, f) = Value(I, f)
  <1> DEFINE K == [I EXCEPT !.entries[e].key = k]
  <1>1. /\ IsIndex(K) /\ K.headers = I.headers /\ Len(K.entries) = Len(I.entries)
        /\ K.entries[e].key = k
        /\ \A f \in 1..Len(I.entries) : /\ K.entries[f].value = I.entries[f].value
                                        /\ f # e => K.entries[f].key = I.entries[f].key
    BY KeySet
  <1>2. J = K
    OBVIOUS
  <1> HIDE DEF K
  <1> QED
    BY <1>1, <1>2 DEF Value

\* The number that insert_block_index_entry is about to enter.
LEMMA NextNumber ==
  ASSUME CInv, pr.pc = "index", NEW off, BlockInv(off), index.headers # <<>>
  PROVE  /\ TailNo = LastNo + Len(pr.chain) /\ InsertedNo = TailNo
         /\ pr.undone = 0 /\ ~pr.inserted
         /\ TailNo \in Int /\ LastNo \in Int /\ LastNo <= TailNo
         /\ TailNo + 1 \in Nat /\ 2 * KeyOf(TailNo + 1) < IndexMod
         /\ NextBase = KeyOf(TailNo + 1)
         /\ NextEntry = Entry(off, index, TailNo + 1)
  <1>0. TypeInv /\ ProducerInv
    BY DEF CInv
  <1>1. PICK L \in Int, l \in Nat : L = LastNo /\ l = Len(pr.chain) /\ pr.undone = 0 /\ ~pr.inserted
    <2>1. pr.undone = 0 /\ ~pr.inserted
      <3>1. pr.undone \in Nat
        BY <1>0, TailNoFacts
      <3> QED
        BY <1>0, <3>1 DEF ProducerInv
    <2> QED
      BY <1>0, <2>1, TailNoFacts
  <1>2. PICK n \in Int : n = TailNo /\ n = InsertedNo /\ n = L + l
    BY <1>1 DEF TailNo, InsertedNo
  <1>3. PICK x \in Nat : x = n + 1 /\ NextBase = KeyOf(x)
    BY <1>0, <1>1, <1>2, ProducerFacts DEF FilledNo
  <1>4. 2 * KeyOf(x) < IndexMod
    <2>1. PICK i \in Int : i = q.tailIndex + pr.count - 1 /\ 2 * i < IndexMod
      <3>1. PICK t \in Nat, k \in Nat, M \in Nat : /\ t = q.tailIndex /\ k = pr.count
                                                  /\ M = IndexMod /\ 2 * (t + k) < M
        BY <1>0, ProducerFacts, SizesAssumption
      <3>2. t + k - 1 \in Int /\ 2 * (t + k - 1) < M
        BY <3>1
      <3> QED
        BY <3>1, <3>2
    <2>2. L + l < No(i)
      BY <1>0, <1>1, <2>1 DEF ProducerInv
    <2>3. No(i) \in Int /\ KeyOf(No(i)) <= i
      BY NoFacts
    <2>4. x <= No(i) /\ x \in Int
      BY <1>2, <1>3, <2>2, <2>3
    <2>5. KeyOf(x) <= KeyOf(No(i))
      BY <2>3, <2>4, KeyMono
    <2>6. KeyOf(x) \in Int /\ KeyOf(No(i)) \in Int /\ IndexMod \in Nat
      BY <2>3, <2>4, KeyType, SizesAssumption
    <2> QED
      BY <2>1, <2>3, <2>5, <2>6
  <1>5. NextEntry = Entry(off, index, x)
    <2>1. IsIndex(index) /\ off \in Offsets(index) /\ Window(off, index, TailNo)
      BY IndexParts
    <2>2. PICK c \in Nat, o \in Int : /\ c = Cap(index) /\ c > 0 /\ o = off[Len(index.headers)]
                                      /\ c = header.capacity
      <3>1. Len(index.headers) \in 1..Len(index.headers) /\ Cap(index) \in Nat /\ Cap(index) > 0
        BY <2>1, HeaderFacts
      <3>2. off[Len(index.headers)] \in Int
        BY <2>1, <3>1 DEF Offsets
      <3> QED
        BY <3>1, <3>2 DEF Cap, header
    <2>3. header.tail = Pos(o, c, n)
      <3>1. TailAt(off, index, TailNo)
        BY <2>1, WindowParts
      <3> QED
        BY <1>2, <2>2, <3>1 DEF TailAt, header
    <2>4. (header.tail + 1) % header.capacity = Pos(o, c, x)
      <3>1. (Pos(o, c, n) + (x - n)) % c = Pos(o, c, x)
        <4>1. x \in Int /\ c > 0
          BY <2>2
        <4> QED
          BY <4>1, PosShift
      <3>2. x - n = 1
        BY <1>3
      <3> QED
        BY <2>2, <2>3, <3>1, <3>2
    <2> QED
      BY <2>2, <2>4 DEF NextEntry, Entry, Ent, Cap, header
  <1>6. L <= n
    BY <1>2
  <1> QED
    BY <1>1, <1>2, <1>3, <1>4, <1>5, <1>6

\* An entry that is vacant is no number's that has a block.
LEMMA VacantIsFree ==
  ASSUME CInv, NEW off, BlockInv(off), NEW e \in 1..Len(index.entries), Vacant(e), NEW x \in Owned
  PROVE  Entry(off, index, x) # e
  <1>1. x \in Int
    BY OwnedFacts DEF CInv
  <1>2. /\ Keyed(index, Entry(off, index, x), x) /\ Home(off, index, x) # null
    BY HomeFacts
  <1>3. ~Unkeyed(index, Entry(off, index, x))
    BY <1>1, <1>2, KeyedFacts
  <1> QED
    BY <1>2, <1>3 DEF Vacant, Unkeyed, Home, Value

LEMMA InsertKeyKeeps ==
  ASSUME CInv, InsertKey, NEW off, BlockInv(off)
  PROVE  BlockInv(off)'
  <1>0. TypeInv /\ ProducerInv
    BY DEF CInv
  <1>1. /\ UNCHANGED <<q, block, co>> /\ pr.pc = "index" /\ pr'.pc = "tail"
        /\ pr'.chain = pr.chain /\ pr'.undone = pr.undone /\ pr'.inserted = pr.inserted
        /\ pr'.startBlock = pr.startBlock /\ index.headers # <<>> /\ Vacant(NextEntry)
        /\ index' = [index EXCEPT !.entries[NextEntry].key = NextBase]
    BY <1>0, InsertKeyFields DEF InsertKey, MayInsert
  <1>2. PICK L \in Int, l \in Nat, n \in Int, x \in Nat :
           /\ L = LastNo /\ l = Len(pr.chain) /\ n = TailNo /\ n = InsertedNo /\ n = L + l
           /\ pr.undone = 0 /\ ~pr.inserted
           /\ x = n + 1 /\ 2 * KeyOf(x) < IndexMod /\ NextBase = KeyOf(x)
           /\ NextEntry = Entry(off, index, x)
    BY <1>0, <1>1, NextNumber, TailNoFacts
  <1>3. TailNo' = n /\ InsertedNo' = x
    <2>1. LastNo' = L
      BY <1>1, <1>2 DEF LastNo
    <2>2. (IF pr'.inserted THEN 1 ELSE 0) = 0
          /\ (IF pr'.inserted \/ pr'.pc = "tail" THEN 1 ELSE 0) = 1
      BY <1>1, <1>2
    <2>3. Len(pr'.chain) = l /\ pr'.undone = 0
      BY <1>1, <1>2
    <2>4. L + l - 0 + 0 = n /\ L + l + 1 = x
      BY <1>2
    <2> QED
      BY <2>1, <2>2, <2>3, <2>4, Zenon DEF TailNo, InsertedNo
  <1>4. /\ IsIndex(index) /\ HeadersOK(index) /\ off \in Offsets(index) /\ Aligned(off, index)
        /\ Window(off, index, n) /\ Inserted(off, index, L, n)
        /\ Reach(off, index, co)
    BY <1>2, IndexParts
  <1>5. PICK e \in 1..Len(index.entries) : e = NextEntry /\ e = Entry(off, index, x)
    BY <1>1, <1>2, <1>4, CurrentType
  <1>6. PICK J : /\ J = index' /\ IsIndex(J) /\ KeySetTo(index, J, e, x)
                 /\ \A f \in 1..Len(index.entries) : Value(J, f) = Value(index, f)
    <2>1. PICK k \in Nat : k = KeyOf(x)
      <3>1. x \in Int /\ x >= 0
        OBVIOUS
      <3> QED
        BY <3>1, KeyType
    <2>2. PICK J : J = [index EXCEPT !.entries[e].key = k]
      OBVIOUS
    <2>3. /\ IsIndex(J) /\ J.headers = index.headers /\ Len(J.entries) = Len(index.entries)
          /\ J.entries[e].key = k
          /\ \A f \in 1..Len(index.entries) : f # e => J.entries[f].key = index.entries[f].key
          /\ \A f \in 1..Len(index.entries) : Value(J, f) = Value(index, f)
      BY <1>4, <2>1, <2>2, KeyStored
    <2>4. J = index'
      BY <1>1, <1>2, <1>5, <2>1, <2>2, Zenon
    <2> QED
      BY <2>1, <2>3, <2>4 DEF KeySetTo, Keyed
  <1>7. /\ SameRings(index, J) /\ off \in Offsets(J)
        /\ \A z : Entry(off, J, z) = Entry(off, index, z)
        /\ \A y \in Int : Keyed(J, e, y) <=> y = x
        /\ \A f \in 1..Len(index.entries) : f # e =>
              \A y : Keyed(J, f, y) <=> Keyed(index, f, y)
        /\ \A f \in 1..Len(index.entries) : ~Unkeyed(index, f) => ~Unkeyed(J, f)
    <2>1. PICK z \in Int : z = x
      OBVIOUS
    <2>2. KeySetTo(index, J, e, z)
      BY <1>6, <2>1
    <2>3. /\ SameRings(index, J) /\ off \in Offsets(J)
          /\ \A y : Entry(off, J, y) = Entry(off, index, y)
          /\ \A y \in Int : Keyed(J, e, y) <=> y = z
          /\ \A f \in 1..Len(index.entries) : f # e =>
                \A y : Keyed(J, f, y) <=> Keyed(index, f, y)
          /\ \A f \in 1..Len(index.entries) : ~Unkeyed(index, f) => ~Unkeyed(J, f)
      <3>1. index.headers # <<>>
        BY <1>1
      <3>2. IsIndex(index) /\ HeadersOK(index) /\ off \in Offsets(index)
        BY <1>4
      <3> QED
        BY <2>2, <3>1, <3>2, KeySetToFacts
    <2> QED
      BY <2>1, <2>3
  <1>8. Aligned(off, J) /\ HeadersOK(J)
    BY <1>1, <1>2, <1>4, <1>5, <1>6, KeyAligned
  <1>9. Window(off, J, n)
    <2>1. n + 1 \in Nat /\ KeySetTo(index, J, Entry(off, index, n + 1), n + 1)
      BY <1>2, <1>5, <1>6
    <2> QED
      BY <1>1, <1>4, <2>1, KeyWindow
  <1>10. \A y \in Owned : /\ Entry(off, J, y) = Entry(off, index, y)
                          /\ Keyed(J, Entry(off, J, y), y)
    <2>1. \A y \in Owned : /\ Entry(off, index, y) \in 1..Len(index.entries)
                           /\ Entry(off, index, y) # e
                           /\ Keyed(index, Entry(off, index, y), y)
      BY <1>1, <1>5, HomeFacts, VacantIsFree
    <2> QED
      BY <1>7, <2>1
  <1>11. Inserted(off, J, LastNo, x)
    <2>1. ASSUME NEW y \in (L + 1)..x PROVE Keyed(J, Entry(off, J, y), y)
      <3>1. CASE y = x
        BY <1>5, <1>6, <1>7, <3>1 DEF KeySetTo
      <3>2. CASE y # x
        <4>1. y \in ChainNos(LastNo, pr.chain, pr.undone)
          BY <1>2, <3>2 DEF ChainNos
        <4> QED
          BY <1>10, <4>1 DEF Owned
      <3> QED
        BY <3>1, <3>2
    <2> QED
      BY <1>2, <2>1 DEF Inserted
  <1>12. Reach(off, J, co)
    <2>1. \A h \in 1..Len(index.headers) : \A y : Ent(off, J, h, y) = Ent(off, index, h, y)
      BY <1>1, <1>4, <1>7, SameEntries
    <2>2. ASSUME NEW c \in Consumers, co[c].pc = "key"
          PROVE  ~Unkeyed(J, J.headers[co[c].header].index[co[c].slot])
      <3>1. PICK h \in 1..Len(index.headers) : h = co[c].header
        BY <1>0, <2>2 DEF TypeInv, LoadedOK
      <3>2. PICK p \in 0..(index.headers[h].capacity - 1) : p = co[c].slot
        BY <1>0, <2>2, <3>1 DEF TypeInv, LoadedOK
      <3>3. index.headers[h].index[p] \in 1..Len(index.entries)
        BY <1>4, HeaderAt
      <3>4. J.headers[h].index[p] = index.headers[h].index[p]
        BY <1>7 DEF SameRings
      <3>5. ~Unkeyed(index, index.headers[h].index[p])
        BY <1>4, <2>2, <3>1, <3>2 DEF Reach
      <3> QED
        BY <1>7, <3>1, <3>2, <3>3, <3>4, <3>5
    <2>3. \A c \in Consumers : co[c].pc \in {"slot", "key"} => co[c].header \in 1..Len(index.headers)
      BY <1>0 DEF TypeInv, LoadedOK
    <2> QED
      BY <1>4, <1>7, <2>1, <2>2, <2>3 DEF Reach
  <1>13. IndexKept(off, off, J, n, x)
    <2>1. Len(J.entries) = Len(index.entries) /\ Len(index.entries) \in Nat
      BY <1>4, <1>6 DEF KeySetTo, IsIndex
    <2>2. /\ Len(index.entries) <= Len(J.entries) /\ Len(J.entries) \in Nat
          /\ \A f \in 1..Len(J.entries) : f \notin 1..Len(index.entries) => Value(J, f) = null
      BY <2>1
    <2>3. \A y \in Owned : Entry(off, index, y) \in 1..Len(index.entries)
      BY HomeFacts
    <2> QED
      BY <1>6, <1>7, <1>8, <1>9, <1>10, <1>11, <1>12, <2>1, <2>2, <2>3 DEF IndexKept, BlocksKept
  <1>14. First' = First
    BY <1>1 DEF First
  <1>15. pr.pc # "publish" /\ pr'.pc # "publish"
    BY <1>1
  <1> QED
    BY <1>1, <1>3, <1>6, <1>13, <1>14, <1>15, IndexKeeps

\* The block index doubles when the ring is full of keys.
Grows(off, I, w, J, n) ==
    /\ IsIndex(I) /\ HeadersOK(I) /\ I.headers # <<>> /\ off \in Offsets(I) /\ Aligned(off, I)
    /\ n \in Int /\ TailAt(off, I, n) /\ Doubled(J, I) /\ w = MoreOffsets(off, I, n)
    /\ \A x \in (n - Cap(I) + 1)..n :
          x \in Nat /\ Keyed(I, Entry(off, I, x), x) /\ 2 * KeyOf(x) < IndexMod

\* The new ring: from number k on, first the c old entries, then c new ones.
Halves(off, I, w, J, c, k) ==
    /\ c > 0 /\ Cap(I) = c /\ Cap(J) = 2 * c /\ w[Len(J.headers)] = k
    /\ \A x \in k..(k + c - 1) :
          /\ x \in Nat /\ 2 * KeyOf(x) < IndexMod /\ Pos(k, 2 * c, x) = x - k
          /\ Entry(w, J, x) = Entry(off, I, x) /\ Entry(off, I, x) \in 1..Len(I.entries)
          /\ Keyed(I, Entry(off, I, x), x) /\ Keyed(J, Entry(w, J, x), x)
    /\ \A x \in (k + c)..(k + 2 * c - 1) :
          /\ Pos(k, 2 * c, x) = x - k /\ Unkeyed(J, Entry(w, J, x))
          /\ Entry(w, J, x) = Len(I.entries) + 1 + (x - k - c)

\* The numbers of the two halves, the last of the old ring being n.
HasHalves(off, I, w, J, n) ==
    \E c \in Nat : \E k \in Int : n = k + c - 1 /\ Halves(off, I, w, J, c, k)

LEMMA GrownHalves ==
  ASSUME NEW off, NEW I, NEW w, NEW J, NEW n, Grows(off, I, w, J, n)
  PROVE  /\ HasHalves(off, I, w, J, n)
         /\ IsIndex(J) /\ w \in Offsets(J) /\ J.headers # <<>>
         /\ Len(J.headers) = Len(I.headers) + 1
         /\ \A h \in 1..Len(I.headers) :
               J.headers[h] = I.headers[h] /\ w[h] = off[h] /\ \A x : Ent(w, J, h, x) = Ent(off, I, h, x)
         /\ \A e \in 1..Len(I.entries) :
               /\ Unkeyed(J, e) <=> Unkeyed(I, e)
               /\ \A x : Keyed(J, e, x) <=> Keyed(I, e, x)
               /\ Value(J, e) = Value(I, e)
         /\ Len(I.entries) \in Nat /\ Len(J.entries) \in Nat /\ Len(I.entries) <= Len(J.entries)
         /\ \A e \in 1..Len(J.entries) : e \notin 1..Len(I.entries) => Value(J, e) = null
  <1>0. /\ IsIndex(I) /\ HeadersOK(I) /\ I.headers # <<>> /\ off \in Offsets(I)
        /\ TailAt(off, I, n) /\ Doubled(J, I) /\ w = MoreOffsets(off, I, n)
    BY DEF Grows
  <1>1. PICK m \in Int : m = n
    BY DEF Grows
  <1>2. PICK c \in Nat : c > 0 /\ Cap(I) = c
    BY <1>0, RingFacts
  <1>3. PICK k \in Int : k = m + 1 - c /\ m = k + c - 1
    OBVIOUS
  <1>4. PICK l \in Nat : l = Len(I.entries) /\ Len(J.entries) = l + c
    BY <1>0, <1>2 DEF Doubled, IsIndex
  <1>5. /\ w \in Offsets(J) /\ J.headers # <<>>
        /\ \A h \in 1..Len(I.headers) : w[h] = off[h] /\ \A x : Ent(w, J, h, x) = Ent(off, I, h, x)
        /\ w[Len(J.headers)] = m + 1 - Cap(I)
        /\ \A x \in (m - Cap(I) + 1)..m :
              /\ Entry(w, J, x) = Entry(off, I, x)
              /\ Pos(m + 1 - Cap(I), Cap(J), x) = x - (m + 1 - Cap(I))
        /\ \A x \in (m + 1)..(m + Cap(I)) :
              /\ Entry(w, J, x) = Len(I.entries) + x - m
              /\ Pos(m + 1 - Cap(I), Cap(J), x) = x - (m + 1 - Cap(I))
    BY <1>0, <1>1, DoubledEntries
  <1>6. IsIndex(J) /\ Cap(J) = 2 * c /\ Len(J.headers) = Len(I.headers) + 1
        /\ \A h \in 1..Len(I.headers) : J.headers[h] = I.headers[h]
    BY <1>0, <1>2 DEF Doubled
  <1>7. \A e \in 1..l : /\ Unkeyed(J, e) <=> Unkeyed(I, e)
                        /\ \A x : Keyed(J, e, x) <=> Keyed(I, e, x)
                        /\ Value(J, e) = Value(I, e)
    BY <1>0, <1>4 DEF Doubled, Unkeyed, Keyed, Value
  <1>8. \A e \in (l + 1)..(l + c) : Unkeyed(J, e) /\ Value(J, e) = null
    BY <1>0, <1>4 DEF Doubled, Unkeyed, Value
  <1>9. ASSUME NEW x \in k..(k + c - 1)
        PROVE  /\ x \in Nat /\ 2 * KeyOf(x) < IndexMod /\ Pos(k, 2 * c, x) = x - k
               /\ Entry(w, J, x) = Entry(off, I, x) /\ Entry(off, I, x) \in 1..Len(I.entries)
               /\ Keyed(I, Entry(off, I, x), x) /\ Keyed(J, Entry(w, J, x), x)
    <2>1. x \in (m - c + 1)..m /\ x \in Int
      BY <1>3
    <2>2. x \in Nat /\ Keyed(I, Entry(off, I, x), x) /\ 2 * KeyOf(x) < IndexMod
      BY <1>1, <1>2, <2>1 DEF Grows
    <2>3. Entry(off, I, x) \in 1..Len(I.entries)
      BY <1>0, <2>1, RingFacts
    <2>4. Entry(w, J, x) = Entry(off, I, x) /\ Pos(k, 2 * c, x) = x - k
      BY <1>2, <1>3, <1>5, <1>6, <2>1
    <2> QED
      BY <1>4, <1>7, <2>2, <2>3, <2>4
  <1>10. ASSUME NEW x \in (k + c)..(k + 2 * c - 1)
         PROVE  /\ Pos(k, 2 * c, x) = x - k /\ Unkeyed(J, Entry(w, J, x))
                /\ Entry(w, J, x) = Len(I.entries) + 1 + (x - k - c)
    <2>1. x \in (m + 1)..(m + c) /\ x \in Int
      BY <1>3
    <2>2. Entry(w, J, x) = l + x - m /\ Pos(k, 2 * c, x) = x - k
      BY <1>2, <1>3, <1>4, <1>5, <1>6, <2>1
    <2>3. PICK e \in (l + 1)..(l + c) : e = l + x - m /\ e = l + 1 + (x - k - c)
      BY <1>3, <2>1
    <2>4. Entry(w, J, x) = e
      BY <2>2, <2>3
    <2> QED
      BY <1>4, <1>8, <2>2, <2>3, <2>4
  <1>11. Halves(off, I, w, J, c, k)
    <2>1. w[Len(J.headers)] = k
      BY <1>2, <1>3, <1>5
    <2> QED
      BY <1>2, <1>6, <1>9, <1>10, <2>1 DEF Halves
  <1>12. \A e \in 1..(l + c) : e \notin 1..l => Value(J, e) = null
    BY <1>8
  <1>13. HasHalves(off, I, w, J, n)
    BY <1>1, <1>3, <1>11 DEF HasHalves
  <1> QED
    BY <1>1, <1>3, <1>4, <1>5, <1>6, <1>7, <1>12, <1>13

\* The places of the new ring.
LEMMA HalvesRing ==
  ASSUME NEW off, NEW I, NEW w, NEW J, NEW n, Grows(off, I, w, J, n),
         NEW c \in Nat, NEW k \in Int, Halves(off, I, w, J, c, k), NEW p \in 0..(2 * c - 1)
  PROVE  /\ J.headers[Len(J.headers)].index[p] = Entry(w, J, p + k)
         /\ \/ p + k \in k..(k + c - 1)
            \/ p + k \in (k + c)..(k + 2 * c - 1)
  <1>1. PICK x \in Int : x = p + k /\ x - k = p
    OBVIOUS
  <1>2. \/ x \in k..(k + c - 1)
        \/ x \in (k + c)..(k + 2 * c - 1)
    BY <1>1
  <1>3. Pos(k, 2 * c, x) = x - k /\ Cap(J) = 2 * c /\ w[Len(J.headers)] = k
    BY <1>2 DEF Halves
  <1>4. Entry(w, J, x) = J.headers[Len(J.headers)].index[p]
    BY <1>1, <1>3 DEF Entry, Ent, Cap
  <1> QED
    BY <1>1, <1>2, <1>4

LEMMA GrownHeaders ==
  ASSUME NEW off, NEW I, NEW w, NEW J, NEW n, Grows(off, I, w, J, n)
  PROVE  HeadersOK(J)
  <1>0. /\ IsIndex(I) /\ HeadersOK(I) /\ I.headers # <<>> /\ off \in Offsets(I)
    BY DEF Grows
  <1>1. PICK c \in Nat : \E k \in Int : n = k + c - 1 /\ Halves(off, I, w, J, c, k)
    <2>1. HasHalves(off, I, w, J, n)
      BY GrownHalves
    <2> QED
      BY <2>1 DEF HasHalves
  <1>2. PICK k \in Int : n = k + c - 1 /\ Halves(off, I, w, J, c, k)
    BY <1>1
  <1>3. c > 0 /\ Cap(I) = c /\ Cap(J) = 2 * c
    BY <1>2 DEF Halves
  <1>4. PICK l \in Nat : l = Len(I.headers) /\ Len(J.headers) = l + 1 /\ l > 0
    <2>1. Len(I.headers) \in 1..Len(I.headers) /\ Len(I.headers) \in Nat
      BY <1>0, HeaderFacts DEF IsIndex
    <2>2. Len(J.headers) = Len(I.headers) + 1
      BY GrownHalves
    <2> QED
      BY <2>1, <2>2
  <1>5. PICK g \in Nat : g = Len(I.entries)
    BY GrownHalves
  <1>6. \A h \in 1..l : J.headers[h] = I.headers[h]
    BY <1>4, GrownHalves
  <1>7. ASSUME NEW p \in 0..(2 * c - 1), NEW r \in 0..(2 * c - 1),
               J.headers[l + 1].index[p] = J.headers[l + 1].index[r]
        PROVE  p = r
    <2>1. Entry(w, J, p + k) = Entry(w, J, r + k)
      <3>1. J.headers[Len(J.headers)].index[p] = Entry(w, J, p + k)
        BY <1>2, HalvesRing
      <3>2. J.headers[Len(J.headers)].index[r] = Entry(w, J, r + k)
        BY <1>2, HalvesRing
      <3> QED
        BY <1>4, <1>7, <3>1, <3>2
    <2>2. PICK x \in Int, y \in Int : x = p + k /\ y = r + k
      OBVIOUS
    <2>3. ASSUME NEW z \in Int, z \in k..(k + c - 1)
          PROVE  Entry(w, J, z) \in 1..g /\ Keyed(J, Entry(w, J, z), z)
      BY <1>2, <1>5, <2>3 DEF Halves
    <2>4. ASSUME NEW z \in Int, z \in (k + c)..(k + 2 * c - 1)
          PROVE  Entry(w, J, z) = g + 1 + (z - k - c) /\ Entry(w, J, z) \notin 1..g
      <3>1. Entry(w, J, z) = g + 1 + (z - k - c)
        BY <1>2, <1>5, <2>4 DEF Halves
      <3> QED
        BY <2>4, <3>1
    <2>5. /\ x \in k..(k + c - 1) \/ x \in (k + c)..(k + 2 * c - 1)
          /\ y \in k..(k + c - 1) \/ y \in (k + c)..(k + 2 * c - 1)
      BY <2>2
    <2>6. CASE x \in k..(k + c - 1) /\ y \in k..(k + c - 1)
      <3>1. x = y
        BY <2>1, <2>2, <2>3, <2>6, KeyedFacts
      <3> QED
        BY <2>2, <3>1
    <2>7. CASE x \in (k + c)..(k + 2 * c - 1) /\ y \in (k + c)..(k + 2 * c - 1)
      <3>1. g + 1 + (x - k - c) = g + 1 + (y - k - c)
        BY <2>1, <2>2, <2>4, <2>7
      <3> QED
        BY <2>2, <3>1
    <2> QED
      BY <2>1, <2>2, <2>3, <2>4, <2>5, <2>6, <2>7
  <1>8. ASSUME NEW h \in 1..l, NEW p \in 0..(I.headers[h].capacity - 1)
        PROVE  ~Unkeyed(J, I.headers[h].index[p])
    <2>1. I.headers[h].index[p] \in 1..Len(I.entries)
      BY <1>0, <1>4, HeaderAt
    <2>2. ~Unkeyed(I, I.headers[h].index[p])
      <3>1. CASE h < l
        BY <1>0, <1>4, <3>1 DEF HeadersOK
      <3>2. CASE h = l
        <4>1. PICK o \in Int : o = off[l]
          BY <1>0, <1>4 DEF Offsets
        <4>2. I.headers[l].capacity = c /\ p \in 0..(c - 1)
          BY <1>3, <1>4, <3>2 DEF Cap
        <4>3. PICK x \in k..(k + c - 1) : Pos(o, c, x) = p
          BY <1>3, <4>2, PosOnto
        <4>4. I.headers[h].index[p] = Entry(off, I, x)
          BY <1>4, <3>2, <4>1, <4>2, <4>3 DEF Entry, Ent
        <4>5. Keyed(I, Entry(off, I, x), x) /\ x \in Int
          BY <1>2, <4>3 DEF Halves
        <4> QED
          BY <4>4, <4>5, KeyedFacts
      <3> QED
        BY <1>4, <3>1, <3>2
    <2> QED
      BY <2>1, <2>2, GrownHalves
  <1>9. ASSUME NEW h \in 1..(l + 1), h # l + 1
        PROVE  /\ \A p, r \in 0..(J.headers[h].capacity - 1) :
                     J.headers[h].index[p] = J.headers[h].index[r] => p = r
               /\ \E m \in Nat : m > 0 /\ Cap(J) = J.headers[h].capacity * m
               /\ \A p \in 0..(J.headers[h].capacity - 1) : ~Unkeyed(J, J.headers[h].index[p])
    <2>1. h \in 1..l /\ J.headers[h] = I.headers[h]
      BY <1>6, <1>9
    <2>2. PICK m \in Nat : m > 0 /\ c = I.headers[h].capacity * m
      BY <1>0, <1>3, <1>4, <2>1 DEF HeadersOK
    <2>3. PICK i \in Nat : i = I.headers[h].capacity
      BY <1>0, <1>4, <2>1, HeaderAt
    <2>4. 2 * c = i * (2 * m) /\ 2 * m \in Nat /\ 2 * m > 0
      BY <2>2, <2>3
    <2>5. \E r \in Nat : r > 0 /\ Cap(J) = J.headers[h].capacity * r
      BY <1>3, <2>1, <2>3, <2>4
    <2>6. \A p, r \in 0..(I.headers[h].capacity - 1) :
             I.headers[h].index[p] = I.headers[h].index[r] => p = r
      BY <1>0, <1>4, <2>1 DEF HeadersOK
    <2> QED
      BY <1>8, <2>1, <2>5, <2>6
  <1>10. J.headers[l + 1].capacity = 2 * c
    BY <1>3, <1>4 DEF Cap
  <1>11. ASSUME NEW h \in 1..(l + 1)
         PROVE  /\ \A p, r \in 0..(J.headers[h].capacity - 1) :
                      J.headers[h].index[p] = J.headers[h].index[r] => p = r
                /\ \E m \in Nat : m > 0 /\ Cap(J) = J.headers[h].capacity * m
                /\ h < l + 1 => \A p \in 0..(J.headers[h].capacity - 1) :
                      ~Unkeyed(J, J.headers[h].index[p])
    <2>1. CASE h # l + 1
      BY <1>9, <2>1
    <2>2. CASE h = l + 1
      <3>1. \A p, r \in 0..(J.headers[h].capacity - 1) :
               J.headers[h].index[p] = J.headers[h].index[r] => p = r
        BY <1>7, <1>10, <2>2
      <3>2. 2 * c = (2 * c) * 1 /\ 1 \in Nat /\ 1 > 0
        OBVIOUS
      <3>3. \E m \in Nat : m > 0 /\ Cap(J) = J.headers[h].capacity * m
        BY <1>3, <1>10, <2>2, <3>2
      <3> QED
        BY <2>2, <3>1, <3>3
    <2> QED
      BY <2>1, <2>2
  <1> QED
    BY <1>4, <1>11 DEF HeadersOK

LEMMA GrownAligned ==
  ASSUME NEW off, NEW I, NEW w, NEW J, NEW n, Grows(off, I, w, J, n)
  PROVE  Aligned(w, J)
  <1>0. IsIndex(I) /\ I.headers # <<>> /\ Aligned(off, I)
    BY DEF Grows
  <1>1. PICK c \in Nat : \E k \in Int : n = k + c - 1 /\ Halves(off, I, w, J, c, k)
    <2>1. HasHalves(off, I, w, J, n)
      BY GrownHalves
    <2> QED
      BY <2>1 DEF HasHalves
  <1>2. PICK k \in Int : n = k + c - 1 /\ Halves(off, I, w, J, c, k)
    BY <1>1
  <1>3. c > 0 /\ Cap(J) = 2 * c /\ w[Len(J.headers)] = k
    BY <1>2 DEF Halves
  <1>4. PICK l \in Nat : l = Len(I.headers) /\ Len(J.headers) = l + 1 /\ l > 0
    <2>1. Len(I.headers) \in 1..Len(I.headers) /\ Len(I.headers) \in Nat
      BY <1>0, HeaderFacts DEF IsIndex
    <2>2. Len(J.headers) = Len(I.headers) + 1
      BY GrownHalves
    <2> QED
      BY <2>1, <2>2
  <1>5. ASSUME NEW h \in 1..l, NEW p \in 0..(J.headers[h].capacity - 1)
        PROVE  \/ Unkeyed(J, J.headers[h].index[p])
               \/ \E y \in Nat : /\ Keyed(J, J.headers[h].index[p], y)
                                 /\ p = Pos(w[h], J.headers[h].capacity, y)
                                 /\ 2 * KeyOf(y) < IndexMod
    <2>1. J.headers[h] = I.headers[h] /\ w[h] = off[h]
      BY <1>4, GrownHalves
    <2>2. PICK e \in 1..Len(I.entries) : e = I.headers[h].index[p]
      BY <1>0, <1>4, <2>1, HeaderAt
    <2>3. /\ Unkeyed(J, e) <=> Unkeyed(I, e)
          /\ \A x : Keyed(J, e, x) <=> Keyed(I, e, x)
      BY GrownHalves
    <2> QED
      BY <1>0, <1>4, <2>1, <2>2, <2>3 DEF Aligned
  <1>6. ASSUME NEW p \in 0..(2 * c - 1)
        PROVE  \/ Unkeyed(J, J.headers[l + 1].index[p])
               \/ \E y \in Nat : /\ Keyed(J, J.headers[l + 1].index[p], y)
                                 /\ p = Pos(k, 2 * c, y)
                                 /\ 2 * KeyOf(y) < IndexMod
    <2>1. PICK x \in Int : x = p + k /\ x - k = p
      OBVIOUS
    <2>2. /\ J.headers[l + 1].index[p] = Entry(w, J, x)
          /\ \/ x \in k..(k + c - 1)
             \/ x \in (k + c)..(k + 2 * c - 1)
      <3>1. /\ J.headers[Len(J.headers)].index[p] = Entry(w, J, p + k)
            /\ \/ p + k \in k..(k + c - 1)
               \/ p + k \in (k + c)..(k + 2 * c - 1)
        BY <1>2, HalvesRing
      <3> QED
        BY <1>4, <2>1, <3>1
    <2>3. CASE x \in k..(k + c - 1)
      BY <1>2, <2>1, <2>2, <2>3 DEF Halves
    <2>4. CASE x \in (k + c)..(k + 2 * c - 1)
      BY <1>2, <2>2, <2>4 DEF Halves
    <2> QED
      BY <2>2, <2>3, <2>4
  <1>7. J.headers[l + 1].capacity = 2 * c /\ w[l + 1] = k
    BY <1>3, <1>4 DEF Cap
  <1>8. \A h \in 1..(l + 1) : h \in 1..l \/ h = l + 1
    OBVIOUS
  <1> QED
    BY <1>4, <1>5, <1>6, <1>7, <1>8 DEF Aligned

LEMMA PosAround ==
  ASSUME NEW k \in Int, NEW d \in Nat, d > 0, NEW x \in Int
  PROVE  \E y \in k..(k + d - 1) : Pos(k, d, y) = Pos(k, d, x)
  <1>1. PICK p \in 0..(d - 1) : p = Pos(k, d, x)
    BY PosType
  <1>2. \E y \in k..(k + d - 1) : Pos(k, d, y) = p
    BY PosOnto
  <1> QED
    BY <1>1, <1>2

LEMMA GrownWindow ==
  ASSUME NEW off, NEW I, NEW w, NEW J, NEW n, Grows(off, I, w, J, n)
  PROVE  Window(w, J, n)
  <1>0. J.headers # <<>> /\ IsIndex(J) /\ w \in Offsets(J) /\ HeadersOK(J)
    BY GrownHalves, GrownHeaders
  <1>1. PICK c \in Nat : \E k \in Int : n = k + c - 1 /\ Halves(off, I, w, J, c, k)
    <2>1. HasHalves(off, I, w, J, n)
      BY GrownHalves
    <2> QED
      BY <2>1 DEF HasHalves
  <1>2. PICK k \in Int : n = k + c - 1 /\ Halves(off, I, w, J, c, k)
    BY <1>1
  <1>3. c > 0 /\ Cap(J) = 2 * c /\ Cap(I) = c /\ w[Len(J.headers)] = k
    BY <1>2 DEF Halves
  <1>4. PICK m \in Int : m = n /\ m = k + c - 1
    BY <1>2
  <1>5. \A x \in k..m : x \in Nat /\ Keyed(J, Entry(w, J, x), x) /\ Pos(k, 2 * c, x) = x - k
    BY <1>2, <1>4 DEF Halves
  <1>6. \A x \in (m + 1)..(m + c) : Unkeyed(J, Entry(w, J, x))
    <2>1. \A x \in (m + 1)..(m + c) : x \in (k + c)..(k + 2 * c - 1)
      BY <1>4
    <2> QED
      BY <1>2, <2>1 DEF Halves
  <1>7. TailAt(w, J, m)
    <2>1. J.headers[Len(J.headers)].tail = c - 1
      BY <1>3 DEF Grows, Doubled
    <2>2. Pos(k, 2 * c, m) = m - k /\ m - k = c - 1
      BY <1>3, <1>4, <1>5
    <2> QED
      BY <1>3, <2>1, <2>2 DEF TailAt
  <1>8. ASSUME NEW x \in Int
        PROVE  \E y \in k..(m + c) : Entry(w, J, x) = Entry(w, J, y)
    <2>1. PICK d \in Nat : d = 2 * c /\ d > 0 /\ d = Cap(J) /\ k + d - 1 = m + c
      BY <1>3, <1>4
    <2>2. PICK p \in 0..(d - 1) : p = Pos(k, d, x)
      BY <2>1, PosType
    <2>3. PICK y \in k..(k + d - 1) : Pos(k, d, y) = p
      <3>1. \E y \in k..(k + d - 1) : Pos(k, d, y) = Pos(k, d, x)
        BY <2>1, PosAround
      <3> QED
        BY <2>2, <3>1
    <2>4. y \in k..(m + c) /\ y \in Int
      BY <2>1
    <2>5. Entry(w, J, x) = Entry(w, J, y)
      <3>1. \A u, v \in Int : Entry(w, J, u) = Entry(w, J, v) <=>
               Pos(w[Len(J.headers)], Cap(J), u) = Pos(w[Len(J.headers)], Cap(J), v)
        BY <1>0, RingFacts
      <3>2. w[Len(J.headers)] = k /\ Cap(J) = d
        BY <1>3, <2>1
      <3> QED
        BY <2>2, <2>3, <2>4, <3>1, <3>2
    <2> QED
      BY <2>4, <2>5
  <1>9. ASSUME NEW y \in Nat, Keyed(J, Entry(w, J, y), y) PROVE y \in k..m
    <2>1. y \in Int
      OBVIOUS
    <2>2. PICK x \in k..(m + c) : Entry(w, J, y) = Entry(w, J, x)
      BY <1>8, <2>1
    <2>3. x \in k..m
      <3>1. ~Unkeyed(J, Entry(w, J, x))
        BY <1>9, <2>1, <2>2, KeyedFacts
      <3>2. x \notin (m + 1)..(m + c)
        BY <1>6, <3>1
      <3> QED
        BY <3>2
    <2>4. Keyed(J, Entry(w, J, y), x) /\ x \in Int
      BY <1>5, <2>2, <2>3
    <2>5. x = y
      BY <1>9, <2>1, <2>4, KeyedFacts
    <2> QED
      BY <2>3, <2>5
  <1>10. KeysNear(w, J, m)
    <2>1. ASSUME NEW y \in Nat, Keyed(J, Entry(w, J, y), y)
          PROVE  /\ m - 2 * c < y /\ y <= m + 2 * c
                 /\ \A z \in (m + 1)..y : Keyed(J, Entry(w, J, z), z)
      <3>1. y \in k..m
        BY <1>9, <2>1
      <3> QED
        BY <1>4, <3>1
    <2> QED
      BY <1>3, <2>1 DEF KeysNear
  <1>11. Filling(w, J, m)
    <2>1. ASSUME NEW x \in (m - 2 * c + 1)..m, Unkeyed(J, Entry(w, J, x)),
                 NEW z \in (m - 2 * c + 1)..x
          PROVE  Unkeyed(J, Entry(w, J, z))
      <3>1. x \notin k..m
        <4>1. ASSUME x \in k..m PROVE FALSE
          <5>1. x \in Int /\ Keyed(J, Entry(w, J, x), x)
            BY <1>5, <4>1
          <5> QED
            BY <2>1, <5>1, KeyedFacts
        <4> QED
          BY <4>1
      <3>2. PICK y \in Int : y = z + 2 * c /\ y \in (m + 1)..(m + c) /\ z \in Int
        BY <1>4, <3>1
      <3>3. Entry(w, J, y) = Entry(w, J, z)
        <4>1. Entry(w, J, z + Cap(J)) = Entry(w, J, z)
          BY <1>0, <3>2, RingFacts
        <4> QED
          BY <1>3, <3>2, <4>1
      <3> QED
        BY <1>6, <3>2, <3>3
    <2> QED
      BY <1>3, <2>1 DEF Filling
  <1> QED
    BY <1>0, <1>4, <1>7, <1>10, <1>11, WindowParts

\* A full ring: the entry to come still has the block that is a turn behind.
LEMMA RingIsFull ==
  ASSUME CInv, pr.pc = "index", NEW off, BlockInv(off), index.headers # <<>>, ~Vacant(NextEntry),
         NEW n \in Int, n = TailNo
  PROVE  /\ \A x \in (n - Cap(index) + 1)..n :
               x \in Nat /\ Keyed(index, Entry(off, index, x), x) /\ 2 * KeyOf(x) < IndexMod
         /\ \A x \in Owned : x \in (n - Cap(index) + 1)..n
  <1>0. TypeInv /\ ProducerInv
    BY DEF CInv
  <1>1. /\ IsIndex(index) /\ HeadersOK(index) /\ off \in Offsets(index) /\ Aligned(off, index)
        /\ Window(off, index, n) /\ Links(off, index, Owned)
    BY IndexParts
  <1>2. PICK c \in Nat : c = Cap(index) /\ c > 0
    BY <1>1, RingFacts
  <1>3. n = InsertedNo /\ NextEntry = Entry(off, index, n + 1)
    BY NextNumber
  <1>4. ASSUME NEW x \in Owned PROVE x \in Nat /\ n - c < x /\ x <= n
    <2>1. x \in Nat /\ x <= n
      BY <1>0, <1>3, OwnedFacts
    <2>2. Keyed(index, Entry(off, index, x), x)
      BY <1>1 DEF Links
    <2>3. KeysNear(off, index, n)
      BY <1>1, WindowParts
    <2>4. n - c < x
      BY <1>2, <2>1, <2>2, <2>3 DEF KeysNear
    <2> QED
      BY <2>1, <2>4
  <1>5. PICK e \in 1..Len(index.entries) : e = NextEntry
    BY <1>1, CurrentType
  <1>6. Value(index, e) # null
    BY <1>5 DEF Vacant, Value
  <1>7. PICK y \in Owned : e = Entry(off, index, y)
    BY <1>1, <1>6 DEF Links
  <1>8. PICK z \in Int : z = y /\ z \in Nat /\ n - c < z /\ z <= n
    BY <1>4
  <1>9. PICK v \in Int : v = z + c
    BY <1>8
  <1>10. Entry(off, index, v) = e
    <2>1. Entry(off, index, z + Cap(index)) = Entry(off, index, z)
      BY <1>1, RingFacts
    <2> QED
      BY <1>2, <1>7, <1>8, <1>9, <2>1
  <1>11. v = n + 1
    <2>1. PICK u \in Int : u = n + 1
      OBVIOUS
    <2>2. Entry(off, index, v) = Entry(off, index, u)
      BY <1>3, <1>5, <1>10, <2>1
    <2>3. v - u < Cap(index) /\ u - v < Cap(index)
      BY <1>2, <1>8, <1>9, <2>1
    <2>4. v = u
      BY <1>1, <2>2, <2>3, RingFacts
    <2> QED
      BY <2>1, <2>4
  <1>12. n + 1 - Cap(index) = z
    BY <1>2, <1>9, <1>11
  <1>13. Keyed(index, Entry(off, index, n + 1), z)
    <2>1. Keyed(index, Entry(off, index, y), y)
      BY <1>1 DEF Links
    <2> QED
      BY <1>3, <1>5, <1>7, <1>8, <2>1
  <1>14. \A x \in (n - Cap(index) + 1)..n :
            x \in Nat /\ Keyed(index, Entry(off, index, x), x) /\ 2 * KeyOf(x) < IndexMod
    <2>1. n + 1 - Cap(index) \in Nat
          /\ Keyed(index, Entry(off, index, n + 1), n + 1 - Cap(index))
      BY <1>8, <1>12, <1>13
    <2> QED
      BY <1>1, <2>1, RingFull
  <1>15. \A x \in Owned : x \in (n - c + 1)..n
    BY <1>4
  <1> QED
    BY <1>2, <1>14, <1>15

LEMMA GrowIndexGrows ==
  ASSUME CInv, pr.pc = "index", NEW off, BlockInv(off), index.headers # <<>>, ~Vacant(NextEntry),
         NEW n \in Int, n = TailNo, NEW J, J = LargerIndex,
         NEW w, w = MoreOffsets(off, index, n)
  PROVE  Grows(off, index, w, J, n)
  <1>1. /\ IsIndex(index) /\ HeadersOK(index) /\ off \in Offsets(index) /\ Aligned(off, index)
        /\ TailAt(off, index, n)
    BY IndexParts, WindowParts
  <1>2. Doubled(J, index)
    <2>1. header = index.headers[Len(index.headers)]
      BY DEF header
    <2> QED
      BY <1>1, <2>1, LargerIndexType DEF Doubled
  <1>3. \A x \in (n - Cap(index) + 1)..n :
            x \in Nat /\ Keyed(index, Entry(off, index, x), x) /\ 2 * KeyOf(x) < IndexMod
    BY RingIsFull
  <1> QED
    BY <1>1, <1>2, <1>3 DEF Grows

LEMMA GrownReach ==
  ASSUME CInv, NEW off, BlockInv(off), NEW w, NEW J, NEW n, Grows(off, index, w, J, n),
         \A x \in Owned : Entry(w, J, x) = Entry(off, index, x)
  PROVE  Reach(w, J, co)
  <1>0. TypeInv /\ Reach(off, index, co) /\ IsIndex(index)
    BY IndexParts DEF CInv
  <1>1. \A h \in 1..Len(index.headers) :
           J.headers[h] = index.headers[h] /\ \A x : Ent(w, J, h, x) = Ent(off, index, h, x)
    BY GrownHalves
  <1>2. \A e \in 1..Len(index.entries) : Unkeyed(J, e) <=> Unkeyed(index, e)
    BY GrownHalves
  <1>3. ASSUME NEW c \in Consumers, co[c].pc \in {"slot", "key", "value", "set_empty", "unlink"}
        PROVE  Entry(w, J, No(co[c].index)) = Entry(off, index, No(co[c].index))
    <2>1. No(co[c].index) \in Owned
      BY <1>3, ServedFacts DEF Served, Holding, Reading
    <2> QED
      BY <2>1
  <1>4. \A c \in Consumers : co[c].pc \in {"slot", "key"} => co[c].header \in 1..Len(index.headers)
    BY <1>0 DEF TypeInv, LoadedOK
  <1>5. ASSUME NEW c \in Consumers, co[c].pc = "key"
        PROVE  ~Unkeyed(J, J.headers[co[c].header].index[co[c].slot])
    <2>1. PICK h \in 1..Len(index.headers) : h = co[c].header
      BY <1>4, <1>5
    <2>2. PICK p \in 0..(index.headers[h].capacity - 1) : p = co[c].slot
      BY <1>0, <1>5, <2>1 DEF TypeInv, LoadedOK
    <2>3. index.headers[h].index[p] \in 1..Len(index.entries)
      BY <1>0, HeaderAt
    <2>4. ~Unkeyed(index, index.headers[h].index[p])
      BY <1>0, <1>5, <2>1, <2>2 DEF Reach
    <2> QED
      BY <1>1, <1>2, <2>1, <2>2, <2>3, <2>4
  <1> QED
    BY <1>0, <1>1, <1>3, <1>4, <1>5 DEF Reach

LEMMA GrowIndexKeeps ==
  ASSUME CInv, GrowIndex, NEW off, BlockInv(off)
  PROVE  \E w : BlockInv(w)'
  <1>0. TypeInv /\ ProducerInv
    BY DEF CInv
  <1>1. /\ UNCHANGED <<q, block, pr, co>> /\ pr.pc = "index" /\ index.headers # <<>>
        /\ ~Vacant(NextEntry) /\ index' = LargerIndex
    BY DEF GrowIndex, MayInsert
  <1>2. PICK n \in Int : n = TailNo
    BY <1>0, TailNoFacts
  <1>3. n = InsertedNo
    BY <1>1, <1>2, NextNumber
  <1>4. PICK J : J = LargerIndex
    OBVIOUS
  <1>5. PICK w : w = MoreOffsets(off, index, n)
    OBVIOUS
  <1>6. Grows(off, index, w, J, n)
    BY <1>1, <1>2, <1>4, <1>5, GrowIndexGrows
  <1>7. \A x \in Owned : /\ Entry(w, J, x) = Entry(off, index, x)
                         /\ Keyed(J, Entry(w, J, x), x)
                         /\ Entry(off, index, x) \in 1..Len(index.entries)
    <2>1. PICK c \in Nat : \E k \in Int : n = k + c - 1 /\ Halves(off, index, w, J, c, k)
      <3>1. HasHalves(off, index, w, J, n)
        BY <1>6, GrownHalves
      <3> QED
        BY <3>1 DEF HasHalves
    <2>2. PICK k \in Int : n = k + c - 1 /\ Halves(off, index, w, J, c, k)
      BY <2>1
    <2>3. Cap(index) = c
      BY <2>2 DEF Halves
    <2>4. \A x \in Owned : x \in (n - Cap(index) + 1)..n
      BY <1>1, <1>2, RingIsFull
    <2>5. n - c + 1 = k
      BY <2>2
    <2>6. \A x \in Owned : x \in k..(k + c - 1)
      BY <2>2, <2>3, <2>4, <2>5
    <2> QED
      BY <2>2, <2>6 DEF Halves
  <1>8. Aligned(w, J) /\ HeadersOK(J) /\ w \in Offsets(J) /\ Window(w, J, n)
    BY <1>6, GrownAligned, GrownHeaders, GrownHalves, GrownWindow
  <1>9. Reach(w, J, co)
    BY <1>6, <1>7, GrownReach
  <1>10. Inserted(w, J, LastNo, n)
    <2>1. ASSUME NEW y \in (LastNo + 1)..n PROVE y \in Owned
      <3>1. y \in ChainNos(LastNo, pr.chain, pr.undone)
        <4>1. pr.undone = 0 /\ n = LastNo + Len(pr.chain)
          BY <1>1, <1>2, NextNumber
        <4>2. LastNo \in Int
          BY <1>0, TailNoFacts
        <4> QED
          BY <4>1, <4>2 DEF ChainNos
      <3> QED
        BY <3>1 DEF Owned
    <2> QED
      BY <1>7, <2>1 DEF Inserted
  <1>11. BlocksKept(off, index, Owned, w, J)
    BY <1>6, <1>7, GrownHalves DEF BlocksKept
  <1>12. IndexKept(off, w, J, n, n)
    BY <1>8, <1>9, <1>10, <1>11 DEF IndexKept
  <1>13. n = TailNo' /\ n = InsertedNo' /\ First' = First
    BY <1>1, <1>2, <1>3 DEF TailNo, InsertedNo, LastNo, First
  <1>14. BlockInv(w)'
    BY <1>1, <1>4, <1>12, <1>13, IndexKeeps
  <1> QED
    BY <1>14

-----------------------------------------------------------------------------
(***************************************************************************)
(* Destruction                                                             *)
(***************************************************************************)

\* Once nobody uses the queue, a block is used if it has an element.
LEMMA QuietFacts ==
  ASSUME CInv, Quiet, NEW off, BlockInv(off)
  PROVE  /\ Owned = {x \in Nat : KeyOf(x) < q.tailIndex /\ q.headIndex < KeyOf(x + 1)}
         /\ Present = {i \in Nat : q.headIndex <= i /\ i < q.tailIndex}
         /\ \A b \in Blocks : block[b].state = "used" <=> b \in Valued(index)
         /\ TailNo = LastNo /\ LastNo \in Int
         /\ \A x \in Owned : x <= LastNo /\ x \in Nat
         /\ LastNo \in Owned => Home(off, index, LastNo) = pr.tailBlock
  <1>0. TypeInv /\ ProducerInv
    BY DEF CInv
  <1>1. /\ pr.pc = "idle" /\ \A c \in Consumers : co[c].pc = "idle"
        /\ pr.chain = <<>> /\ pr.undone = 0 /\ ~pr.inserted
    <2>1. pr.pc = "idle" /\ \A c \in Consumers : co[c].pc = "idle"
      BY DEF Quiet
    <2>2. pr.chain = <<>> /\ pr.undone \in Nat
      BY <1>0, <2>1, TailNoFacts DEF ProducerInv
    <2> QED
      BY <1>0, <2>1, <2>2 DEF ProducerInv
  <1>2. LastNo \in Int
    BY <1>0, TailNoFacts
  <1>3. ChainNos(LastNo, pr.chain, pr.undone) = {}
    <2>1. Len(pr.chain) = 0
      BY <1>1
    <2> QED
      BY <1>1, <1>2, <2>1 DEF ChainNos
  <1>4. \A x : Holders(co, x) = {} /\ Unlinkers(co, x) = {}
    BY <1>1 DEF Holders, Unlinkers, Holding, Reading
  <1>5. Owned = {x \in Nat : KeyOf(x) < q.tailIndex /\ q.headIndex < KeyOf(x + 1)}
    BY <1>3, <1>4 DEF Owned, Linked
  <1>6. Present = {i \in Nat : q.headIndex <= i /\ i < q.tailIndex}
    <2>1. At(Reading) = {}
      BY <1>1 DEF At, Reading
    <2> QED
      BY <1>1, <2>1 DEF Present
  <1>7. \A b \in Blocks : block[b].state = "used" <=> b \in Valued(index)
    <2>1. Undone(pr.chain, pr.undone) = {} /\ Released(co) = {}
      BY <1>1 DEF Undone, Released
    <2> QED
      BY <2>1, IndexParts DEF Used
  <1>8. TailNo = LastNo
    <2>1. Len(pr.chain) = 0 /\ (IF pr.inserted THEN 1 ELSE 0) = 0
      BY <1>1
    <2>2. LastNo + 0 - 0 + 0 = LastNo
      BY <1>2
    <2> QED
      BY <1>1, <2>1, <2>2, Zenon DEF TailNo
  <1>9. \A x \in Owned : x <= LastNo /\ x \in Nat
    <2>1. \A x \in Owned : x \in Linked(q.tailIndex, q.headIndex, co)
      BY <1>3 DEF Owned
    <2> QED
      BY <1>0, <2>1, OwnedFacts
  <1>10. LastNo \in Owned => Home(off, index, LastNo) = pr.tailBlock
    BY <1>1, IndexParts DEF Chained, First
  <1> QED
    BY <1>2, <1>5, <1>6, <1>7, <1>8, <1>9, <1>10

\* The destructor finds the block of every element that remains.
LEMMA RemainingFacts ==
  ASSUME CInv, Quiet, NEW off, BlockInv(off)
  PROVE  /\ Remaining = {i \in Nat : q.headIndex <= i /\ i < q.tailIndex}
         /\ \A i \in Remaining : No(i) \in Owned /\ Of(i) = Home(off, index, No(i))
  <1>0. TypeInv /\ ProducerInv
    BY DEF CInv
  <1>1. PICK t \in Nat, h \in Nat, L \in Int :
           /\ t = q.tailIndex /\ h = q.headIndex /\ L = LastNo /\ h <= t /\ 2 * t < IndexMod
           /\ L = No(t - 1) /\ L >= -1
    <2>1. q.headIndex \in Nat /\ q.headIndex <= q.tailIndex
      BY <1>0, HeadCovered DEF TypeInv, QType
    <2>2. 2 * q.tailIndex < IndexMod
      <3>1. PICK t \in Nat, n \in Nat, M \in Nat :
               t = q.tailIndex /\ n = pr.count /\ M = IndexMod /\ 2 * (t + n) < M
        BY <1>0, ProducerFacts, SizesAssumption
      <3>2. 2 * t < M
        BY <3>1
      <3> QED
        BY <3>1, <3>2
    <2> QED
      BY <1>0, <2>1, <2>2, ProducerFacts DEF LastNo
  <1>2. PICK M \in Nat : M = IndexMod /\ 2 * t < M /\ M > 0
    BY <1>1, SizesAssumption
  <1>3. ASSUME NEW i \in Int, 0 <= i, i < M PROVE i % IndexMod = i
    BY <1>2, <1>3, ModSmall
  <1>4. Remaining = {i \in Nat : h <= i /\ i < t}
    <2>1. InFlight = t - h
      <3>1. PICK d \in Int : d = t - h
        OBVIOUS
      <3>2. 0 <= d /\ d < M
        BY <1>1, <1>2, <3>1
      <3> QED
        BY <1>1, <1>3, <3>1, <3>2 DEF InFlight
    <2>2. ASSUME NEW k \in 0..(t - h - 1) PROVE (h + k) % IndexMod = h + k
      <3>1. PICK j \in Int : j = h + k
        OBVIOUS
      <3>2. 0 <= j /\ j < M
        BY <1>2, <3>1
      <3> QED
        BY <1>3, <3>1, <3>2
    <2>3. Remaining = {(h + k) % IndexMod : k \in 0..(t - h - 1)}
      BY <1>1, <2>1 DEF Remaining
    <2>4. Remaining = {h + k : k \in 0..(t - h - 1)}
      BY <2>2, <2>3
    <2>5. \A i \in Nat : h <= i /\ i < t => i - h \in 0..(t - h - 1) /\ h + (i - h) = i
      OBVIOUS
    <2>6. \A k \in 0..(t - h - 1) : h + k \in Nat /\ h <= h + k /\ h + k < t
      OBVIOUS
    <2> QED
      BY <2>4, <2>5, <2>6
  <1>5. ASSUME NEW i \in Nat, h <= i, i < t
        PROVE  No(i) \in Owned /\ Of(i) = Home(off, index, No(i))
    <2>1. PICK x \in Nat : /\ x = No(i) /\ KeyOf(x) <= i /\ i < KeyOf(x + 1) /\ KeyOf(x) \in Nat
                           /\ KeyOf(x + 1) \in Int
      <3>1. i \in Int /\ i >= 0
        OBVIOUS
      <3>2. No(i) \in Int /\ KeyOf(No(i)) <= i /\ i < KeyOf(No(i)) + BLOCK_SIZE /\ No(i) >= 0
        BY <3>1, NoFacts
      <3> QED
        BY <3>2, KeyType
    <2>2. x \in Owned
      <3>1. KeyOf(x) < t /\ h < KeyOf(x + 1)
        BY <1>5, <2>1
      <3> QED
        BY <1>1, <3>1, QuietFacts
    <2>3. LastNo \in Owned
      <3>1. t - 1 \in Int /\ i \in Int /\ i <= t - 1 /\ t - 1 >= 0
        BY <1>5
      <3>2. L \in Nat /\ KeyOf(L) <= t - 1 /\ t - 1 < KeyOf(L + 1) /\ KeyOf(L) \in Int
            /\ KeyOf(L + 1) \in Int
        <4>1. No(t - 1) \in Int /\ KeyOf(No(t - 1)) <= t - 1
              /\ t - 1 < KeyOf(No(t - 1)) + BLOCK_SIZE /\ No(t - 1) >= 0
          BY <3>1, NoFacts
        <4> QED
          BY <1>1, <4>1, KeyType
      <3>3. KeyOf(L) < t /\ h < KeyOf(L + 1)
        BY <1>5, <3>2
      <3> QED
        BY <1>1, <3>2, <3>3, QuietFacts
    <2>4. /\ TailNo >= 0 /\ Keyed(index, Entry(off, index, TailNo), TailNo)
          /\ index.headers # <<>>
      <3>1. TailNo = LastNo /\ LastNo \in Nat
        BY <2>3, QuietFacts
      <3>2. Keyed(index, Entry(off, index, LastNo), LastNo)
        BY <2>3, IndexParts DEF Links
      <3>3. index.headers # <<>>
        BY <1>0, <2>3, OwnedFacts
      <3> QED
        BY <3>1, <3>2, <3>3
    <2>5. Base(i) = KeyOf(x)
      <3>1. i \in Int /\ 0 <= i /\ i < IndexMod
        BY <1>2, <1>5
      <3> QED
        BY <2>1, <3>1, BaseInRange
    <2>6. 2 * KeyOf(x) < IndexMod
      BY <1>2, <1>5, <2>1
    <2>7. CurrentEntry(i) = Entry(off, index, x)
      BY <2>4, <2>5, <2>6, CurrentNumber
    <2> QED
      BY <2>1, <2>2, <2>7 DEF Of, Home, Value
  <1> QED
    BY <1>1, <1>4, <1>5

\* ... and frees it, with the elements before the tail block or as the tail block.
LEMMA AllAreFreed ==
  ASSUME CInv, Quiet, NEW off, BlockInv(off), NEW x \in Owned
  PROVE  Home(off, index, x) \in Passed \cup LastBlock
  <1>0. TypeInv /\ ProducerInv
    BY DEF CInv
  <1>1. PICK t \in Nat, h \in Nat, L \in Int, T \in Int :
           /\ t = q.tailIndex /\ h = q.headIndex /\ L = LastNo /\ h <= t /\ 2 * t < IndexMod
           /\ T = t - 1 /\ L = No(T)
    <2>1. q.headIndex \in Nat /\ q.headIndex <= q.tailIndex
      BY <1>0, HeadCovered DEF TypeInv, QType
    <2>2. 2 * q.tailIndex < IndexMod
      <3>1. PICK t \in Nat, n \in Nat, M \in Nat :
               t = q.tailIndex /\ n = pr.count /\ M = IndexMod /\ 2 * (t + n) < M
        BY <1>0, ProducerFacts, SizesAssumption
      <3>2. 2 * t < M
        BY <3>1
      <3> QED
        BY <3>1, <3>2
    <2>3. q.tailIndex - 1 \in Int
      BY <1>0, ProducerFacts
    <2> QED
      BY <1>0, <2>1, <2>2, <2>3, ProducerFacts DEF LastNo
  <1>2. PICK M \in Nat : M = IndexMod /\ 2 * t < M /\ M > 0
    BY <1>1, SizesAssumption
  <1>3. PICK k \in Nat, n \in Int, B \in Nat :
           /\ k = KeyOf(x) /\ n = KeyOf(x + 1) /\ n = k + B /\ B = BLOCK_SIZE /\ B > 1
           /\ k < t /\ h < n /\ x \in Int /\ x \in Nat /\ x <= L
    <2>1. x \in Nat /\ KeyOf(x) < t /\ h < KeyOf(x + 1) /\ x <= L
      BY <1>1, QuietFacts
    <2>2. x \in Int /\ x >= 0
      BY <2>1
    <2> QED
      BY <2>1, <2>2, KeyType
  <1>4. PICK l \in Int : l = KeyOf(L) /\ l <= T /\ T < l + B /\ KeyOf(L + 1) = l + B
    <2>1. KeyOf(No(T)) <= T /\ T < KeyOf(No(T)) + BLOCK_SIZE
      BY NoFacts
    <2> QED
      BY <1>1, <1>3, <2>1, KeyType
  <1>5. CASE x < L
    <2>1. k + B <= l
      BY <1>1, <1>3, <1>4, <1>5, KeyMono
    <2>2. PICK i \in Nat : i = k + B - 1 /\ h <= i /\ i < t /\ k <= i /\ i < k + B
      BY <1>1, <1>3, <1>4, <2>1
    <2>3. i \in Remaining
      BY <1>1, <2>2, RemainingFacts
    <2>4. No(i) = x
      <3>1. i \in Int
        OBVIOUS
      <3> QED
        BY <1>3, <2>2, <3>1, NoUnique
    <2>5. Of(i) = Home(off, index, x)
      BY <2>3, <2>4, RemainingFacts
    <2>6. Base(i) # Base((q.tailIndex - 1) % IndexMod)
      <3>1. i \in Int /\ 0 <= i /\ i < M
        BY <1>2, <2>2
      <3>2. 0 <= T /\ T < M
        BY <1>1, <1>2, <1>3
      <3>3. Base(i) = k /\ Base(T) = l
        BY <1>1, <1>2, <1>3, <1>4, <2>4, <3>1, <3>2, BaseInRange
      <3>4. T % IndexMod = T
        BY <1>2, <3>2, ModSmall
      <3>5. k # l
        BY <1>3, <2>1
      <3> QED
        BY <1>1, <3>3, <3>4, <3>5
    <2>7. Of(i) \in Passed
      BY <2>3, <2>6 DEF Passed
    <2> QED
      BY <2>5, <2>7
  <1>6. CASE x = L
    <2>1. Home(off, index, x) = pr.tailBlock /\ Home(off, index, x) # null
      BY <1>1, <1>6, QuietFacts, HomeFacts
    <2>2. Remaining # {} \/ Slot(q.tailIndex) # 0
      <3>1. CASE h < t
        <4>1. h \in Remaining
          BY <1>1, <3>1, RemainingFacts
        <4> QED
          BY <4>1
      <3>2. CASE h = t
        <4>1. KeyOf(x) <= t /\ t < KeyOf(x) + BLOCK_SIZE /\ t \in Int
          BY <1>3, <3>2
        <4>2. Slot(t) = t - KeyOf(x)
          BY <1>3, <4>1, NoUnique
        <4>3. t - k # 0
          BY <1>3
        <4> QED
          BY <1>1, <1>3, <4>2, <4>3
      <3> QED
        BY <1>1, <3>1, <3>2
    <2>3. LastBlock = {pr.tailBlock}
      BY <2>1, <2>2 DEF LastBlock
    <2> QED
      BY <2>1, <2>3
  <1> QED
    BY <1>1, <1>3, <1>5, <1>6

LEMMA DestroyFrees ==
  ASSUME CInv, Destroy, NEW off, BlockInv(off)
  PROVE  NothingLeaks'
  <1>0. TypeInv /\ ProducerInv /\ Quiet
    BY DEF CInv, Destroy
  <1>1. /\ BlockType'
        /\ \A b \in Blocks :
              /\ block'[b].state =
                    IF b \in Passed \cup LastBlock
                    THEN IF b <= PoolSize THEN "free" ELSE "none"
                    ELSE block[b].state
              /\ \A s \in 0..(BLOCK_SIZE - 1) :
                    block'[b].elements[s] =
                       IF \E i \in Remaining : Of(i) = b /\ Slot(i) = s THEN None
                       ELSE block[b].elements[s]
    BY <1>0, DestroyBlocks
  <1>2. \A b \in Valued(index) : \E x \in Owned : b = Home(off, index, x)
    BY IndexParts DEF Valued, Links, Home
  <1>3. ASSUME NEW b \in Blocks PROVE block'[b].state # "used"
    <2>1. CASE b \in Passed \cup LastBlock
      BY <1>1, <2>1
    <2>2. CASE b \notin Passed \cup LastBlock
      <3>1. b \notin Valued(index)
        BY <1>0, <1>2, <2>2, AllAreFreed
      <3>2. block[b].state # "used"
        BY <1>0, <3>1, QuietFacts
      <3> QED
        BY <1>1, <2>2, <3>2
    <2> QED
      BY <2>1, <2>2
  <1>4. ASSUME NEW b \in Blocks, NEW s \in 0..(BLOCK_SIZE - 1)
        PROVE  block'[b].elements[s] = None
    <2>1. CASE b \notin Valued(index)
      <3>1. block[b].elements = NoElements
        BY <2>1, IndexParts DEF Contents
      <3>2. block[b].elements[s] = None
        BY <3>1 DEF NoElements
      <3> QED
        BY <1>1, <3>2
    <2>2. CASE b \in Valued(index)
      <3>1. PICK x \in Owned : b = Home(off, index, x)
        BY <1>2, <2>2
      <3>2. block[b].elements[s] = IF KeyOf(x) + s \in Present THEN KeyOf(x) + s ELSE None
        BY <3>1, IndexParts DEF Contents
      <3>3. CASE KeyOf(x) + s \in Present
        <4>1. PICK k \in Int, i \in Int : k = KeyOf(x) /\ i = k + s /\ x \in Int
          <5>1. x \in Int
            BY <1>0, OwnedFacts
          <5>2. KeyOf(x) \in Int
            BY <5>1, KeyType
          <5> QED
            BY <5>1, <5>2
        <4>2. i \in Remaining
          BY <1>0, <3>3, <4>1, QuietFacts, RemainingFacts
        <4>3. No(i) = x /\ Slot(i) = s
          <5>1. BLOCK_SIZE \in Nat
            BY SizesAssumption
          <5>2. k <= i /\ i < k + BLOCK_SIZE /\ i - k = s
            BY <4>1, <5>1
          <5> QED
            BY <4>1, <5>2, NoUnique
        <4>4. Of(i) = b
          BY <1>0, <3>1, <4>2, <4>3, RemainingFacts
        <4> QED
          BY <1>1, <4>2, <4>3, <4>4
      <3>4. CASE KeyOf(x) + s \notin Present
        BY <1>1, <3>2, <3>4
      <3> QED
        BY <3>3, <3>4
    <2> QED
      BY <2>1, <2>2
  <1>5. ASSUME NEW b \in Blocks PROVE block'[b].elements = NoElements
    <2>1. block'[b].elements \in [0..(BLOCK_SIZE - 1) -> Int]
      BY <1>1 DEF BlockType, BlockRec
    <2>2. NoElements = [s \in 0..(BLOCK_SIZE - 1) |-> None]
      BY DEF NoElements
    <2> QED
      BY <1>4, <2>1, <2>2
  <1> QED
    BY <1>3, <1>5 DEF NothingLeaks

-----------------------------------------------------------------------------
(***************************************************************************)
(* The inductive invariant                                                 *)
(***************************************************************************)

\* The counters, the elements consumers have moved out, the blocks until the
\* queue is destroyed, and afterwards that nothing is left of them.
IInv == CInv /\ MovedOK /\ Blocks_Inv /\ NothingLeaks

LEMMA BlocksInit == Init => Blocks_Inv
  <1> SUFFICES ASSUME Init PROVE Blocks_Inv
    OBVIOUS
  <1>0. CInv
    BY CInvInit
  <1>1. /\ index.headers = <<>> /\ index.entries = <<>> /\ q.poolIndex = 0
        /\ \A c \in Consumers : co[c].pc = "idle"
    <2>1. index = [headers |-> <<>>, entries |-> <<>>]
      BY DEF Init
    <2>2. \A c \in Consumers : co[c].pc = "idle"
      BY DEF Init, IdleConsumer
    <2>3. q.poolIndex = 0
      BY DEF Init
    <2> QED
      BY <2>1, <2>2, <2>3
  <1>2. \A b \in Blocks : /\ block[b].state = IF b <= PoolSize THEN "pool" ELSE "none"
                          /\ block[b].elements = NoElements
    BY DEF Init, NewBlock
  <1>3. /\ Owned = {} /\ LastNo = -1 /\ TailNo = -1 /\ InsertedNo = -1
        /\ pr.chain = <<>> /\ pr.undone = 0 /\ Valued(index) = {}
    BY <1>0, <1>1, NothingOwned
  <1>4. PICK off : off = [h \in 1..0 |-> 0]
    OBVIOUS
  <1>5. Len(index.headers) = 0 /\ Len(index.entries) = 0 /\ Len(pr.chain) = 0
    BY <1>1, <1>3
  <1>6. HeadersOK(index) /\ Aligned(off, index) /\ off \in [1..Len(index.headers) -> Int]
    BY <1>4, <1>5 DEF HeadersOK, Aligned
  <1>7. Undone(pr.chain, pr.undone) = {} /\ Released(co) = {}
    BY <1>1, <1>3 DEF Undone, Released
  <1>8. Used(index, block, co, pr.chain, pr.undone)
    BY <1>1, <1>2, <1>3, <1>5, <1>7 DEF Used
  <1>9. Pool(block, q.poolIndex)
    <2>1. \A b \in Blocks : b > 0
      BY DEF Blocks
    <2> QED
      BY <1>1, <1>2, <2>1 DEF Pool
  <1>10. Window(off, index, TailNo)
    BY <1>1 DEF Window
  <1>11. Inserted(off, index, LastNo, InsertedNo)
    <2>1. \A z \in Int : z = -1 => (z + 1)..z = {}
      OBVIOUS
    <2>2. PICK z \in Int : z = -1
      BY Zenon, Negative
    <2>3. (z + 1)..z = {}
      BY <2>1, <2>2
    <2>4. (LastNo + 1)..InsertedNo = {}
      BY <1>3, <2>2, <2>3, Zenon
    <2> QED
      BY <2>4 DEF Inserted
  <1>12. Links(off, index, Owned)
    BY <1>3, <1>5 DEF Links
  <1>13. Chained(off, index, Owned, LastNo, pr.chain, pr.undone, First)
    BY <1>3, <1>5 DEF Chained
  <1>14. Reach(off, index, co)
    BY <1>1 DEF Reach
  <1>15. Counts(off, index, block, Owned, q.headIndex, co)
    BY <1>1, <1>3 DEF Counts
  <1>16. Contents(off, index, block, Owned, Present)
    BY <1>2, <1>3 DEF Contents
  <1>17. BlockInv(off)
    BY <1>6, <1>8, <1>9, <1>10, <1>11, <1>12, <1>13, <1>14, <1>15, <1>16
    DEF BlockInv, IndexInv, DataInv
  <1> QED
    BY <1>17 DEF Blocks_Inv

LEMMA ConsumerKeeps ==
  ASSUME CInv, NEW c \in Consumers, TryDequeue(c) \/ Consumer(c), NEW off, BlockInv(off)
  PROVE  BlockInv(off)'
  <1>1. CASE \/ TryDequeue(c) \/ SizeTail(c) \/ SizeHead(c) \/ LooksEmpty(c)
             \/ LoadTail(c) \/ LoadOvercommit(c) \/ CheckCount(c) \/ CountDequeue(c)
             \/ Recheck(c) \/ Overcommit(c)
    BY <1>1, TryingKeeps
  <1>2. CASE Claim(c)
    BY <1>2, ClaimKeeps
  <1>3. CASE LoadHeader(c)
    BY <1>3, LoadHeaderKeeps
  <1>4. CASE LoadIndexTail(c)
    BY <1>4, LoadIndexTailKeeps
  <1>5. CASE LoadTailKey(c)
    BY <1>5, LoadTailKeyKeeps
  <1>6. CASE MoveElement(c)
    BY <1>6, MoveElementKeeps
  <1>7. CASE SetEmpty(c)
    BY <1>7, SetEmptyKeeps
  <1>8. CASE Unlink(c)
    BY <1>8, UnlinkKeeps
  <1>9. CASE AddBlockToFreeList(c)
    BY <1>9, ReleaseKeeps
  <1> QED
    BY <1>1, <1>2, <1>3, <1>4, <1>5, <1>6, <1>7, <1>8, <1>9 DEF Consumer

LEMMA ProducerKeeps ==
  ASSUME CInv, Producer \/ \E n \in 1..MaxBatch : EnqueueBulk(n), NEW off, BlockInv(off)
  PROVE  \E w : BlockInv(w)'
  <1>1. ASSUME NEW n \in 1..MaxBatch, EnqueueBulk(n) PROVE BlockInv(off)'
    BY <1>1, EnqueueBulkKeeps
  <1>2. CASE InsertKey
    BY <1>2, InsertKeyKeeps
  <1>3. CASE GrowIndex
    BY <1>3, GrowIndexKeeps
  <1>4. CASE InsertFails \/ RequisitionFails
    BY <1>4, FailuresKeep
  <1>5. CASE InsertTail
    BY <1>5, InsertTailKeeps
  <1>6. ASSUME NEW b \in Blocks, RequisitionBlock(b) PROVE BlockInv(off)'
    BY <1>6, RequisitionBlockKeeps
  <1>7. CASE RewindInserted
    BY <1>7, RewindInsertedKeeps
  <1>8. CASE RewindBlock
    BY <1>8, RewindBlockKeeps
  <1>9. CASE EnqueueFails
    BY <1>9, EnqueueFailsKeeps
  <1>10. CASE Fill
    BY <1>10, FillKeeps
  <1>11. CASE Publish
    BY <1>11, PublishKeeps
  <1> QED
    BY <1>1, <1>2, <1>3, <1>4, <1>5, <1>6, <1>7, <1>8, <1>9, <1>10, <1>11 DEF Producer

LEMMA BlocksNext ==
  ASSUME CInv, Blocks_Inv, [Next]_vars
  PROVE  Blocks_Inv'
  <1> SUFFICES ASSUME ~q'.destroyed PROVE \E w : BlockInv(w)'
    BY DEF Blocks_Inv
  <1>0. TypeInv /\ ProducerInv
    BY DEF CInv
  <1>1. ~q.destroyed
    BY <1>0, DestroyedStays DEF vars
  <1>2. PICK off : BlockInv(off)
    BY <1>1 DEF Blocks_Inv
  <1>3. CASE Producer \/ \E n \in 1..MaxBatch : EnqueueBulk(n)
    BY <1>2, <1>3, ProducerKeeps
  <1>4. ASSUME NEW c \in Consumers, TryDequeue(c) \/ Consumer(c) PROVE \E w : BlockInv(w)'
    <2>1. BlockInv(off)'
      BY <1>2, <1>4, ConsumerKeeps
    <2> QED
      BY <2>1
  <1>5. CASE AddProducer
    BY <1>2, <1>5, AddProducerKeeps
  <1>6. CASE Destroy
    <2>1. q'.destroyed
      BY <1>0, <1>6 DEF Destroy, TypeInv, QType
    <2> QED
      BY <2>1
  <1>7. CASE Finished \/ UNCHANGED vars
    <2>1. UNCHANGED <<q, index, block, pr, co>>
      BY <1>7 DEF Finished, vars
    <2>2. SameUse(co, co')
      BY <2>1 DEF SameUse
    <2>3. BlockInv(off)'
      BY <1>2, <2>1, <2>2, FrameStep
    <2> QED
      BY <2>3
  <1> QED
    BY <1>3, <1>4, <1>5, <1>6, <1>7 DEF Next

LEMMA MovedNext ==
  ASSUME CInv, MovedOK, Blocks_Inv, [Next]_vars
  PROVE  MovedOK'
  <1>0. TypeInv /\ ProducerInv
    BY DEF CInv
  <1>1. ASSUME UNCHANGED co PROVE MovedOK'
    BY <1>1 DEF MovedOK, At
  <1>2. ASSUME NEW c \in Consumers, OthersStay(c),
               co'[c].pc \in {"set_empty", "unlink", "release"} => co'[c].item = co'[c].index
        PROVE  MovedOK'
    BY <1>2 DEF MovedOK, At, OthersStay
  <1>3. ASSUME NEW c \in Consumers, MoveElement(c) PROVE MovedOK'
    <2>1. ~q.destroyed
      <3>1. co[c].pc # "idle"
        BY <1>3 DEF MoveElement, Step
      <3> QED
        BY <1>0, <3>1 DEF ProducerInv, Quiet
    <2>2. PICK off : BlockInv(off)
      BY <2>1 DEF Blocks_Inv
    <2>3. co'[c].item = co[c].index
      BY <1>3, <2>2, MoveElementKeeps
    <2>4. OthersStay(c) /\ co'[c].index = co[c].index
      BY <1>0, <1>3, MoveElementFields
    <2> QED
      BY <1>2, <2>3, <2>4
  <1>4. ASSUME NEW c \in Consumers, SetEmpty(c) PROVE MovedOK'
    <2>1. OthersStay(c) /\ co[c].pc = "set_empty"
      BY <1>0, <1>4, SetEmptyFields
    <2>2. \/ co'[c].pc = "unlink" /\ co'[c].index = co[c].index /\ co'[c].item = co[c].item
          \/ co'[c].pc = "idle"
      BY <1>0, <1>4, SetEmptyFields
    <2>3. co[c].item = co[c].index
      BY <2>1 DEF MovedOK, At
    <2> QED
      BY <1>2, <2>1, <2>2, <2>3
  <1>5. ASSUME NEW c \in Consumers, Unlink(c) PROVE MovedOK'
    <2>1. /\ OthersStay(c) /\ co[c].pc = "unlink"
          /\ co'[c].index = co[c].index /\ co'[c].item = co[c].item
      BY <1>0, <1>5, UnlinkFields
    <2>2. co[c].item = co[c].index
      BY <2>1 DEF MovedOK, At
    <2> QED
      BY <1>2, <2>1, <2>2
  <1>6. ASSUME NEW c \in Consumers, OthersStay(c),
               co'[c].pc \notin {"set_empty", "unlink", "release"}
        PROVE  MovedOK'
    BY <1>2, <1>6
  <1>7. ASSUME NEW c \in Consumers, TryDequeue(c) \/ Consumer(c) PROVE MovedOK'
    <2>1. CASE LooksEmpty(c)
      BY <1>0, <1>6, <2>1, LooksEmptyFields
    <2>2. CASE Overcommit(c)
      BY <1>0, <1>6, <2>2, OvercommitFields
    <2>3. CASE TryDequeue(c) \/ SizeTail(c) \/ SizeHead(c) \/ LoadTail(c)
      BY <1>0, <1>6, <2>3, TryDequeueFields, SizeTailFields, SizeHeadFields, LoadTailFields
    <2>4. CASE LoadOvercommit(c) \/ CheckCount(c) \/ CountDequeue(c) \/ Recheck(c)
      BY <1>0, <1>6, <2>4, LoadOvercommitFields, CheckCountFields, CountDequeueFields,
         RecheckFields
    <2>5. CASE Claim(c) \/ LoadHeader(c) \/ LoadIndexTail(c)
      BY <1>0, <1>6, <2>5, ClaimFields, LoadHeaderFields, LoadIndexTailFields
    <2>6. CASE LoadTailKey(c)
      BY <1>0, <1>6, <2>6, LoadTailKeyFields
    <2>7. CASE AddBlockToFreeList(c)
      BY <1>0, <1>6, <2>7, ReleaseFields
    <2> QED
      BY <1>3, <1>4, <1>5, <1>7, <2>1, <2>2, <2>3, <2>4, <2>5, <2>6, <2>7 DEF Consumer
  <1>8. CASE Producer
    BY <1>1, <1>8 DEF Producer, InsertKey, GrowIndex, InsertFails, InsertTail,
       RequisitionBlock, RequisitionFails, RewindInserted, RewindBlock, EnqueueFails,
       Fill, Publish
  <1>9. CASE AddProducer \/ Destroy \/ Finished \/ UNCHANGED vars
    BY <1>1, <1>9 DEF AddProducer, Destroy, Finished, vars
  <1>10. ASSUME NEW n \in 1..MaxBatch, EnqueueBulk(n) PROVE MovedOK'
    BY <1>1, <1>10 DEF EnqueueBulk
  <1> QED
    BY <1>7, <1>8, <1>9, <1>10 DEF Next

LEMMA LeaksNext ==
  ASSUME CInv, Blocks_Inv, NothingLeaks, [Next]_vars
  PROVE  NothingLeaks'
  <1>0. TypeInv /\ ProducerInv
    BY DEF CInv
  <1>1. CASE q.destroyed
    BY <1>0, <1>1, DestroyedStays DEF NothingLeaks, vars
  <1>2. CASE ~q.destroyed /\ Destroy
    <2>1. PICK off : BlockInv(off)
      BY <1>2 DEF Blocks_Inv
    <2> QED
      BY <1>2, <2>1, DestroyFrees
  <1>3. CASE ~q.destroyed /\ ~Destroy
    <2>1. ~q'.destroyed
      <3>1. CASE Producer \/ \E n \in 1..MaxBatch : EnqueueBulk(n)
        BY <1>0, <1>3, <3>1, EnqueuingNext
      <3>2. ASSUME NEW c \in Consumers, TryDequeue(c) \/ Consumer(c) PROVE ~q'.destroyed
        BY <1>0, <1>3, <3>2, ConsumerFrame
      <3>3. CASE AddProducer \/ Finished \/ UNCHANGED vars
        BY <1>0, <1>3, <3>3 DEF AddProducer, Finished, vars, TypeInv, QType
      <3> QED
        BY <1>3, <3>1, <3>2, <3>3 DEF Next
    <2> QED
      BY <2>1 DEF NothingLeaks
  <1> QED
    BY <1>1, <1>2, <1>3

LEMMA IInvInit == Init => IInv
  <1> SUFFICES ASSUME Init PROVE IInv
    OBVIOUS
  <1>1. \A c \in Consumers : co[c].pc = "idle"
    BY DEF Init, IdleConsumer
  <1>2. MovedOK
    BY <1>1 DEF MovedOK, At
  <1>3. NothingLeaks
    BY DEF Init, NothingLeaks
  <1> QED
    BY <1>2, <1>3, CInvInit, BlocksInit DEF IInv

LEMMA IInvNext == IInv /\ [Next]_vars => IInv'
  BY CInvNext, MovedNext, BlocksNext, LeaksNext DEF IInv

-----------------------------------------------------------------------------
(***************************************************************************)
(* What the invariant is for                                               *)
(***************************************************************************)

LEMMA ConsumersFind ==
  ASSUME CInv, NEW off, BlockInv(off)
  PROVE  ConsumersFindTheirBlock
  <1>0. TypeInv /\ ProducerInv
    BY DEF CInv
  <1> SUFFICES ASSUME NEW c \in Consumers, co[c].pc \in {"value", "set_empty", "unlink"}
               PROVE  /\ index.entries[co[c].entry].key = Base(co[c].index)
                      /\ BlockHeld(c) # null
                      /\ block[BlockHeld(c)].state = "used"
                      /\ co[c].pc # "unlink" =>
                            block[BlockHeld(c)].elementsCompletelyDequeued < BLOCK_SIZE
    BY DEF ConsumersFindTheirBlock
  <1>1. co[c].pc \in Served /\ co[c].pc \in Holding \cup {"unlink"}
    BY DEF Served, Holding, Reading
  <1>2. PICK i \in Nat : i = co[c].index /\ i < q.headIndex /\ q.headIndex <= q.tailIndex
    BY <1>1, ServedFacts
  <1>3. PICK x \in Owned : x = No(i) /\ x \in Int /\ x \in Nat
    BY <1>1, <1>2, ServedFacts
  <1>4. co[c].entry = Entry(off, index, x)
    BY <1>2, <1>3, IndexParts DEF Reach
  <1>5. BlockHeld(c) = Home(off, index, x)
    BY <1>4 DEF BlockHeld, Home, Value
  <1>6. Base(i) = KeyOf(x)
    <2>1. PICK t \in Nat, n \in Nat, h \in Nat, M \in Nat :
             t = q.tailIndex /\ n = pr.count /\ h = q.headIndex /\ M = IndexMod /\ 2 * (t + n) < M
      BY <1>0, ProducerFacts, SizesAssumption DEF TypeInv, QType
    <2>2. i < M
      BY <1>2, <2>1
    <2>3. i \in Int /\ 0 <= i /\ i < IndexMod
      BY <2>1, <2>2
    <2> QED
      BY <1>3, <2>3, BaseInRange
  <1>7. Keyed(index, Entry(off, index, x), x)
    BY HomeFacts
  <1>8. ASSUME co[c].pc # "unlink" PROVE block[Home(off, index, x)].elementsCompletelyDequeued < BLOCK_SIZE
    <2>1. block[Home(off, index, x)].elementsCompletelyDequeued + Cardinality(Holders(co, x))
             = Out(q.headIndex, x)
      BY IndexParts DEF Counts
    <2>2. c \in Holders(co, x)
      BY <1>2, <1>3, <1>8 DEF Holders, Holding, Reading
    <2>3. IsFiniteSet(Holders(co, x))
      <3>1. Holders(co, x) \subseteq Consumers /\ IsFiniteSet(Consumers)
        BY SizesAssumption DEF Holders
      <3> QED
        BY <3>1, FS_Subset
    <2>4. Cardinality(Holders(co, x)) \in Nat /\ Cardinality(Holders(co, x)) # 0
      BY <2>2, <2>3, FS_CardinalityType, FS_EmptySet
    <2>5. Out(q.headIndex, x) <= BLOCK_SIZE /\ Out(q.headIndex, x) \in Int
      <3>1. PICK h \in Nat, k \in Int, n \in Int, B \in Nat :
               /\ h = q.headIndex /\ k = KeyOf(x) /\ n = KeyOf(x + 1) /\ B = BLOCK_SIZE /\ n = k + B
        <4>1. q.headIndex \in Nat
          BY <1>0 DEF TypeInv, QType
        <4>2. KeyOf(x) \in Int /\ BLOCK_SIZE \in Nat /\ KeyOf(x + 1) = KeyOf(x) + BLOCK_SIZE
          BY <1>3, KeyType
        <4> QED
          BY <4>1, <4>2
      <3>2. Out(h, x) = IF h >= n THEN B ELSE IF h <= k THEN 0 ELSE h - k
        BY <3>1 DEF Out
      <3>3. Out(h, x) <= B /\ Out(h, x) \in Int
        BY <3>1, <3>2
      <3> QED
        BY <3>1, <3>3
    <2>6. PICK e \in Nat, m \in Nat, o \in Int, B \in Nat :
             /\ e = block[Home(off, index, x)].elementsCompletelyDequeued
             /\ m = Cardinality(Holders(co, x)) /\ o = Out(q.headIndex, x) /\ B = BLOCK_SIZE
      BY <2>4, <2>5, HomeFacts, SizesAssumption
    <2>7. e + m = o /\ m # 0 /\ o <= B
      BY <2>1, <2>4, <2>5, <2>6
    <2>8. e < B
      BY <2>7
    <2> QED
      BY <2>6, <2>8
  <1> QED
    BY <1>2, <1>4, <1>5, <1>6, <1>7, <1>8, HomeFacts DEF Keyed

LEMMA ProducerOwns ==
  ASSUME CInv, NEW off, BlockInv(off)
  PROVE  ProducerOwnsItsBlocks
  <1>0. TypeInv /\ ProducerInv
    BY DEF CInv
  <1>1. ASSUME pr.pc = "requisition", Slot(start) # 0 \/ pr.chain # <<>>
        PROVE  pr.tailBlock # null /\ block[pr.tailBlock].state = "used"
    <2>1. PICK L \in Int, l \in Nat, t \in Nat, h \in Nat :
             /\ L = LastNo /\ l = Len(pr.chain) /\ t = q.tailIndex /\ h = q.headIndex /\ h <= t
             /\ pr.undone = 0 /\ L = No(t - 1)
      <3>1. pr.undone = 0
        <4>1. pr.undone \in Nat
          BY <1>0, TailNoFacts
        <4> QED
          BY <1>0, <1>1, <4>1 DEF ProducerInv
      <3>2. q.headIndex \in Nat /\ q.headIndex <= q.tailIndex
        BY <1>0, HeadCovered DEF TypeInv, QType
      <3> QED
        BY <1>0, <3>1, <3>2, ProducerFacts DEF LastNo
    <2>2. Chained(off, index, Owned, LastNo, pr.chain, pr.undone, First)
      BY IndexParts
    <2>3. CASE pr.chain # <<>>
      <3>1. l > 0 /\ pr.tailBlock = pr.chain[l]
        <4>1. pr.chain \in Seq(Blocks)
          BY <1>0, TailNoFacts
        <4> QED
          BY <1>0, <1>1, <2>1, <2>3, <4>1 DEF ProducerInv
      <3>2. PICK x \in Int : x = L + l
        BY <2>1
      <3>3. x \in Owned
        <4>1. x \in ChainNos(LastNo, pr.chain, pr.undone)
          BY <2>1, <3>1, <3>2 DEF ChainNos
        <4> QED
          BY <4>1 DEF Owned
      <3>4. Home(off, index, x) = pr.chain[l]
        <4>1. l \in 1..Len(pr.chain) /\ l > pr.undone
          BY <2>1, <3>1
        <4>2. Home(off, index, LastNo + l) = pr.chain[l]
          BY <2>2, <4>1 DEF Chained
        <4> QED
          BY <2>1, <3>2, <4>2
      <3> QED
        BY <3>1, <3>3, <3>4, HomeFacts
    <2>4. CASE pr.chain = <<>>
      <3>1. Slot(t) # 0
        BY <1>1, <2>1, <2>4 DEF start
      <3>2. PICK x \in Int, k \in Int, B \in Nat :
               /\ x = No(t) /\ k = KeyOf(x) /\ B = BLOCK_SIZE /\ B > 1 /\ KeyOf(x + 1) = k + B
               /\ k < t /\ t < k + B /\ x \in Nat
        <4>1. t \in Int /\ t >= 0
          OBVIOUS
        <4>2. /\ No(t) \in Int /\ t = KeyOf(No(t)) + Slot(t) /\ Slot(t) \in 0..(BLOCK_SIZE - 1)
              /\ t < KeyOf(No(t)) + BLOCK_SIZE /\ No(t) >= 0
          BY <4>1, NoFacts
        <4>3. PICK z \in Int : z = No(t) /\ z >= 0
          BY <4>2
        <4>4. PICK k \in Int, B \in Nat : k = KeyOf(z) /\ B = BLOCK_SIZE /\ B > 1 /\ KeyOf(z + 1) = k + B
          BY KeyType
        <4>5. k < t /\ t < k + B
          BY <3>1, <4>2, <4>3, <4>4
        <4> QED
          BY <4>3, <4>4, <4>5
      <3>3. x = L
        <4>1. PICK T \in Int : T = t - 1
          OBVIOUS
        <4>2. KeyOf(x) <= T /\ T < KeyOf(x) + BLOCK_SIZE
          BY <3>2, <4>1
        <4>3. No(T) = x
          BY <4>2, NoUnique
        <4> QED
          BY <2>1, <4>1, <4>3
      <3>4. x \in Owned
        <4>1. KeyOf(x) < t /\ h < KeyOf(x + 1)
          BY <2>1, <3>2
        <4> QED
          BY <2>1, <3>2, <4>1 DEF Owned, Linked
      <3>5. Home(off, index, x) = pr.tailBlock
        <4>1. pr.tailBlock = First
          BY <1>0, <1>1, <2>4 DEF ProducerInv, First
        <4> QED
          BY <2>1, <2>2, <3>3, <3>4, <4>1 DEF Chained
      <3> QED
        BY <3>4, <3>5, HomeFacts
    <2> QED
      BY <2>3, <2>4
  <1>2. ASSUME pr.pc = "fill", NEW i \in NewElements
        PROVE  BlockOf(i) # null /\ block[BlockOf(i)].state = "used"
    BY <1>2, NewElementsFacts, HomeFacts
  <1> QED
    BY <1>1, <1>2 DEF ProducerOwnsItsBlocks

LEMMA InUseStay == IInv => BlocksInUseStay
  <1> SUFFICES ASSUME IInv PROVE BlocksInUseStay
    OBVIOUS
  <1>1. CASE ~q.destroyed
    <2>1. PICK off : BlockInv(off)
      BY <1>1 DEF IInv, Blocks_Inv
    <2> QED
      BY <2>1, ConsumersFind, ProducerOwns DEF IInv, BlocksInUseStay
  <1>2. CASE q.destroyed
    <2>1. pr.pc = "idle" /\ \A c \in Consumers : co[c].pc = "idle"
      BY <1>2 DEF IInv, CInv, ProducerInv, Quiet
    <2> QED
      BY <2>1 DEF BlocksInUseStay, ConsumersFindTheirBlock, ProducerOwnsItsBlocks
  <1> QED
    BY <1>1, <1>2

\* The block index leads every consumer that has claimed an element to the
\* block of the element, which is nobody else's (get_block_index_index_for_index,
\* set_empty), and enqueue_bulk links and fills blocks that are the producer's
\* own, for every block size, index size, number of consumers and interleaving.
THEOREM BlocksStayInUse == Spec => []BlocksInUseStay
  BY IInvInit, IInvNext, InUseStay, PTL DEF Spec

\* ~ImplicitProducer gives every block back and destroys every element.
THEOREM NothingIsLeaked == Spec => []NothingLeaks
  <1>1. IInv => NothingLeaks
    BY DEF IInv
  <1> QED
    BY IInvInit, IInvNext, <1>1, PTL DEF Spec

-----------------------------------------------------------------------------
(***************************************************************************)
(* The refinement of FifoQueue                                             *)
(***************************************************************************)

\* What a consumer holds.
Holds(C, c) ==
    IF C[c].pc \in {"header", "slot", "key", "value"} THEN C[c].index
    ELSE IF C[c].pc \in {"set_empty", "unlink", "release"} THEN C[c].item ELSE None
Held(C) == [c \in Consumers |-> Holds(C, c)]

\* Steps of FifoQueue, from t, h and H to u, g and G.
Enqueues(t, h, H, u, g, G) == u \in Nat /\ u > t /\ g = h /\ G = H
Claims(c, t, h, H, u, g, G) ==
    H[c] = None /\ h < t /\ G = [H EXCEPT ![c] = h] /\ g = h + 1 /\ u = t
Returns(c, t, h, H, u, g, G) ==
    H[c] # None /\ G = [H EXCEPT ![c] = None] /\ u = t /\ g = h
Steps(t, h, H, u, g, G) ==
    \/ Enqueues(t, h, H, u, g, G)
    \/ \E c \in Consumers : Claims(c, t, h, H, u, g, G) \/ Returns(c, t, h, H, u, g, G)
    \/ u = t /\ g = h /\ G = H

LEMMA FifoHeld ==
  /\ Held(co) = [c \in Consumers |-> IF Claimed(c) THEN co[c].index
                                     ELSE IF Moved(c) THEN co[c].item ELSE None]
  /\ Held(co') = [c \in Consumers |-> IF Claimed(c) THEN co[c].index
                                      ELSE IF Moved(c) THEN co[c].item ELSE None]'
  BY DEF Held, Holds, Claimed, Moved

LEMMA FifoSteps ==
  ASSUME Steps(q.tailIndex, q.headIndex, Held(co), q'.tailIndex, q'.headIndex, Held(co'))
  PROVE  [Fifo!Next]_(Fifo!vars)
  BY FifoHeld DEF Steps, Enqueues, Claims, Returns, Fifo!Next, Fifo!Enqueue, Fifo!Claim,
     Fifo!Return, Fifo!vars

LEMMA HeldStays ==
  ASSUME NEW c \in Consumers, OthersStay(c), Holds(co', c) = Holds(co, c)
  PROVE  Held(co') = Held(co)
  <1>1. \A d \in Consumers : Holds(co', d) = Holds(co, d)
    BY DEF OthersStay, Holds
  <1> QED
    BY <1>1 DEF Held

LEMMA HeldChanges ==
  ASSUME NEW c \in Consumers, OthersStay(c), NEW v, Holds(co', c) = v
  PROVE  Held(co') = [Held(co) EXCEPT ![c] = v]
  <1>1. \A d \in Consumers : d # c => Holds(co', d) = Holds(co, d)
    BY DEF OthersStay, Holds
  <1> QED
    BY <1>1 DEF Held

LEMMA ConsumerRefines ==
  ASSUME IInv, NEW c \in Consumers, TryDequeue(c) \/ Consumer(c)
  PROVE  Steps(q.tailIndex, q.headIndex, Held(co), q'.tailIndex, q'.headIndex, Held(co'))
  <1>0. CInv /\ TypeInv /\ ProducerInv /\ Counters /\ MovedOK /\ Blocks_Inv
    BY DEF IInv, CInv
  <1>1. ASSUME OthersStay(c), Holds(co', c) = Holds(co, c), q'.tailIndex = q.tailIndex,
               q'.headIndex = q.headIndex
        PROVE  Steps(q.tailIndex, q.headIndex, Held(co), q'.tailIndex, q'.headIndex, Held(co'))
    BY <1>1, HeldStays DEF Steps
  <1>2. ASSUME OthersStay(c), co[c].pc \in {"set_empty", "release"}, co'[c].pc = "idle",
               q' = q
        PROVE  Steps(q.tailIndex, q.headIndex, Held(co), q'.tailIndex, q'.headIndex, Held(co'))
    <2>1. Holds(co', c) = None
      BY <1>2 DEF Holds
    <2>2. Held(co)[c] = co[c].item
      BY <1>2 DEF Held, Holds
    <2>3. co[c].item = co[c].index
      BY <1>0, <1>2 DEF MovedOK, At
    <2>4. co[c].index \in Nat
      BY <1>0, <1>2, ServedFacts DEF Served, Holding
    <2>5. Held(co)[c] # None
      BY <2>2, <2>3, <2>4 DEF None
    <2>6. Held(co') = [Held(co) EXCEPT ![c] = None]
      BY <1>2, <2>1, HeldChanges
    <2>7. Returns(c, q.tailIndex, q.headIndex, Held(co), q'.tailIndex, q'.headIndex, Held(co'))
      BY <1>2, <2>5, <2>6 DEF Returns
    <2> QED
      BY <2>7 DEF Steps
  <1>3. CASE \/ TryDequeue(c) \/ SizeTail(c) \/ SizeHead(c) \/ LooksEmpty(c)
             \/ LoadTail(c) \/ LoadOvercommit(c) \/ CheckCount(c) \/ CountDequeue(c)
             \/ Recheck(c) \/ Overcommit(c)
    <2>1. /\ OthersStay(c)
          /\ co[c].pc \in {"idle", "size_tail", "size_head", "tail", "overcommit", "check",
                           "count", "recheck"}
          /\ co'[c].pc \in {"idle", "size_tail", "size_head", "tail", "overcommit", "check",
                            "count", "recheck", "claim"}
      <3>1. CASE TryDequeue(c) \/ SizeTail(c) \/ SizeHead(c) \/ LoadTail(c) \/ LoadOvercommit(c)
        BY <1>0, <3>1, TryDequeueFields, SizeTailFields, SizeHeadFields, LoadTailFields,
           LoadOvercommitFields
      <3>2. CASE CheckCount(c) \/ CountDequeue(c) \/ Recheck(c)
        BY <1>0, <3>2, CheckCountFields, CountDequeueFields, RecheckFields
      <3>3. CASE LooksEmpty(c) \/ Overcommit(c)
        BY <1>0, <3>3, LooksEmptyFields, OvercommitFields
      <3> QED
        BY <1>3, <3>1, <3>2, <3>3
    <2>2. q'.tailIndex = q.tailIndex /\ q'.headIndex = q.headIndex
      BY <1>0, <1>3 DEF TypeInv, QType, TryDequeue, SizeTail, SizeHead, LooksEmpty, LoadTail,
         LoadOvercommit, CheckCount, CountDequeue, Recheck, Overcommit
    <2>3. Holds(co', c) = Holds(co, c)
      BY <2>1 DEF Holds
    <2> QED
      BY <1>1, <2>1, <2>2, <2>3
  <1>4. CASE Claim(c)
    <2>1. /\ q.headIndex < q.tailIndex /\ q'.headIndex = q.headIndex + 1
          /\ q'.tailIndex = q.tailIndex
      BY <1>0, <1>4, ClaimSteps
    <2>2. /\ OthersStay(c) /\ co[c].pc = "claim" /\ co'[c].pc = "header"
          /\ co'[c].index = q.headIndex
      BY <1>0, <1>4, ClaimFields
    <2>3. Holds(co', c) = q.headIndex /\ Held(co)[c] = None
      BY <2>2 DEF Holds, Held
    <2>4. Held(co') = [Held(co) EXCEPT ![c] = q.headIndex]
      BY <2>2, <2>3, HeldChanges
    <2>5. Claims(c, q.tailIndex, q.headIndex, Held(co), q'.tailIndex, q'.headIndex, Held(co'))
      BY <2>1, <2>3, <2>4 DEF Claims
    <2> QED
      BY <2>5 DEF Steps
  <1>5. CASE LoadHeader(c) \/ LoadIndexTail(c) \/ LoadTailKey(c)
    <2>1. /\ OthersStay(c) /\ co[c].pc \in {"header", "slot", "key"}
          /\ co'[c].pc \in {"slot", "key", "value"} /\ co'[c].index = co[c].index /\ q' = q
      BY <1>0, <1>5, LoadHeaderFields, LoadIndexTailFields, LoadTailKeyFields
    <2>2. Holds(co', c) = Holds(co, c)
      BY <2>1 DEF Holds
    <2> QED
      BY <1>1, <2>1, <2>2
  <1>6. CASE MoveElement(c)
    <2>1. /\ OthersStay(c) /\ co[c].pc = "value" /\ co'[c].pc = "set_empty" /\ q' = q
      BY <1>0, <1>6, MoveElementFields
    <2>2. PICK off : BlockInv(off)
      BY <1>0, <2>1 DEF ProducerInv, Quiet, Blocks_Inv
    <2>3. co'[c].item = co[c].index
      BY <1>0, <1>6, <2>2, MoveElementKeeps
    <2>4. Holds(co', c) = Holds(co, c)
      BY <2>1, <2>3 DEF Holds
    <2> QED
      BY <1>1, <2>1, <2>4
  <1>7. CASE SetEmpty(c)
    <2>1. OthersStay(c) /\ co[c].pc = "set_empty" /\ q' = q
      BY <1>0, <1>7, SetEmptyFields
    <2>2. \/ co'[c].pc = "unlink" /\ co'[c].item = co[c].item
          \/ co'[c].pc = "idle"
      BY <1>0, <1>7, SetEmptyFields
    <2>3. CASE co'[c].pc = "unlink" /\ co'[c].item = co[c].item
      <3>1. Holds(co', c) = Holds(co, c)
        BY <2>1, <2>3 DEF Holds
      <3> QED
        BY <1>1, <2>1, <3>1
    <2>4. CASE co'[c].pc = "idle"
      BY <1>2, <2>1, <2>4
    <2> QED
      BY <2>2, <2>3, <2>4
  <1>8. CASE Unlink(c)
    <2>1. /\ OthersStay(c) /\ co[c].pc = "unlink" /\ co'[c].pc = "release"
          /\ co'[c].item = co[c].item /\ q' = q
      BY <1>0, <1>8, UnlinkFields
    <2>2. Holds(co', c) = Holds(co, c)
      BY <2>1 DEF Holds
    <2> QED
      BY <1>1, <2>1, <2>2
  <1>9. CASE AddBlockToFreeList(c)
    <2>1. OthersStay(c) /\ co[c].pc = "release" /\ co'[c].pc = "idle" /\ q' = q
      BY <1>0, <1>9, ReleaseFields
    <2> QED
      BY <1>2, <2>1
  <1> QED
    BY <1>3, <1>4, <1>5, <1>6, <1>7, <1>8, <1>9 DEF Consumer

LEMMA OtherRefines ==
  ASSUME IInv, \/ Producer \/ \E n \in 1..MaxBatch : EnqueueBulk(n)
               \/ AddProducer \/ Destroy \/ Finished \/ UNCHANGED vars
  PROVE  Steps(q.tailIndex, q.headIndex, Held(co), q'.tailIndex, q'.headIndex, Held(co'))
  <1>0. TypeInv /\ ProducerInv
    BY DEF IInv, CInv
  <1>1. co' = co
    BY DEF Producer, InsertKey, GrowIndex, InsertFails, InsertTail, RequisitionBlock,
       RequisitionFails, RewindInserted, RewindBlock, EnqueueFails, Fill, Publish,
       EnqueueBulk, AddProducer, Destroy, Finished, vars
  <1>2. q'.headIndex = q.headIndex
    <2>1. CASE Producer \/ \E n \in 1..MaxBatch : EnqueueBulk(n)
      BY <1>0, <2>1, EnqueuingNext
    <2>2. CASE AddProducer \/ Destroy \/ Finished \/ UNCHANGED vars
      BY <1>0, <2>2, OtherFrame
    <2> QED
      BY <2>1, <2>2
  <1>3. q'.tailIndex = q.tailIndex \/ (q'.tailIndex \in Nat /\ q'.tailIndex > q.tailIndex)
    <2>1. CASE Producer \/ \E n \in 1..MaxBatch : EnqueueBulk(n)
      <3>1. \/ q'.tailIndex = q.tailIndex
            \/ Publish /\ q'.tailIndex = q.tailIndex + pr.count
        BY <1>0, <2>1, EnqueuingNext
      <3>2. PICK t \in Nat, n \in Nat : t = q.tailIndex /\ n = pr.count
        BY <1>0, ProducerFacts
      <3>3. Publish => n > 0
        BY <1>0, <3>2 DEF Publish, ProducerInv
      <3> QED
        BY <3>1, <3>2, <3>3
    <2>2. CASE AddProducer \/ Destroy \/ Finished \/ UNCHANGED vars
      BY <1>0, <2>2, OtherFrame
    <2> QED
      BY <2>1, <2>2
  <1> QED
    BY <1>1, <1>2, <1>3 DEF Steps, Enqueues

LEMMA NextRefines == IInv /\ [Next]_vars => [Fifo!Next]_(Fifo!vars)
  <1> SUFFICES ASSUME IInv, [Next]_vars PROVE [Fifo!Next]_(Fifo!vars)
    OBVIOUS
  <1>1. Steps(q.tailIndex, q.headIndex, Held(co), q'.tailIndex, q'.headIndex, Held(co'))
    BY ConsumerRefines, OtherRefines DEF Next
  <1> QED
    BY <1>1, FifoSteps

LEMMA InitRefines == Init => Fifo!Init
  <1> SUFFICES ASSUME Init PROVE Fifo!Init
    OBVIOUS
  <1>1. q.tailIndex = 0 /\ q.headIndex = 0
    BY DEF Init
  <1>2. \A c \in Consumers : co[c].pc = "idle"
    BY DEF Init, IdleConsumer
  <1> QED
    BY <1>1, <1>2 DEF Fifo!Init, Claimed, Moved

\* The queue is the queue that FifoQueue promises: it hands element i to one
\* consumer, in the order of the indices, and what a consumer moves out of a
\* block is the element it claimed (enqueue_bulk, try_dequeue).
THEOREM QueueImplementsFifo == Spec => ImplementsFifo
  BY IInvInit, IInvNext, InitRefines, NextRefines, PTL DEF Spec, ImplementsFifo, Fifo!Spec

-----------------------------------------------------------------------------
(***************************************************************************)
(* What FifoQueue promises                                                 *)
(***************************************************************************)

\* The invariant of FifoQueue.
Once(t, h, H) ==
    /\ t \in Nat /\ h \in Nat /\ H \in [Consumers -> Nat \cup {None}]
    /\ h <= t
    /\ \A c \in Consumers : H[c] # None => H[c] < h
    /\ \A c, d \in Consumers : c # d /\ H[c] # None => H[c] # H[d]

LEMMA StepsKeepOnce ==
  ASSUME NEW t, NEW h, NEW H, NEW u, NEW g, NEW G, Once(t, h, H), Steps(t, h, H, u, g, G)
  PROVE  Once(u, g, G)
  <1> USE DEF Once
  <1>1. CASE Enqueues(t, h, H, u, g, G)
    BY <1>1 DEF Enqueues
  <1>2. ASSUME NEW c \in Consumers, Claims(c, t, h, H, u, g, G) PROVE Once(u, g, G)
    <2>1. G \in [Consumers -> Nat \cup {None}]
      BY <1>2 DEF Claims
    <2>2. g \in Nat /\ u \in Nat /\ g <= u /\ \A d \in Consumers : G[d] # None => G[d] < g
      BY <1>2 DEF Claims
    <2>3. \A d, e \in Consumers : d # e /\ G[d] # None => G[d] # G[e]
      BY <1>2 DEF Claims
    <2> QED
      BY <2>1, <2>2, <2>3
  <1>3. ASSUME NEW c \in Consumers, Returns(c, t, h, H, u, g, G) PROVE Once(u, g, G)
    BY <1>3 DEF Returns
  <1>4. CASE u = t /\ g = h /\ G = H
    BY <1>4
  <1> QED
    BY <1>1, <1>2, <1>3, <1>4 DEF Steps

LEMMA FifoNext ==
  ASSUME [Fifo!Next]_(Fifo!vars)
  PROVE  Steps(q.tailIndex, q.headIndex, Held(co), q'.tailIndex, q'.headIndex, Held(co'))
  BY FifoHeld DEF Steps, Enqueues, Claims, Returns, Fifo!Next, Fifo!Enqueue, Fifo!Claim,
     Fifo!Return, Fifo!vars

\* A queue that implements FifoQueue never deals an element to two consumers,
\* and none that was not enqueued (try_dequeue of a ready queue).
THEOREM FifoDealsOutOnce == Fifo!Spec => []Fifo!EachElementOnce
  <1>1. Fifo!Init => Once(q.tailIndex, q.headIndex, Held(co))
    BY FifoHeld DEF Fifo!Init, Once
  <1>2. Once(q.tailIndex, q.headIndex, Held(co)) /\ [Fifo!Next]_(Fifo!vars)
           => Once(q.tailIndex, q.headIndex, Held(co))'
    <2>1. Held(co)' = Held(co')
      BY DEF Held, Holds
    <2> QED
      BY <2>1, FifoNext, StepsKeepOnce
  <1>3. Once(q.tailIndex, q.headIndex, Held(co)) => Fifo!EachElementOnce
    BY FifoHeld DEF Once, Fifo!EachElementOnce
  <1> QED
    BY <1>1, <1>2, <1>3, PTL DEF Fifo!Spec

\* Two workers never hold the same bundle of the ready queue, and a worker
\* never holds one that the dispatcher has not enqueued.
THEOREM ElementsAreDealtOutOnce == Spec => []Fifo!EachElementOnce
  BY QueueImplementsFifo, FifoDealsOutOnce, PTL DEF ImplementsFifo
=============================================================================
