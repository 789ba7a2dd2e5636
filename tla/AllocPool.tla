----------------------------- MODULE AllocPool ------------------------------
(***************************************************************************)
(* A memory pool (alloc_pool.cpp) and the chain links of alloc_buffer.cpp: *)
(* blocks of one size that requests are cut from, large requests that are  *)
(* allocated apart, and handlers that run when the pool goes.  Addresses   *)
(* are offsets in a block, so a piece is a block and a range.              *)
(***************************************************************************)
EXTENDS Naturals, Sequences, FiniteSets

CONSTANTS
  Align,      \* alloc_align_ment
  PoolHead,   \* sizeof(tag_pool), at the start of the first block
  BlockHead,  \* sizeof(tag_pool_data), at the start of the others
  BlockSize,  \* the size the pool was created with, and of every block
  PoolMax,    \* 0x8FFF, whatever the size
  Patience,   \* failures a block may have before it is passed over: 4
  SlotTries,  \* large slots looked at for a free one: 3
  SlotSize,   \* sizeof(tag_pool_large)
  NoteSize,   \* sizeof(tag_pool_cleanup)
  Requests,   \* sizes asked for
  MaxBlocks,  \* bound: blocks
  MaxLarge    \* bound: large allocations

ASSUME PoolAssumption ==
  /\ Align \in Nat \ {0} /\ {BlockSize, PoolHead, BlockHead} \subseteq {Align * k : k \in 0 .. BlockSize}
  /\ BlockHead <= PoolHead /\ PoolHead <= BlockSize
  /\ {PoolMax, Patience, SlotTries, SlotSize, NoteSize, MaxBlocks, MaxLarge} \subseteq Nat
  /\ Requests \subseteq Nat
  /\ SlotSize + PoolHead <= PoolMax /\ NoteSize + PoolHead <= PoolMax

VARIABLES
  pool,   \* blocks, current, large slots (0 is no allocation), cleanup records
  pieces, \* history: what was cut from the blocks since the last reset
  larges, \* history: of each large allocation, how often it was freed
  ran,    \* history: of each cleanup record, how often its handler ran
  resets  \* history: whether the pool was reset

poolVars == <<pool, pieces, larges, ran, resets>>

AlignUp(n) == ((n + Align - 1) \div Align) * Align
Piece(block, from, size, of) == [block |-> block, from |-> from, to |-> from + size, of |-> of]

\* alloc_pool_create
PoolInit ==
  /\ pool = [blocks |-> <<[last |-> PoolHead, failed |-> 0]>>, current |-> 1,
             slots |-> <<>>, cleanup |-> <<>>, alive |-> TRUE]
  /\ pieces = {} /\ larges = <<>> /\ ran = <<>> /\ resets = FALSE

-----------------------------------------------------------------------------
\* The comparison is of unsigned numbers: an address past the end fits anything.
FitsIn(b, size) == LET m == AlignUp(b.last) IN m > BlockSize \/ BlockSize - m >= size

Fitting(p, size) == {i \in p.current .. Len(p.blocks) : FitsIn(p.blocks[i], size)}
FirstOf(S)       == CHOOSE i \in S : \A j \in S : i <= j

\* alloc_pool_block: every block that was tried has failed once more.
Tired(p) == {i \in p.current .. Len(p.blocks) - 1 : p.blocks[i].failed > Patience}
FailedOnce(p) ==
  [i \in DOMAIN p.blocks |-> IF i >= p.current /\ i < Len(p.blocks)
                             THEN [p.blocks[i] EXCEPT !.failed = @ + 1] ELSE p.blocks[i]]
BlockAdded(p, size) ==
  [p EXCEPT !.blocks  = Append(FailedOnce(p), [last |-> AlignUp(BlockHead) + size, failed |-> 0]),
            !.current = IF Tired(p) = {} THEN @
                        ELSE 1 + (CHOOSE i \in Tired(p) : \A j \in Tired(p) : j <= i)]

\* alloc_pool_small: the pool, and the place of the piece.
SmallUnaligned(p, size) ==
  IF Fitting(p, size) # {}
  THEN LET i == FirstOf(Fitting(p, size)) IN
       [pool |-> [p EXCEPT !.blocks[i].last = AlignUp(@) + size], at |-> <<i, p.blocks[i].last>>]
  ELSE [pool |-> BlockAdded(p, size), at |-> <<Len(p.blocks) + 1, AlignUp(BlockHead)>>]
Small(p, size) ==
  IF Fitting(p, size) # {}
  THEN LET i == FirstOf(Fitting(p, size))  m == AlignUp(p.blocks[i].last) IN
       [pool |-> [p EXCEPT !.blocks[i].last = m + size], at |-> <<i, m>>]
  ELSE [pool |-> BlockAdded(p, size), at |-> <<Len(p.blocks) + 1, AlignUp(BlockHead)>>]

IsSmall(size) == size + PoolHead <= PoolMax

\* alloc_pool_ptr of a small size: a piece for this purpose.  malloc of a new
\* block may fail, and then nothing has changed.
CanCut(p, size) == Fitting(p, size) # {} \/ Len(p.blocks) < MaxBlocks
Cut(p, size, of) ==
  LET s == Small(p, size) IN [pool |-> s.pool, piece |-> Piece(s.at[1], s.at[2], size, of)]

PtrSmall(size) ==
  /\ pool.alive /\ IsSmall(size) /\ CanCut(pool, size)
  /\ pool' = Cut(pool, size, "user").pool
  /\ pieces' = pieces \cup {Cut(pool, size, "user").piece}
  /\ UNCHANGED <<larges, ran, resets>>

\* alloc_pool_large; the slot it needs is cut from the pool.
FreeSlots(p) == {i \in DOMAIN p.slots : p.slots[i] = 0 /\ i <= SlotTries + 2}
PtrLarge(size) ==
  /\ pool.alive /\ ~IsSmall(size) /\ Len(larges) < MaxLarge
  /\ larges' = Append(larges, 0)
  /\ IF FreeSlots(pool) # {}
     THEN /\ pool' = [pool EXCEPT !.slots[FirstOf(FreeSlots(pool))] = Len(larges) + 1]
          /\ UNCHANGED pieces
     ELSE LET c == Cut(pool, SlotSize, "slot") IN
          /\ CanCut(pool, SlotSize)
          /\ pool' = [c.pool EXCEPT !.slots = <<Len(larges) + 1>> \o @]
          /\ pieces' = pieces \cup {c.piece}
  /\ UNCHANGED <<ran, resets>>

\* alloc_pool_add_cleanup, whose second allocation may fail: the record is
\* then lost, and no handler runs for it.
AddCleanup(size) ==
  LET note == Cut(pool, NoteSize, "note")  data == Cut(note.pool, size, "user")
      Added(p) == [p EXCEPT !.cleanup = <<Len(ran) + 1>> \o @]
  IN
  /\ pool.alive /\ IsSmall(size) /\ CanCut(pool, NoteSize) /\ Len(ran) < MaxLarge
  /\ \/ /\ size = 0
        /\ pool' = Added(note.pool) /\ pieces' = pieces \cup {note.piece} /\ ran' = Append(ran, 0)
     \/ /\ size > 0 /\ CanCut(note.pool, size)
        /\ pool' = Added(data.pool) /\ pieces' = pieces \cup {note.piece, data.piece}
        /\ ran' = Append(ran, 0)
     \/ /\ size > 0 /\ pool' = note.pool /\ pieces' = pieces \cup {note.piece} /\ UNCHANGED ran
  /\ UNCHANGED <<larges, resets>>

FreedOf(p) == {p.slots[i] : i \in DOMAIN p.slots} \ {0}
Freed(p)   == [i \in DOMAIN larges |-> IF i \in FreedOf(p) THEN larges[i] + 1 ELSE larges[i]]

\* alloc_pool_reset: the large slots go, the cleanup records stay on the list.
Reset ==
  /\ pool.alive
  /\ pool' = [pool EXCEPT !.blocks = [i \in DOMAIN @ |-> [last |-> PoolHead, failed |-> 0]],
                          !.current = 1, !.slots = <<>>]
  /\ pieces' = {} /\ larges' = Freed(pool) /\ resets' = TRUE
  /\ UNCHANGED ran

\* alloc_pool_destory: handlers, large allocations, blocks.
Destroy ==
  /\ pool.alive
  /\ pool' = [pool EXCEPT !.alive = FALSE]
  /\ ran' = [i \in DOMAIN ran |-> ran[i] + Cardinality({j \in DOMAIN pool.cleanup : pool.cleanup[j] = i})]
  /\ larges' = Freed(pool) /\ pieces' = {}
  /\ UNCHANGED resets

PoolNext == (\E size \in Requests : PtrSmall(size) \/ PtrLarge(size) \/ AddCleanup(size)) \/ Reset \/ Destroy

-----------------------------------------------------------------------------
\* What a later block has room for.  Nothing checks that a request fits it:
\* PoolMax does not depend on the size of the blocks.
RoomOf(block) == BlockSize - (IF block = 1 THEN PoolHead ELSE BlockHead)

\* If no request is larger than the room of a block, every piece lies in its
\* block behind the header, no two share a byte, and all are aligned, however
\* often blocks were passed over (alloc_pool_small, alloc_pool_block).
PiecesApart ==
  (\A size \in Requests \cup {SlotSize, NoteSize} : IsSmall(size) => size <= RoomOf(2)) =>
  /\ \A a \in pieces : /\ a.from >= (IF a.block = 1 THEN PoolHead ELSE BlockHead)
                       /\ a.to <= BlockSize /\ a.from % Align = 0
                       /\ a.to <= pool.blocks[a.block].last
  /\ \A a, b \in pieces : a # b => a.block # b.block \/ a.to <= b.from \/ b.to <= a.from
FreedOnce ==
  /\ \A i \in DOMAIN larges : larges[i] <= 1
  /\ ~pool.alive => /\ \A i \in DOMAIN larges : larges[i] = 1
                    /\ ~resets => \A i \in DOMAIN ran : ran[i] = 1

\* And no large allocation is freed twice; when the pool is gone all were
\* freed and, if the pool was never reset, each handler ran once: a reset
\* hands out the records of the handlers again (alloc_pool_reset,
\* alloc_pool_destory).
PoolSound == PiecesApart /\ FreedOnce
=============================================================================
