---------------------------- MODULE CircuitQueue ----------------------------
(***************************************************************************)
(* circuit_queue: a ring of data with some room behind it, and the packet  *)
(* buffer of nodes_testing.cpp on top of it.  What is written is a stream  *)
(* of numbered items; junk stands for what was never written.              *)
(***************************************************************************)
EXTENDS Integers, Sequences

CONSTANTS
  Size,     \* m_size
  Extra,    \* m_extra_size
  Lengths,  \* lengths asked for
  Junk,
  MaxItems  \* bound: items written

ASSUME QueueAssumption ==
  Size \in Nat \ {0} /\ Extra \in Nat /\ Lengths \subseteq 0 .. Size /\ MaxItems \in Nat /\ Junk \notin Nat

VARIABLES
  ring,     \* m_data, m_head, m_tail, m_length
  written,  \* history: items enqueued
  taken,    \* history: items the head went past
  beyond    \* history: whether a copy ran over the end of the ring

queueVars == <<ring, written, taken, beyond>>

Places == 0 .. Size + Extra - 1

\* create; m_head, m_tail and m_length are those of the constructor.
QueueInit ==
  /\ ring = [data |-> [i \in Places |-> Junk], head |-> 0, tail |-> 0, length |-> 0]
  /\ written = 0 /\ taken = 0 /\ beyond = FALSE

Space     == Size - ring.length
BackCount == Size - ring.head

Readable == IF ring.head = ring.tail THEN (IF ring.length > 0 THEN Size - ring.head ELSE 0)
            ELSE IF ring.head < ring.tail THEN ring.tail - ring.head ELSE Size - ring.head

Writable == IF ring.head = ring.tail THEN (IF ring.length > 0 THEN 0 ELSE Size - ring.tail)
            ELSE IF ring.head < ring.tail THEN Size - ring.tail ELSE ring.head - ring.tail

\* Copies the next items of the stream to this place, as far as there is one.
Put(data, at, first, count) ==
  [i \in Places |-> IF i \in at .. at + count - 1 THEN first + i - at ELSE data[i]]

Advanced(count) == [ring EXCEPT !.tail = (@ + count) % Size, !.length = @ + count]

EnqueueSameSource(count) ==
  LET back   == Size - ring.tail
      wraps  == ring.head <= ring.tail /\ back < count
      first  == IF wraps THEN back ELSE count
      copied == Put(ring.data, ring.tail, written + 1, first)
  IN
  /\ Space >= count /\ written + count <= MaxItems
  /\ ring' = [Advanced(count) EXCEPT
                !.data = IF wraps THEN Put(copied, 0, written + 1, count - back) ELSE copied]
  /\ beyond' = (beyond \/ ring.tail + first > Size)
  /\ written' = written + count
  /\ UNCHANGED taken

\* enqueue of data: it wraps only when the free room is in two parts.
Enqueue(count) ==
  LET back   == Size - ring.tail
      wraps  == ring.head <= ring.tail /\ back < count
      first  == IF wraps THEN back ELSE count
      copied == Put(ring.data, ring.tail, written + 1, first)
  IN
  /\ Space >= count /\ written + count <= MaxItems
  /\ ring' = [Advanced(count) EXCEPT
                !.data = IF wraps THEN Put(copied, 0, written + 1 + back, count - back) ELSE copied]
  /\ beyond' = (beyond \/ ring.tail + first > Size)
  /\ written' = written + count
  /\ UNCHANGED taken

\* nodes_buffer::completion: the data was received at the write pointer, no
\* more of it than is writable there.
Completion(count) ==
  /\ count <= Writable /\ Space >= count /\ written + count <= MaxItems
  /\ ring' = [Advanced(count) EXCEPT !.data = Put(ring.data, ring.tail, written + 1, count)]
  /\ written' = written + count
  /\ UNCHANGED <<taken, beyond>>

CanPeek(count) == ring.length >= count

\* What peek copies out.
Peek(count) ==
  [i \in 1 .. count |->
     IF ring.head < ring.tail \/ BackCount >= count \/ i <= BackCount
     THEN ring.data[ring.head + i - 1] ELSE ring.data[i - 1 - BackCount]]

\* dequeue: the test is inverted, so that it goes on only when peek fails.
Dequeue(count) ==
  /\ ~CanPeek(count) /\ taken + count <= MaxItems
  /\ ring' = [ring EXCEPT !.head = (@ + count) % Size, !.length = @ - count]
  /\ taken' = taken + count
  /\ UNCHANGED <<written, beyond>>

\* get_first_packet_ptr: the part at the start of the ring is copied behind it,
\* and past the room there when it is longer than that.
FirstPacket(count) ==
  /\ CanPeek(count) /\ BackCount < count
  /\ ring' = [ring EXCEPT !.data = [i \in Places |-> IF i \in Size .. Size + count - BackCount - 1
                                                     THEN @[i - Size] ELSE @[i]]]
  /\ beyond' = (beyond \/ count - BackCount > Extra)
  /\ UNCHANGED <<written, taken>>

QueueClear ==
  /\ ring' = [ring EXCEPT !.head = 0, !.tail = 0, !.length = 0]
  /\ taken' = written
  /\ UNCHANGED <<written, beyond>>

QueueNext ==
  \/ \E count \in Lengths : Enqueue(count) \/ Completion(count) \/ Dequeue(count) \/ FirstPacket(count)
  \/ QueueClear

-----------------------------------------------------------------------------
\* What can be peeked is the stream in its order, from the first item the head
\* did not pass, wrapped or not, full or not, also after dequeue went past
\* items that were not there yet; and what is readable is no more than there
\* is (peek, enqueue, dequeue).  It holds until a copy ran over the end of the
\* ring or of the room behind it, which takes an enqueue of more than the room
\* while the length is negative, or a first packet that wraps by more than m_extra_size.
PeeksInOrder == ~beyond =>
  /\ ring.length = written - taken
  /\ \A count \in 1 .. Size : CanPeek(count) =>
       \A i \in 1 .. count : Peek(count)[i] = taken + i
  /\ ring.length >= 0 => Readable <= ring.length /\ Writable <= Space
=============================================================================
