--------------------------- MODULE RPCRingBuffer ---------------------------
(***************************************************************************)
(* The table of RPCs that wait for an answer (data/rpc_ring_buffer.go): an *)
(* array of Capacity slots, the slot of a sequence number being            *)
(* sequence & (Capacity - 1).  Every operation holds the mutex of the one  *)
(* slot it touches, and the unlocked look at "occupied" that Load and      *)
(* LoadAndDelete take first is repeated under the mutex, so each operation *)
(* is one atomic function of the array.  A slot is free exactly when its   *)
(* sequence is 0; the sequence numbers of a User start at 100.             *)
(***************************************************************************)
EXTENDS Naturals, UserTask

CONSTANT Capacity  \* number of slots, a power of two (256 in User)

ASSUME CapacityAssumption ==
  /\ Capacity \in Nat \ {0}
  /\ \E k \in 0..Capacity : Capacity = 2^k

\* sequence & (capacity - 1), for a capacity that is a power of two.
SlotOf(seq) == seq % Capacity

SlotIndex == 0 .. Capacity - 1

FreeSlot == [seq |-> 0, task |-> NoTask]

Slot == [seq : Nat, task : Task \cup {NoTask}]

\* make([]rpcSlot, cap): every slot is free.
NewRPCRingBuffer == [i \in SlotIndex |-> FreeSlot]

\* Under the slot's mutex: is the slot occupied by this very sequence?
Holds(slots, seq) == slots[SlotOf(seq)].seq = seq

\* Mutant of CanStore: an occupied slot is overwritten.
CanStoreAnyway(slots, seq) == TRUE

\* StoreBlocking keeps spinning while this is false.
CanStore(slots, seq) == slots[SlotOf(seq)].seq \in {0, seq}

StoreBlocking(slots, seq, task) ==
  [slots EXCEPT ![SlotOf(seq)] = [seq |-> seq, task |-> task]]

\* The task of LoadAndDelete's answer; NoTask stands for (nil, false).
Load(slots, seq) == IF Holds(slots, seq) THEN slots[SlotOf(seq)].task ELSE NoTask

\* What LoadAndDelete and Delete leave: another sequence's slot is kept.
Delete(slots, seq) ==
  IF Holds(slots, seq) THEN [slots EXCEPT ![SlotOf(seq)] = FreeSlot] ELSE slots
=============================================================================
