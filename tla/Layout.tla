-------------------------------- MODULE Layout --------------------------------
(***************************************************************************)
(* Where things lie in the shared mapping: the layout arithmetic of        *)
(* rust/tenzor-core/src/lib.rs, in bytes.  Sizes are natural numbers; the  *)
(* code's usize could overflow only for rings no machine can map.          *)
(***************************************************************************)
EXTENDS Naturals

GlobalHeaderSize == 4096
SlotHeaderSize == 128
MaxConsumerEntries == 64
RegistryOffset == 128
RegistryEntrySize == 32

AlignUp(value, alignment) == ((value + alignment - 1) \div alignment) * alignment
\* Mutant: the stride is not rounded up.
SlotStrideUnaligned(capacity) == capacity
SlotStride(capacity) == AlignUp(SlotHeaderSize + capacity, 64)

TotalBytes(count, capacity) == GlobalHeaderSize + count * SlotStride(capacity)
SlotBase(slot, capacity) == GlobalHeaderSize + slot * SlotStride(capacity)
PayloadBase(slot, capacity) == SlotBase(slot, capacity) + SlotHeaderSize
RegistryEntryOffset(index) == RegistryOffset + index * RegistryEntrySize

\* RingLayout::new, and what attach asks of a header.
Sensible(geometry) == geometry.count >= 2 /\ geometry.capacity >= 64
===============================================================================
