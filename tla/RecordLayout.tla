----------------------------- MODULE RecordLayout -----------------------------
(* Where a record and a payload live in the debugger's device buffer, the       *)
(* arithmetic the device writes by and the host reads by: a header, fixed-size  *)
(* record slots, n of them for every program instance, and then the payload,    *)
(* one region per instance.                                                     *)
EXTENDS Naturals

HeaderBytes == 32
RecordBytes == 64

\* The slot of record k of an instance, and what the decoder makes of a slot.
SlotOf(i, n, k) == i * n + k
RecordOf(slot, n) == slot % n
InstanceOf(slot, n) == slot \div n

RecordArea(capacity) == HeaderBytes + capacity * RecordBytes
RoundUp(x, a) == ((x + a - 1) \div a) * a

\* Where an instance's payload entry starts, before it is cut to the width of the
\* record's offset field.
PayloadAt(capacity, i, perInstance, offset) ==
  RecordArea(capacity) + i * perInstance + offset

\* Faulty: the index of the last record taken for their number.
HeaderOfLast(capacity, grid, known, n) ==
  LET total == IF known /\ n # 0 THEN grid * n ELSE 0 IN
  [written  |-> IF total = 0 THEN 0 ELSE total - 1, capacity |-> capacity,
   overflow |-> IF total > capacity THEN total - capacity ELSE 0]
\* The header the host completes before it decodes.  The kernel never counts its
\* records: what it wrote follows from the grid, when the grid is known.
HeaderOf(capacity, grid, known, n) ==
  LET total == IF known /\ n # 0 THEN grid * n ELSE 0 IN
  [written  |-> total, capacity |-> capacity,
   overflow |-> IF total > capacity THEN total - capacity ELSE 0]
===============================================================================
