------------------------------ MODULE RecordPlan ------------------------------
(* What the debugger's insertion pass makes of a kernel: the records each       *)
(* tracked operation writes, in the order of their index, and the payload       *)
(* entries of a level-2 dump.  An operation is a record                         *)
(*   [name, func, callee, place, dtype, lanes, pointee, trace, ptr, offsets,    *)
(*    mask, id, level, addr, captures]                                          *)
(* place is where it stands ("top", "branch", "loop" or a reduction's           *)
(* "combiner"); dtype and lanes describe its result, or the value it stores;    *)
(* if that is pointers, pointee is what they point to (pointers to pointers      *)
(* lead to 32-bit values) and trace what a dump finds going back from them: a   *)
(* "base", one with "offsets", or nothing, where it gets "lost" at a load, a    *)
(* select or a loop's argument;                                                 *)
(* ptr is what it accesses memory through: a "tensor" of pointers built from a  *)
(* base, an "opaque" one, one "scalar" pointer, a "memref", a "block" pointer   *)
(* or "none".  A tensor of pointers is its base plus offsets, each of which     *)
(* starts at first and grows by step from lane to lane (0: the same in every    *)
(* lane).  mask is "none", "prefix" (the lanes below a bound) or "any";         *)
(* captures are the source operands observed at the operation.                  *)
EXTENDS DebugScopes, RecordLayout

CONSTANT SummaryLimit   \* the largest tensor level 1 computes summaries of

ASSUME PlanAssumption == SummaryLimit \in Nat

Floats == {"f32", "f64"}
Loads == {"load"}
Writes == {"store", "copy"}

\* Of the level attributes, 2 is a full dump and anything else a summary.
RecordLevel(op) == IF op.level = 2 THEN 2 ELSE 1
AddrLevel(op) == IF op.addr < 0 THEN 0 ELSE AtMostTwo(op.addr)
\* Only a run that collects everything has a timeline, where the device has a clock
\* to read, and then it has nothing else.
TimelineOnly(mode) == mode.kind = "debugger_auto" /\ mode.backend \in {"cann", "cuda"}

\* Calls, functions on either side of a call and the bodies of reductions are left
\* alone: the hidden argument does not travel along the call graph.
InCallGraph(kernel, op) ==
  \E k \in DOMAIN kernel :
    IsCall(kernel[k]) /\ op.func \in {kernel[k].func, kernel[k].callee}
Tracked(kernel, op) ==
  op.id # 0 /\ ~IsCall(op) /\ ~InCombiner(op) /\ ~InCallGraph(kernel, op)
ObservesValue(backend, op) ==
  op.ptr # "block" /\ (op.name \in Writes => op.name = "store" /\ backend = "enflame")
ObservesMemory(op) == op.ptr # "block"

Collectors(dtype) ==
  CASE dtype \in Floats          -> <<"counts", "values">>
    [] dtype \in {"i32", "i1"}   -> <<"elements">>
    [] OTHER                     -> <<>>

\* The operations whose result is worth a summary.  Level 1 leaves large tensors
\* out, except what a dot or a reduction yields.
Summarises(op) ==
  \/ op.name \in {"dot", "reduce"}
  \/ op.name \in Loads /\ (RecordLevel(op) = 1 => op.lanes <= SummaryLimit)
  \/ op.name \in {"math", "constant"} /\ op.dtype \in Floats
     /\ (RecordLevel(op) = 1 => op.lanes <= SummaryLimit)
\* Enflame summarises what a kernel stores, when nothing else in it is summarised.
SummarisesStore(backend, kernel, op) ==
  /\ backend = "enflame" /\ op.name = "store" /\ op.dtype \in Floats
  /\ \A k \in 1..Len(kernel) :
       LET o == kernel[k] IN
       ~(/\ o.func = op.func /\ o.id # 0 /\ o.dtype \in Floats
         /\ ObservesValue(backend, o) /\ Summarises(o))

Element(dtype) ==
  CASE dtype = "f32" -> 4
    [] dtype \in {"f64", "i32", "i1", "ptr"} -> 8
\* The bytes an access moves per lane, as the pass takes them: those of what a pointer
\* finally points to for the pointer.
Bits(dtype) ==
  CASE dtype = "f64" -> 64
    [] dtype \in {"f32", "i32"} -> 32
    [] dtype = "i1" -> 1
    [] OTHER -> 0
ElementBits(op) ==
  IF op.dtype # "ptr" THEN Bits(op.dtype)
  ELSE IF op.pointee # "ptr" THEN Bits(op.pointee) ELSE 32
BytesOf(bits) == IF bits = 0 THEN 0 ELSE IF bits < 8 THEN 1 ELSE bits \div 8
AccessBytes(op) == BytesOf(ElementBits(op))
\* The bytes a value takes in memory.
Width(dtype) == IF dtype = "ptr" THEN 8 ELSE BytesOf(Bits(dtype))
StrideRight(op) == AccessBytes(op) = Width(op.dtype)

(* -------------------------------- addresses ------------------------------- *)

\* The operands an operation reaches memory through.
AddressTargets(op) ==
  CASE op.name = "copy" -> <<0, 1>>
    [] op.name = "store" /\ op.ptr = "memref" -> <<1>>
    [] OTHER -> <<0>>

\* Whether the pointer leads back to a base.
Traced(op) == op.ptr \in {"tensor", "scalar"}
\* One offset that grows lane by lane, behind a mask that lets a prefix through:
\* then the first address and the number of lanes say it all.
Contiguous(op) ==
  IF op.offsets = <<>> THEN op.ptr = "scalar"
  ELSE /\ \A n \in DOMAIN op.offsets : op.offsets[n].step \in {0, 1}
       /\ Cardinality({n \in DOMAIN op.offsets : op.offsets[n].step = 1}) = 1
MaskSupported(op) ==
  op.mask = "none" \/ (op.mask = "prefix" /\ op.ptr = "tensor" /\ op.offsets # <<>>)
SummarisesAddress(op) ==
  /\ op.name # "copy" /\ Traced(op) /\ AccessBytes(op) # 0
  /\ Contiguous(op) /\ MaskSupported(op)
FirstOffset(op) ==
  LET upTo[n \in 0 .. Len(op.offsets)] ==
        IF n = 0 THEN 0 ELSE upTo[n - 1] + op.offsets[n].first
  IN upTo[Len(op.offsets)]

(* ---------------------------- what is recorded ---------------------------- *)

HasSummary(mode, kernel, op) ==
  /\ ~TimelineOnly(mode) /\ ObservesValue(mode.backend, op)
  /\ Collectors(op.dtype) # <<>>
  /\ Summarises(op) \/ SummarisesStore(mode.backend, kernel, op)
HasValue(mode, op) ==
  /\ ~TimelineOnly(mode) /\ RecordLevel(op) = 2 /\ op.dtype # "none"
  /\ ObservesValue(mode.backend, op) \/ op.name = "store"
HasEvents(mode, op) ==
  /\ ~TimelineOnly(mode) /\ ObservesMemory(op)
  /\ AddrLevel(op) > 0 /\ op.name \in MemoryLike /\ op.ptr # "none"
HasAddress(mode, op) ==
  /\ HasEvents(mode, op) /\ RecordLevel(op) = 2 /\ AddrLevel(op) = 2
  /\ op.ptr \in {"tensor", "opaque", "scalar"}
HasTimeline(mode, op) == TimelineOnly(mode) /\ op.name # "constant"

\* Level 2 promises a dump of every operation it was asked to observe, so the
\* compilation fails where there is none to make.
Refused(mode, op) ==
  \/ HasAddress(mode, op) /\ ~SummarisesAddress(op)
  \/ ~TimelineOnly(mode) /\ RecordLevel(op) = 2 /\ op.captures = <<>>
     /\ ~HasValue(mode, op) /\ ~HasAddress(mode, op)
Compiles(mode, kernel) ==
  \A k \in 1..Len(kernel) : ~(Tracked(kernel, kernel[k]) /\ Refused(mode, kernel[k]))

(* ------------------------------- the records ------------------------------ *)

\* A record of operation number k: what it observes (operand 0 is the result or the
\* stored value, 1.. the captured operands; for an event, the operand that is the
\* pointer) and the id it is reported under.
Rec(k, id, operand, kind) == [of |-> k, id |-> id, operand |-> operand, kind |-> kind]
Each(kinds, k, id, operand) ==
  [r \in DOMAIN kinds |-> Rec(k, id, operand, kinds[r])]

AddressKinds == <<"first", "last", "min", "max", "active", "span">>
EventKinds(op) ==
  IF SummarisesAddress(op) /\ (RecordLevel(op) = 1 => op.lanes <= SummaryLimit)
  THEN AddressKinds
  ELSE IF op.ptr \in {"tensor", "opaque"} THEN <<"base">>
  ELSE <<"aligned">>

\* The order the pass numbers the records of one operation in.
Events(op, k) ==
  LET on(t) == Each(EventKinds(op), k, op.id, AddressTargets(op)[t])
  IN IF Len(AddressTargets(op)) = 1 THEN on(1) ELSE on(1) \o on(2)
RecordsOf(mode, kernel, k) ==
  LET op == kernel[k]
      if(b, s) == IF b THEN s ELSE <<>>
  IN if(HasTimeline(mode, op), <<Rec(k, op.id, 0, "timeline")>>)
     \o if(HasSummary(mode, kernel, op), Each(Collectors(op.dtype), k, op.id, 0))
     \o if(HasEvents(mode, op), Events(op, k))
     \o if(HasValue(mode, op), <<Rec(k, op.id, 0, "value")>>)
     \o if(HasAddress(mode, op), <<Rec(k, op.id, 0, "address")>>)
CapturesOf(mode, kernel, k, c) ==
  LET op == kernel[k]
      captured == op.captures[c]
      if(b, s) == IF b THEN s ELSE <<>>
      seen == ~TimelineOnly(mode) /\ ObservesValue(mode.backend, op)
  IN if(seen, Each(Collectors(captured.dtype), k, captured.id, c))
     \o if(seen /\ RecordLevel(op) = 2, <<Rec(k, captured.id, c, "value")>>)
Inserted(mode, kernel, k) ==
  LET op == kernel[k]
      upTo[c \in 0..Len(op.captures)] ==
        IF c = 0 THEN RecordsOf(mode, kernel, k)
        ELSE upTo[c - 1] \o CapturesOf(mode, kernel, k, c)
  IN IF Tracked(kernel, op) THEN upTo[Len(op.captures)] ELSE <<>>

\* Record k of an instance is the k-th of this sequence, counted from 0.
PlanOf(mode, kernel) ==
  LET upTo[k \in 0..Len(kernel)] ==
        IF k = 0 THEN <<>> ELSE upTo[k - 1] \o Inserted(mode, kernel, k)
  IN upTo[Len(kernel)]

\* The functions that get the buffer as a hidden argument.
HiddenArgument(kernel, plan) == {kernel[plan[k].of].func : k \in DOMAIN plan}

(* ------------------------------- the payload ------------------------------ *)

Dumped(r) == r.kind \in {"value", "address"}
Observed(kernel, r) ==
  IF r.operand = 0 THEN [dtype |-> kernel[r.of].dtype, lanes |-> kernel[r.of].lanes]
  ELSE kernel[r.of].captures[r.operand]
EntryBytes(kernel, r) == IF r.kind = "address" THEN 8 ELSE Element(Observed(kernel, r).dtype)

\* The end of the payload after the first k records; an entry starts at a multiple
\* of its element's size.
PayloadEnd(kernel, plan) ==
  LET end[k \in 0..Len(plan)] ==
        IF k = 0 THEN 0
        ELSE IF ~Dumped(plan[k]) THEN end[k - 1]
        ELSE LET b == EntryBytes(kernel, plan[k]) IN
             RoundUp(end[k - 1], b) + b * Observed(kernel, plan[k]).lanes
  IN end
\* Faulty: a loop's body is taken to run at least once.
EntryOfBranch(kernel, plan, k) ==
  LET b == EntryBytes(kernel, plan[k]) IN
  [offset |-> RoundUp(PayloadEnd(kernel, plan)[k - 1], b),
   bytes  |-> b,
   length |-> b * Observed(kernel, plan[k]).lanes,
   conditional |-> kernel[plan[k].of].place = "branch"]
EntryOf(kernel, plan, k) ==
  LET b == EntryBytes(kernel, plan[k]) IN
  [offset |-> RoundUp(PayloadEnd(kernel, plan)[k - 1], b),
   bytes  |-> b,
   length |-> b * Observed(kernel, plan[k]).lanes,
   conditional |-> kernel[plan[k].of].place \in {"branch", "loop"}]
\* Faulty: only the entries are aligned, not the instances' regions.
PayloadBytesPacked(kernel, plan) == PayloadEnd(kernel, plan)[Len(plan)]
\* Every instance's region keeps the alignment of the widest entry.
PayloadBytes(kernel, plan) ==
  LET wide == \E k \in 1..Len(plan) : Dumped(plan[k]) /\ EntryBytes(kernel, plan[k]) = 8
      end == PayloadEnd(kernel, plan)[Len(plan)]
  IN RoundUp(end, IF wide THEN 8 ELSE 4)
===============================================================================
