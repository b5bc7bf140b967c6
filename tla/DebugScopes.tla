------------------------------ MODULE DebugScopes ------------------------------
(* What the debugger's metadata passes make of a module before anything is      *)
(* inserted: collect markers become scopes with a level, the operations of a    *)
(* scope get their ids, and what no tracked operation computed is captured at   *)
(* the statement that uses it.  A source is the sequence of a module's          *)
(* operations in the order of the walk, with the body of a helper function at   *)
(* the place of its call; an operation is a record                              *)
(*   [tag, name, func, callee, place, id, level, addr, dtype, lanes, pointee,   *)
(*    trace, ptr, offsets, mask, said, operands]                                *)
(* tag names it; id is the one it came with (0 if none); level and addr are a   *)
(* begin marker's, below 0 if it has none; said tells whether its statement is  *)
(* known; operands are its inputs, [def, dtype, lanes], def the tag of what     *)
(* computes it, or 0.  The other fields are RecordPlan's.                       *)
EXTENDS Integers, Sequences, FiniteSets, SequencesExt

MemoryLike == {"load", "store", "copy"}
IsMarker(op) == op.name \in {"begin", "end"}
IsCall(op) == op.name \in {"call", "noinline"}   \* what the inliner leaves, or not
InCombiner(op) == op.place = "combiner"
CalledFunctions(src) == {src[k].callee : k \in {k \in DOMAIN src : IsCall(src[k])}}
InCalledFunction(src, op) == op.func \in CalledFunctions(src)

\* A negative attribute counts as one that is not there.
Attr(value, fallback) == IF value < 0 THEN fallback ELSE value
AtMostTwo(level) == IF level > 2 THEN 2 ELSE level

(* ----------------------------- default markers ---------------------------- *)

\* A run that collects everything replaces the markers of the source: one scope
\* from the entry of each function nobody calls to each of its terminators.
Marker(name, op, level, addr) ==
  [op EXCEPT !.name = name, !.tag = 0, !.id = 0, !.level = level,
             !.addr = AtMostTwo(addr), !.dtype = "none", !.operands = <<>>]
DefaultMarkers(src, level, addr) ==
  LET isFirst(k) == \A j \in 1 .. k - 1 : IsMarker(src[j]) \/ src[j].func # src[k].func
      isLast(k) == src[k].name = "return" /\ src[k].place = "top"
      if(b, name, k) == IF b THEN <<Marker(name, src[k], level, addr)>> ELSE <<>>
      around(k) == LET own == ~InCalledFunction(src, src[k]) IN
        if(own /\ isFirst(k), "begin", k) \o if(own /\ isLast(k), "end", k)
          \o <<src[k]>>
      upTo[k \in 0 .. Len(src)] ==
        IF k = 0 THEN <<>>
        ELSE upTo[k - 1] \o (IF IsMarker(src[k]) THEN <<>> ELSE around(k))
  IN upTo[Len(src)]

(* --------------------------------- scopes --------------------------------- *)

\* The scope that is open after each operation; scopes do not nest.
Outside(addr) == [scope |-> 0, level |-> 1, addr |-> addr, count |-> 0, ok |-> TRUE]
Begun(s, begin, addr) ==
  [scope |-> s.count + 1, level |-> Attr(begin.level, 1),
   addr |-> AtMostTwo(Attr(begin.addr, addr)), count |-> s.count + 1,
   ok |-> s.ok /\ s.scope = 0]
Ended(s, addr) == [Outside(addr) EXCEPT !.count = s.count, !.ok = s.ok /\ s.scope # 0]
Scopes(src, addr) ==
  LET base == AtMostTwo(Attr(addr, 0))
      after[k \in 0 .. Len(src)] ==
        IF k = 0 THEN Outside(base)
        ELSE LET s == after[k - 1] IN
             IF InCalledFunction(src, src[k]) THEN s
             ELSE CASE src[k].name = "begin" -> Begun(s, src[k], base)
                    [] src[k].name = "end"   -> Ended(s, base)
                    [] OTHER                 -> s
  IN after
Resolves(src, addr) ==
  LET last == Scopes(src, addr)[Len(src)] IN last.ok /\ last.scope = 0

(* ----------------------------------- ids ---------------------------------- *)

ShouldTrack(op) ==
  /\ ~IsMarker(op) /\ ~IsCall(op) /\ ~InCombiner(op)
  /\ op.name \notin {"return", "yield"}
  /\ op.dtype # "none" \/ op.name \in MemoryLike
TrackedOps(src, scopes) ==
  {k \in DOMAIN src :
     scopes[k].scope # 0 /\ ~InCalledFunction(src, src[k]) /\ ShouldTrack(src[k])}

\* Ids that operations came with are given to no other; those of calls and of
\* called functions are cleared before.
FirstFreeId(src) ==
  LET kept == {src[k].id : k \in {k \in DOMAIN src :
                 ~IsCall(src[k]) /\ ~InCalledFunction(src, src[k])}} \cup {0}
  IN 1 + CHOOSE i \in kept : \A j \in kept : j <= i
Unnumbered(src, tracked) == {k \in tracked : src[k].id = 0}
OpId(src, tracked, k) ==
  IF src[k].id # 0 THEN src[k].id
  ELSE FirstFreeId(src) + Cardinality({j \in Unnumbered(src, tracked) : j < k})

\* An input that no tracked operation computes is captured at the statement, unless
\* it is a constant or an address; captures are numbered after the operations.
ComputedBy(src, S, operand) == \E k \in S : src[k].tag = operand.def
Constants(src) == {k \in DOMAIN src : src[k].name = "constant"}
IsCaptured(src, tracked, k, n) ==
  LET operand == src[k].operands[n] IN
  /\ src[k].said /\ operand.dtype \notin {"none", "ptr"}
  /\ ~ComputedBy(src, tracked, operand) /\ ~ComputedBy(src, Constants(src), operand)
CapturedInputs(src, tracked) ==
  {p \in UNION {{k} \X DOMAIN src[k].operands : k \in tracked} :
     IsCaptured(src, tracked, p[1], p[2])}
Before(p, q) == p[1] < q[1] \/ (p[1] = q[1] /\ p[2] < q[2])
CaptureId(src, tracked, p) ==
  FirstFreeId(src) + Cardinality(Unnumbered(src, tracked))
    + Cardinality({q \in CapturedInputs(src, tracked) : Before(q, p)})
Captures(src, tracked, k) ==
  LET operand(n) == src[k].operands[n]
      upTo[n \in 0 .. Len(src[k].operands)] ==
        IF n = 0 THEN <<>>
        ELSE IF ~IsCaptured(src, tracked, k, n) THEN upTo[n - 1]
        ELSE Append(upTo[n - 1], [id |-> CaptureId(src, tracked, <<k, n>>),
                                  dtype |-> operand(n).dtype, lanes |-> operand(n).lanes])
  IN upTo[Len(src[k].operands)]

\* The kernel the insertion pass gets.  Markers are erased, calls are inlined and
\* terminators take no record; what is not tracked has no id.
KernelOf(src, addr) ==
  LET scopes == Scopes(src, addr)
      tracked == TrackedOps(src, scopes)
      numbered(k) ==
        [name |-> src[k].name, func |-> src[k].func, callee |-> src[k].callee,
         place |-> src[k].place, dtype |-> src[k].dtype, lanes |-> src[k].lanes,
         pointee |-> src[k].pointee, trace |-> src[k].trace,
         ptr |-> src[k].ptr, offsets |-> src[k].offsets, mask |-> src[k].mask,
         id |-> IF k \in tracked THEN OpId(src, tracked, k) ELSE 0,
         level |-> scopes[k].level, addr |-> scopes[k].addr,
         captures |-> IF k \in tracked THEN Captures(src, tracked, k) ELSE <<>>]
      upTo[k \in 0 .. Len(src)] ==
        IF k = 0 THEN <<>>
        ELSE IF IsMarker(src[k]) \/ src[k].name \in {"call", "return", "yield"}
        THEN upTo[k - 1]
        ELSE Append(upTo[k - 1], numbered(k))
  IN upTo[Len(src)]

\* Tensor pointers (block pointers) anywhere in the module.
HasTensorPointers(src) == \E k \in DOMAIN src : src[k].ptr = "block"
===============================================================================
