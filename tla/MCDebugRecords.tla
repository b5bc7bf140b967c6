---------------------------- MODULE MCDebugRecords ----------------------------
(* Two program instances of kernels of up to three operations.                  *)
EXTENDS DebugRecords

Op(tag, name, place, dtype, lanes, ptr) ==
  [tag |-> tag, name |-> name, func |-> "kernel", callee |-> "none", place |-> place,
   id |-> 0, level |-> -1, addr |-> -1, dtype |-> dtype, lanes |-> lanes, ptr |-> ptr,
   pointee |-> "none", trace |-> "none", offsets |-> <<>>, mask |-> "none", said |-> FALSE, operands |-> <<>>]
Begin(level, addr) ==
  [Op(0, "begin", "top", "none", 0, "none") EXCEPT !.level = level, !.addr = addr]
End == Op(0, "end", "top", "none", 0, "none")
Return == Op(0, "return", "top", "none", 0, "none")
Scope(level, addr, ops) == <<Begin(level, addr)>> \o ops \o <<End>>
\* The lanes of a range, shifted by one, below a bound; and every second lane.
Range1(op) ==
  [op EXCEPT !.offsets = <<[first |-> 1, step |-> 0], [first |-> 0, step |-> 1]>>,
             !.mask = "prefix"]
Strided(op) == [op EXCEPT !.offsets = <<[first |-> 0, step |-> 2]>>, !.mask = "any"]
\* Values that are pointers.
To(pointee, trace, op) == [op EXCEPT !.dtype = "ptr", !.pointee = pointee, !.trace = trace]
In(func, op) == [op EXCEPT !.func = func]
Call(name, func) == [Op(0, name, "top", "none", 0, "none") EXCEPT !.callee = func]

TensorsDef == <<{<<Inf>>, <<3>>}, {<<NaN, 0>>, <<2, -1>>}>>
ModesDef ==
  {[backend |-> b, kind |-> "debugger", level |-> 1, addr |-> 0] :
     b \in {"cann", "enflame", "cuda"}}
  \cup {[backend |-> "cann", kind |-> "debugger_auto", level |-> 1, addr |-> 2],
        [backend |-> "cann", kind |-> "debugger_auto_numeric", level |-> 2, addr |-> 0]}
SourcesDef ==
  {\* level 1: an address summary, and a store that only shows its address
   Scope(1, 1, <<Range1(Op(1, "load", "top", "f32", 2, "tensor")),
                 Strided(Op(2, "store", "branch", "f32", 2, "tensor"))>>) \o <<Return>>,
   \* level 2 with a scalar before wide and narrow entries, and a loop
   Scope(2, 0, <<Op(1, "load", "top", "f32", 1, "scalar"),
                 [Op(2, "math", "loop", "f64", 1, "none") EXCEPT !.id = 2]>>)
     \o Scope(2, 2, <<Range1(Op(3, "store", "branch", "f32", 2, "tensor"))>>)
     \o <<Return>>,
   \* levels mixed, operands captured, a helper that is inlined
   Scope(3, 0, <<Op(1, "load", "branch", "f32", 1, "scalar")>>)
     \o Scope(2, -1,
          <<Call("call", "helper"), In("helper", Op(2, "math", "top", "f32", 1, "none")),
            Op(3, "math", "combiner", "i32", 1, "none"),
            [Op(4, "reduce", "loop", "i32", 1, "none") EXCEPT !.said = TRUE,
               !.operands = <<[def |-> 2, dtype |-> "f32", lanes |-> 2],
                              [def |-> 1, dtype |-> "f32", lanes |-> 1],
                              [def |-> 0, dtype |-> "ptr", lanes |-> 1]>>]>>)
     \o <<Return>>,
   \* a tensor too large for level 1, a copy and a level 2 that cannot be kept
   Scope(1, 2, <<Op(1, "load", "loop", "f32", 2, "block"),
                 Op(2, "copy", "top", "none", 0, "memref"),
                 Op(3, "dot", "top", "f32", 2, "none")>>) \o <<Return>>,
   Scope(2, 2, <<Op(1, "copy", "top", "none", 0, "memref")>>) \o <<Return>>,
   \* wide entries before a narrow one, and a constant nobody captures
   Scope(2, 0, <<Op(1, "math", "loop", "f64", 1, "none"),
                 [Op(2, "load", "top", "f32", 1, "scalar") EXCEPT !.said = TRUE,
                    !.operands = <<[def |-> 3, dtype |-> "f32", lanes |-> 1]>>]>>)
     \o <<Op(3, "constant", "top", "f32", 1, "none"), Return>>,
   \* stores alone
   Scope(1, 2, <<Range1(Op(1, "store", "branch", "f32", 2, "tensor"))>>)
     \o Scope(1, 0, <<Op(2, "store", "top", "f32", 1, "scalar")>>) \o <<Return>>,
   \* pointers loaded and stored: narrow and wide ones, summed up; then dumped, one that
   \* is computed at hand, one that leads to pointers, and one that is lost
   Scope(1, 1, <<To("f32", "lost", Range1(Op(1, "load", "top", "ptr", 2, "tensor"))),
                 To("f64", "offsets", Range1(Op(2, "store", "top", "ptr", 2, "tensor")))>>)
     \o <<Return>>,
   Scope(2, 0, <<To("f32", "offsets", Op(1, "other", "top", "ptr", 2, "none")),
                 To("ptr", "offsets", Op(2, "other", "branch", "ptr", 2, "none"))>>)
     \o Scope(2, 2, <<To("f32", "lost", Range1(Op(3, "load", "top", "ptr", 2, "tensor")))>>)
     \o <<Return>>,
   \* a call that stays, a scope with two ends, and one within another
   Scope(2, 1, <<Call("noinline", "helper"),
                 In("helper", Op(1, "math", "top", "f32", 1, "none")),
                 Op(2, "load", "top", "f32", 1, "opaque")>>) \o <<Return>>,
   Scope(1, 0, <<Op(1, "math", "top", "f32", 1, "none"), Return>>) \o <<Return>>,
   Scope(1, 0, Scope(1, 0, <<Op(1, "load", "top", "f32", 1, "opaque")>>)) \o <<Return>>}
===============================================================================
