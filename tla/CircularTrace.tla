---------------------------- MODULE CircularTrace ----------------------------
(* The circular trace buffer of instrumented kernels: what the compiler makes of *)
(* the record ops of a kernel, what its warps write, and what the host reads     *)
(* back.  A kernel is a record                                                   *)
(*   [warps, masters, grid, shared, records, stages]                             *)
(* records are its record ops [name, start] in the order the passes walk them;   *)
(* the first `masters' warps run the function, the others the partitions of its  *)
(* warp-specialised ops; stages[s][w] is the set of runs (sequences of indices   *)
(* into records) warp w may take through stage s.                                *)
EXTENDS Integers, Sequences, FiniteSets

CONSTANTS
  MaxSharedMem, \* bytes of shared memory of the device
  ClockWrap,    \* the cycle counter wraps here (2^43, 2^32 with clock32)
  Nothing       \* no segment, no entry yet

ASSUME TraceAssumption == MaxSharedMem \in Nat /\ ClockWrap \in Nat \ {0} /\ Nothing \notin Nat

Word == 4 \* bytes
WordsPerEntry == 2
EntryBytes == Word * WordsPerEntry
Warps(k) == 0 .. k.warps - 1

(* ------------------------------ compiling a kernel ---------------------------- *)

\* Faulty: an end leaves its scope on the stack.
NotPopped(stack) == stack
Popped(stack) == SubSeq(stack, 1, Len(stack) - 1)

\* Scope ids are given in walk order, one per pair of a name; the enclosing scope of
\* a new one is whatever is on top of a stack that any end pops.
NoScopes == [nameToId |-> {}, stack |-> <<>>, ids |-> <<>>, names |-> <<>>, parents |-> {}]
AllocateScope(s, r) ==
  LET known == {p \in s.nameToId : p[1] = r.name}
      id == Len(s.names)
  IN  CASE r.start /\ known = {} ->
             [nameToId |-> s.nameToId \cup {<<r.name, id>>},
              stack    |-> Append(s.stack, id),
              ids      |-> Append(s.ids, id),
              names    |-> Append(s.names, r.name),
              parents  |-> IF s.stack = <<>> THEN s.parents
                           ELSE s.parents \cup {<<id, s.stack[Len(s.stack)]>>}]
        [] ~r.start /\ known # {} ->
             [s EXCEPT !.nameToId = @ \ known,
                       !.stack = Popped(@),
                       !.ids = Append(@, (CHOOSE p \in known : TRUE)[2])]
        [] OTHER -> [s EXCEPT !.ids = Append(@, 0)] \* "must appear in pairs"
ScopeIds(k) ==
  LET walk[n \in 0 .. Len(k.records)] ==
        IF n = 0 THEN NoScopes ELSE AllocateScope(walk[n - 1], k.records[n])
  IN  walk[Len(k.records)]

\* The calling context of each scope, outermost first.
ContextsOf(alloc) ==
  LET path[i \in 0 .. Len(alloc.names) - 1] ==
        LET up == {p \in alloc.parents : p[1] = i}
        IN  IF up = {} THEN <<alloc.names[i + 1]>>
            ELSE Append(path[(CHOOSE p \in up : TRUE)[2]], alloc.names[i + 1])
  IN  path

\* A mode is a record [selective, ids, size, schedule, ...].  The compiler takes the
\* selected warps as a set, and looks at them only under the selective strategy.
Segments(k, m) ==
  IF m.selective /\ m.ids # <<>> THEN {m.ids[i] : i \in DOMAIN m.ids} ELSE Warps(k)

\* The largest power of two that is at most n, 0 if there is none.
PowerBelow(n) ==
  LET p[i \in 0 .. 16] == IF i = 0 THEN 0 ELSE IF 2^(i-1) <= n THEN 2^(i-1) ELSE p[i-1]
  IN  p[16]
Halved(n, limit) == LET h[i \in 0 .. 16] == IF n \div 2^i <= limit THEN n \div 2^i ELSE h[i+1]
                    IN  h[0]
Align(n, a) == ((n + a - 1) \div a) * a

SharedBytes(k, segs) ==
  LET used  == Align(k.shared, 8)
      max   == IF used >= MaxSharedMem THEN MaxSharedMem + used ELSE MaxSharedMem
      alloc == ((PowerBelow((max - used) \div segs) * segs) \div 8) * 8
  IN  IF max \div (IF used = 0 THEN 1 ELSE used) <= 1 THEN alloc
      ELSE Halved(alloc, (max * 4) \div 100)

\* The bytes of a block's buffer; 0 if the pass fails.
BufferBytes(k, m) ==
  LET segs == Cardinality(Segments(k, m))
      size == Align(m.size, 8)
      have == SharedBytes(k, segs)
  IN  IF size # 0 /\ size \div segs \notin {2^i : i \in 0 .. 16} THEN 0
      ELSE IF size > 0 /\ size < have THEN size ELSE have

SegmentWords(k, m) == (BufferBytes(k, m) \div Cardinality(Segments(k, m))) \div Word
SegmentBase(k, m, w) ==
  IF w \in Segments(k, m)
    THEN SegmentWords(k, m) * Cardinality({v \in Segments(k, m) : v < w})
    ELSE Nothing

(* ------------------------------ the writing warp ------------------------------ *)

\* What a run of record ops leaves: the warp's index, the block's buffer, the clock
\* and, for the properties, the open scopes of the warp and its finished executions.
Store(k, m, w, s, e) ==
  [s EXCEPT !.index = @ + WordsPerEntry,
            !.buffer = IF SegmentBase(k, m, w) = Nothing THEN @
                       ELSE [@ EXCEPT ![SegmentBase(k, m, w) + (s.index % SegmentWords(k, m))] = e]]

Entry(id, start, time) == [scope |-> id % 256, start |-> start, cycle |-> time % ClockWrap, time |-> time]

\* A record op reads the clock and stores its entry.  Scheduled stores wait: the start
\* of a scope is stored right before its end.
RecordStart(k, m, w, s, id) ==
  LET begun == [s EXCEPT !.clock = @ + 1, !.open = {o \in @ : o.id # id} \cup {[id |-> id, time |-> s.clock, nth |-> s.index]}]
  IN  IF m.schedule THEN begun ELSE Store(k, m, w, begun, Entry(id, TRUE, s.clock))
RecordEnd(k, m, w, s, id) ==
  LET of   == {o \in s.open : o.id = id}
      t0   == IF of = {} THEN Nothing ELSE (CHOOSE o \in of : TRUE).time
      s0   == IF m.schedule /\ of # {} THEN Store(k, m, w, s, Entry(id, TRUE, t0)) ELSE s
      nth  == IF m.schedule THEN s.index ELSE (CHOOSE o \in of : TRUE).nth
      done == Store(k, m, w, [s0 EXCEPT !.clock = @ + 1], Entry(id, FALSE, s.clock))
  IN  IF of = {} THEN done
      ELSE [done EXCEPT !.open = @ \ of,
                        !.log = @ \cup {[id |-> id, warp |-> w, from |-> t0, to |-> s.clock,
                                         first |-> nth \div WordsPerEntry, last |-> s0.index \div WordsPerEntry]}]
Run(k, m, w, ids, run, s) ==
  LET f[n \in 0 .. Len(run)] ==
        IF n = 0 THEN s
        ELSE IF k.records[run[n]].start THEN RecordStart(k, m, w, f[n-1], ids[run[n]])
             ELSE RecordEnd(k, m, w, f[n-1], ids[run[n]])
  IN  f[Len(run)]

(* -------------------------------- the parser ---------------------------------- *)

\* One segment of a block, entry by entry in the order they are stored.
Pairs(s, e) == \E o \in s.active : o.scope = e.scope
ParseEntry(s, e) ==
  LET of == {o \in s.seen : o.scope = e.scope}
  IN  IF s.raised THEN s
      ELSE IF e.start
        THEN IF \E o \in s.active : o.scope = e.scope THEN s \* start after start
             ELSE [s EXCEPT !.seen = (@ \ of) \cup {e}, !.active = @ \cup {e}]
      ELSE IF ~Pairs(s, e) THEN s \* end after end
      ELSE LET first == CHOOSE o \in of : TRUE
           IN  IF first.cycle > e.cycle THEN [s EXCEPT !.raised = TRUE, !.active = @ \ of]
               ELSE [s EXCEPT !.active = @ \ of, !.events = @ \cup {<<first, e>>}]
ParseSegment(buffer, at, words, count) ==
  LET entries == (IF count < words THEN count ELSE words) \div WordsPerEntry
      f[n \in 0 .. entries] ==
        IF n = 0 THEN [seen |-> {}, active |-> {}, events |-> {}, raised |-> FALSE]
        ELSE ParseEntry(f[n-1], buffer[at + WordsPerEntry * (n - 1)])
  IN  f[entries]

\* Entries start at even words.  A read that begins between two of them finds what no
\* warp wrote as an entry, as the odd words do.
EntryAt(byte) ==
  IF byte % EntryBytes = 0 THEN byte \div Word ELSE WordsPerEntry * (byte \div EntryBytes) + 1

\* A block [block, bytes, count, data], cut up among the unit ids that are in effect.
ParseBlock(b, uids) ==
  LET bytes == b.bytes \div Len(uids)
  IN  {LET s == ParseSegment(b.data, EntryAt((i - 1) * bytes), bytes \div Word, b.count[uids[i]])
       IN  [raised |-> s.raised, block |-> b.block, uid |-> uids[i], events |-> s.events] : i \in DOMAIN uids}
===============================================================================
