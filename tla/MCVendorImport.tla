---------------------------- MODULE MCVendorImport ----------------------------
(* Two ops of alike kernels, two sessions and exports of at most three rows.     *)
EXTENDS VendorImport

CONSTANTS o1, o2
KernelOfDef == (o1 :> "add") @@ (o2 :> "add_relu")
CanonicalDef == [n \in {"add", "add mix", "add_relu", "copy"} |->
                   IF n = "add mix" THEN "add" ELSE n]
AlikeDef == LET pairs == {<<"add", "add_relu">>, <<"add", "add mix">>} IN
  {<<n, n>> : n \in DOMAIN CanonicalDef} \cup pairs \cup {<<p[2], p[1]>> : p \in pairs}
Row(file, name, device, corr, task, start, end) ==
  [file |-> file, name |-> name, device |-> device, corr |-> corr, task |-> task,
   start |-> start, end |-> end]
OptionsDef == {[ranges |-> TRUE, runtime |-> TRUE, timing |-> TRUE],
               [ranges |-> FALSE, runtime |-> TRUE, timing |-> FALSE]}
CsvRows == {Row("csv", "add", 0, 0, 0, 1, 2), Row("csv", "add_relu", 0, 0, 0, 0, 0),
            Row("csv", "copy", 0, 0, 0, 2, 3)}
RowsDef == [v \in {"mthreads", "tianshu", "cann"} |->
  IF v # "cann" THEN CsvRows
  ELSE {Row("op_summary", "add mix", 1, 7, 0, 1, 2), Row("op_summary", "add", 0, 0, 3, 3, 4),
        Row("op_summary", "copy", 0, 0, 0, 9, 11), Row("op_summary", "add", 0, 0, 0, 2, 3),
        Row("mstx", "add", 0, 0, 0, 0, 0), Row("mstx", "copy", 0, 0, 0, 9, 10)}]
Native(name, device, corr, task, start) ==
  [op |-> 0, name |-> name, device |-> device, corr |-> corr, task |-> task,
   start |-> start, end |-> start + 1]
NativesDef == {<<>>, <<Native("add_relu", 1, 7, 0, 1), Native("add", 1, 0, 0, 2),
                       Native("copy", 0, 0, 3, 3), Native("add", 0, 0, 0, 4)>>}
===============================================================================
