---------------------------- MODULE DatasetStore ----------------------------
(***************************************************************************)
(* What the conversions may rely on, whatever the loader does: one list    *)
(* per layer, tables measured on the lists, loads that change them, and    *)
(* one reader.  Lists only get newer while the process lives, both change  *)
(* only inside a load, and a load ends with every table measured on the    *)
(* list in place.  GisDataset implements this specification.               *)
(***************************************************************************)
EXTENDS Integers

CONSTANTS
  Layer, Table,
  Version,      \* versions of the data; 0 is the empty list
  Unread        \* the reader has not looked the table up

VARIABLES
  busy,     \* a load is in progress (or the process has not come up)
  lists,    \* the version of each layer's list
  tables,   \* the version of the list each table was measured on
  reading,  \* a conversion is in progress
  quiet,    \* no load ran since the conversion began
  took,     \* the lists the conversion works on
  used      \* the version of each table it last looked up

vars == <<busy, lists, tables, reading, quiet, took, used>>

NoLists == [l \in Layer |-> 0]
NoTables == [l \in Layer |-> [t \in Table |-> 0]]
NothingUsed == [l \in Layer |-> [t \in Table |-> Unread]]

Coherent == \A l \in Layer, t \in Table : tables[l][t] = lists[l]

Init ==
  /\ busy = TRUE /\ lists = NoLists /\ tables = NoTables
  /\ reading = FALSE /\ quiet = FALSE /\ took = NoLists /\ used = NothingUsed

StartLoad ==
  /\ ~busy
  /\ busy' = TRUE
  /\ quiet' = FALSE
  /\ UNCHANGED <<lists, tables, reading, took, used>>

PublishList(l) ==
  /\ busy
  /\ \E v \in Version : v >= lists[l] /\ lists' = [lists EXCEPT ![l] = v]
  /\ UNCHANGED <<busy, tables, reading, quiet, took, used>>

PublishTable(l, t) ==
  /\ busy
  /\ tables' = [tables EXCEPT ![l][t] = lists[l]]
  /\ UNCHANGED <<busy, lists, reading, quiet, took, used>>

EndLoad ==
  /\ busy
  /\ Coherent
  /\ busy' = FALSE
  /\ UNCHANGED <<lists, tables, reading, quiet, took, used>>

Lose ==
  /\ busy' = TRUE /\ lists' = NoLists /\ tables' = NoTables
  /\ reading' = FALSE /\ quiet' = FALSE /\ took' = NoLists
  /\ used' = NothingUsed

(* The first list is taken as the conversion begins. *)
BeginReading(l) ==
  /\ ~reading
  /\ reading' = TRUE
  /\ quiet' \in {FALSE, ~busy}
  /\ took' = [NoLists EXCEPT ![l] = lists[l]]
  /\ UNCHANGED <<busy, lists, tables, used>>

Take(l) ==
  /\ reading
  /\ took' = [took EXCEPT ![l] = lists[l]]
  /\ UNCHANGED <<busy, lists, tables, reading, quiet, used>>

LookUp(l, t) ==
  /\ reading
  /\ used' = [used EXCEPT ![l][t] = tables[l][t]]
  /\ UNCHANGED <<busy, lists, tables, reading, quiet, took>>

EndReading ==
  /\ reading
  /\ reading' = FALSE /\ quiet' = FALSE
  /\ took' = NoLists /\ used' = NothingUsed
  /\ UNCHANGED <<busy, lists, tables>>

Next ==
  \/ StartLoad \/ EndLoad \/ Lose \/ EndReading
  \/ \E l \in Layer : PublishList(l) \/ BeginReading(l) \/ Take(l)
  \/ \E l \in Layer, t \in Table : PublishTable(l, t) \/ LookUp(l, t)

Spec == Init /\ [][Next]_vars
=============================================================================
