----------------------------- MODULE BufferTable -----------------------------
(***************************************************************************)
(* What android_buffer_table is for its users: a set of entries, to which  *)
(* add_buffer adds one and from which delete_buffer takes one, and in      *)
(* which find_buffer_k finds an entry of a key whenever there is one. It   *)
(* is the table of GrallocGbm. HashTable implements it.                    *)
(***************************************************************************)
EXTENDS FiniteSets

CONSTANT Elt   \* the entries, by their addresses

VARIABLE entries

Init == entries = {}

Add(e)    == e \notin entries /\ entries' = entries \cup {e}
Delete(e) == e \in entries /\ entries' = entries \ {e}

Next == \E e \in Elt : Add(e) \/ Delete(e)

Spec == Init /\ [][Next]_entries
=============================================================================
