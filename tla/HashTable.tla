------------------------------ MODULE HashTable ------------------------------
(***************************************************************************)
(* android_buffer_table down to its pointers: add_buffer and delete_buffer *)
(* with the macros of uthash they use. Every entry is in two doubly linked *)
(* lists, that of all entries in the order of their additions (prev, next) *)
(* and that of its bucket (hh_prev, hh_next); the first entry leads to the *)
(* UT_hash_table, which is made with the first and freed with the last. A  *)
(* long chain doubles the number of buckets.                               *)
(*                                                                         *)
(* A call is a sequence of steps, one for each inner macro, and reads the  *)
(* head of the table anew at each. No lock is held. A step that would use  *)
(* a null pointer, or a failed assertion, is the end of the process and no *)
(* step here. Allocations succeed: uthash exits when one does not.         *)
(***************************************************************************)
EXTENDS Integers, SequencesExt

CONSTANTS
  Caller,          \* threads
  Elt,             \* addresses of android_buffer_t
  Table,           \* addresses of UT_hash_table
  Nil,
  Key,             \* values of the member fd
  Hash,            \* HASH_JEN of a key
  InitialBuckets,  \* HASH_INITIAL_NUM_BUCKETS
  Thresh,          \* HASH_BKT_CAPACITY_THRESH
  MaxBuckets,      \* bound: nothing is added to a table with more buckets
  Overlap          \* may calls of several threads be in progress at once?

ASSUME HashTableAssumption ==
  /\ Nil \notin Elt \cup Table
  /\ IsFiniteSet(Elt)
  /\ Hash \in [Key -> Nat]
  /\ {InitialBuckets, Thresh, MaxBuckets} \subseteq Nat \ {0}
  /\ Overlap \in BOOLEAN

VARIABLES
  head,   \* android_buffer_table
  table,  \* the UT_hash_tables, freed ones included
  hh,     \* the entries: allocated?, fd, and their UT_hash_handles
  op      \* the call each thread is in

table_vars == <<head, table, hh, op>>

-----------------------------------------------------------------------------
Bucket == [hh_head: Elt \cup {Nil}, count: Nat, expand_mult: Nat]
EmptyBucket == [hh_head |-> Nil, count |-> 0, expand_mult |-> 0]

TableState == [live: BOOLEAN, buckets: Seq(Bucket), num_items: Nat, tail: Elt \cup {Nil},
               ineff_expands: Nat, noexpand: BOOLEAN]
Handle == [live: BOOLEAN, key: Key \cup {Nil}, tbl: Table \cup {Nil},
           prev: Elt \cup {Nil}, next: Elt \cup {Nil},
           hh_prev: Elt \cup {Nil}, hh_next: Elt \cup {Nil}]
Unused == [live |-> FALSE, key |-> Nil, tbl |-> Nil, prev |-> Nil, next |-> Nil,
           hh_prev |-> Nil, hh_next |-> Nil]

Idle == [step |-> "idle", e |-> Nil]

TableInit ==
  /\ head = Nil
  /\ table = [T \in Table |-> [live |-> FALSE, buckets |-> <<>>, num_items |-> 0, tail |-> Nil,
                               ineff_expands |-> 0, noexpand |-> FALSE]]
  /\ hh = [e \in Elt |-> Unused]
  /\ op = [t \in Caller |-> Idle]

(* HASH_TO_BKT. The number of buckets is a power of two.                    *)
BktOf(key, buckets) == (Hash[key] % Len(buckets)) + 1

(* The entries met from `first` on, no more than there are.                 *)
Chain(next, first) ==
  LET max == Cardinality(Elt)
      at[i \in 0..max] ==
        IF i = 0 THEN first ELSE IF at[i - 1] = Nil THEN Nil ELSE next[at[i - 1]]
  IN [i \in 1..Cardinality({j \in 1..max : at[j - 1] # Nil}) |-> at[i - 1]]

Nexts(H)   == [e \in Elt |-> H[e].next]
Prevs(H)   == [e \in Elt |-> H[e].prev]
HhNexts(H) == [e \in Elt |-> H[e].hh_next]
HhPrevs(H) == [e \in Elt |-> H[e].hh_prev]

tbl == table[hh[head].tbl]   \* (head)->hh.tbl

(* HASH_FIND: the first entry with the key in the chain of its bucket.      *)
find_buffer_k(key) ==
  IF head = Nil THEN Nil
  ELSE LET chain == Chain(HhNexts(hh), tbl.buckets[BktOf(key, tbl.buckets)].hh_head)
           found == {i \in DOMAIN chain : hh[chain[i]].key = key}
       IN IF found = {} THEN Nil ELSE chain[CHOOSE i \in found : \A j \in found : i <= j]

MayCall(t) == op[t] = Idle /\ (Overlap \/ \A u \in Caller : op[u] = Idle)
Proceed(t, step, e) == op' = [op EXCEPT ![t] = [step |-> step, e |-> e]]
Return(t) == op' = [op EXCEPT ![t] = Idle]

-----------------------------------------------------------------------------
(* add_buffer of a fresh entry. A key that is there already is no obstacle. *)
AddTest(t, e, key) ==
  /\ MayCall(t)
  /\ ~hh[e].live
  /\ head # Nil => Len(tbl.buckets) <= MaxBuckets
  /\ hh' = [hh EXCEPT ![e] = [Unused EXCEPT !.live = TRUE, !.key = key]]
  /\ Proceed(t, IF head = Nil THEN "make" ELSE "append", e)
  /\ UNCHANGED <<head, table>>

(* HASH_MAKE_TABLE, and the entry is the head.                              *)
AddMake(t) ==
  LET e == op[t].e IN
  /\ op[t].step = "make"
  /\ \E T \in Table :
       /\ ~table[T].live
       /\ table' = [table EXCEPT ![T] =
            [live |-> TRUE, buckets |-> [b \in 1..InitialBuckets |-> EmptyBucket],
             num_items |-> 0, tail |-> e, ineff_expands |-> 0, noexpand |-> FALSE]]
       /\ hh' = [hh EXCEPT ![e].tbl = T]
  /\ head' = e
  /\ Proceed(t, "to_table", e)

(* HASH_APPEND_LIST                                                         *)
AddAppend(t) ==
  LET e == op[t].e
      T == hh[head].tbl
  IN
  /\ op[t].step = "append"
  /\ head # Nil
  /\ hh' = [hh EXCEPT ![e].tbl = T, ![e].prev = table[T].tail, ![table[T].tail].next = e]
  /\ table' = [table EXCEPT ![T].tail = e]
  /\ Proceed(t, "to_table", e)
  /\ UNCHANGED head

-----------------------------------------------------------------------------
(* HASH_EXPAND_BUCKETS: the buckets are emptied in their order, each from   *)
(* its head, into twice as many, each item put before those that are there. *)
Emptied(chain, H, chains) ==
  LET into[i \in 0..Len(chain)] ==
        IF i = 0 THEN chains
        ELSE [into[i - 1] EXCEPT ![BktOf(H[chain[i]].key, chains)] = <<chain[i]>> \o @]
  IN into[Len(chain)]

NewChains(tb, H) ==
  LET into[b \in 0..Len(tb.buckets)] ==
        IF b = 0 THEN [n \in 1..(2 * Len(tb.buckets)) |-> <<>>]
        ELSE Emptied(Chain(HhNexts(H), tb.buckets[b].hh_head), H, into[b - 1])
  IN into[Len(tb.buckets)]

First(s) == IF s = <<>> THEN Nil ELSE s[1]

Relinked(chains, H) ==
  [e \in Elt |->
     IF \E b \in DOMAIN chains : e \in Range(chains[b])
     THEN LET c == chains[CHOOSE b \in DOMAIN chains : e \in Range(chains[b])]
              i == CHOOSE i \in DOMAIN c : c[i] = e
          IN [H[e] EXCEPT !.hh_prev = IF i = 1 THEN Nil ELSE c[i - 1],
                          !.hh_next = IF i = Len(c) THEN Nil ELSE c[i + 1]]
     ELSE H[e]]

(* expand_mult of a new bucket with so many items, of which so many are     *)
(* ideal.                                                                   *)
ExpandMult(items, ideal) ==
  LET mult[c \in 0..items] ==
        IF c = 0 THEN 0
        ELSE IF c > ideal /\ c > mult[c - 1] * ideal THEN mult[c - 1] + 1 ELSE mult[c - 1]
  IN mult[items]

Expanded(tb, chains) ==
  LET ideal    == (tb.num_items + Len(chains) - 1) \div Len(chains)
      nonideal == SumFunction([b \in DOMAIN chains |->
                    IF Len(chains[b]) > ideal THEN Len(chains[b]) - ideal ELSE 0])
      ineff    == IF nonideal > tb.num_items \div 2 THEN tb.ineff_expands + 1 ELSE 0
  IN [tb EXCEPT
        !.buckets = [b \in DOMAIN chains |->
           [hh_head |-> First(chains[b]), count |-> Len(chains[b]),
            expand_mult |-> ExpandMult(Len(chains[b]), ideal)]],
        !.ineff_expands = ineff,
        !.noexpand = @ \/ ineff > 1]

(* HASH_ADD_TO_BKT, to the front of the chain.                              *)
Pushed(e, b, tb) ==
  [tb EXCEPT !.num_items = @ + 1, !.buckets[b].count = @ + 1, !.buckets[b].hh_head = e]

PushedLinks(e, old, H) ==
  [x \in Elt |-> CASE x = e   -> [H[x] EXCEPT !.hh_prev = Nil, !.hh_next = old]
                   [] x = old -> [H[x] EXCEPT !.hh_prev = e]
                   [] OTHER   -> H[x]]

TooLong(bucket, tb) == bucket.count >= (bucket.expand_mult + 1) * Thresh /\ ~tb.noexpand

(* HASH_ADD_TO_TABLE                                                        *)
AddToTable(t) ==
  LET e      == op[t].e
      T      == hh[head].tbl
      b      == BktOf(hh[e].key, tbl.buckets)
      pushed == Pushed(e, b, tbl)
      H      == PushedLinks(e, tbl.buckets[b].hh_head, hh)
      chains == NewChains(pushed, H)
  IN
  /\ op[t].step = "to_table"
  /\ head # Nil
  /\ IF TooLong(pushed.buckets[b], pushed)
     THEN /\ table' = [table EXCEPT ![T] = Expanded(pushed, chains)]
          /\ hh' = Relinked(chains, H)
     ELSE /\ table' = [table EXCEPT ![T] = pushed]
          /\ hh' = H
  /\ Proceed(t, "assert", e)
  /\ UNCHANGED head

(* add_buffer looks its entry up and asserts that it has found its key.     *)
AddAssert(t) ==
  /\ op[t].step = "assert"
  /\ find_buffer_k(hh[op[t].e].key) # Nil
  /\ Return(t)
  /\ UNCHANGED <<head, table, hh>>

-----------------------------------------------------------------------------
(* The entries that delete_buffer may be called with: those that add_buffer *)
(* has returned for and no call has taken.                                  *)
Managed == {e \in Elt : hh[e].live /\ \A t \in Caller : op[t].e # e}

(* HASH_DELETE of an entry without neighbours: the table goes with it.      *)
DeleteOnly(t, e) ==
  /\ MayCall(t)
  /\ e \in Managed
  /\ hh[e].prev = Nil /\ hh[e].next = Nil
  /\ head # Nil
  /\ table' = [table EXCEPT ![hh[head].tbl].live = FALSE]
  /\ head' = Nil
  /\ hh' = [hh EXCEPT ![e] = Unused]
  /\ UNCHANGED op

(* Faulty variant: the tail of the list is left as it is.                   *)
DeleteUnlinkTail(t, e) ==
  LET p == hh[e].prev
      n == hh[e].next
  IN
  /\ MayCall(t)
  /\ e \in Managed
  /\ p # Nil \/ n # Nil
  /\ head # Nil
  /\ head' = IF p = Nil THEN n ELSE head
  /\ hh' = [x \in Elt |-> IF x = p THEN [hh[x] EXCEPT !.next = n]
                          ELSE IF x = n THEN [hh[x] EXCEPT !.prev = p] ELSE hh[x]]
  /\ Proceed(t, "del_bkt", e)
  /\ UNCHANGED table

(* Or it is taken out of the list of all entries, ...                       *)
DeleteUnlink(t, e) ==
  LET p == hh[e].prev
      n == hh[e].next
      T == hh[head].tbl
  IN
  /\ MayCall(t)
  /\ e \in Managed
  /\ p # Nil \/ n # Nil
  /\ head # Nil
  /\ table' = [table EXCEPT ![T].tail = IF @ = e THEN p ELSE @]
  /\ head' = IF p = Nil THEN n ELSE head
  /\ hh' = [x \in Elt |-> IF x = p THEN [hh[x] EXCEPT !.next = n]
                          ELSE IF x = n THEN [hh[x] EXCEPT !.prev = p] ELSE hh[x]]
  /\ Proceed(t, "del_bkt", e)

(* HASH_DEL_IN_BKT                                                          *)
Taken(e, b, n, tb) ==
  [tb EXCEPT !.num_items = @ - 1, !.buckets[b].count = @ - 1,
             !.buckets[b].hh_head = IF @ = e THEN n ELSE @]

(* Faulty variant: the entry stays in its bucket when it is the first.      *)
DeleteBucketInner(t) ==
  LET e == op[t].e
      p == hh[e].hh_prev
      n == hh[e].hh_next
      b == BktOf(hh[e].key, tbl.buckets)
  IN
  /\ op[t].step = "del_bkt"
  /\ head # Nil
  /\ table' = [table EXCEPT ![hh[head].tbl].num_items = @ - 1,
                            ![hh[head].tbl].buckets[b].count = @ - 1]
  /\ hh' = [x \in Elt |-> CASE x = e -> Unused
                            [] x = p -> [hh[x] EXCEPT !.hh_next = n]
                            [] x = n -> [hh[x] EXCEPT !.hh_prev = p]
                            [] OTHER -> hh[x]]
  /\ Return(t)
  /\ UNCHANGED head

(* ... then out of its bucket, and freed.                                   *)
DeleteBucket(t) ==
  LET e == op[t].e
      p == hh[e].hh_prev
      n == hh[e].hh_next
      b == BktOf(hh[e].key, tbl.buckets)
  IN
  /\ op[t].step = "del_bkt"
  /\ head # Nil
  /\ table' = [table EXCEPT ![hh[head].tbl] = Taken(e, b, n, @)]
  /\ hh' = [x \in Elt |-> CASE x = e -> Unused
                            [] x = p -> [hh[x] EXCEPT !.hh_next = n]
                            [] x = n -> [hh[x] EXCEPT !.hh_prev = p]
                            [] OTHER -> hh[x]]
  /\ Return(t)
  /\ UNCHANGED head

TableNext == \E t \in Caller :
  \/ \E e \in Elt, key \in Key : AddTest(t, e, key)
  \/ AddMake(t) \/ AddAppend(t) \/ AddToTable(t) \/ AddAssert(t)
  \/ \E e \in Elt : DeleteOnly(t, e) \/ DeleteUnlink(t, e)
  \/ DeleteBucket(t)

TableSpec == TableInit /\ [][TableNext]_table_vars

-----------------------------------------------------------------------------
(* The variables have their types.                                          *)
TableTypeOK ==
  /\ head \in Elt \cup {Nil}
  /\ table \in [Table -> TableState]
  /\ hh \in [Elt -> Handle]
  /\ op \in [Caller -> [step: {"idle", "make", "append", "to_table", "assert", "del_bkt"},
                          e: Elt \cup {Nil}]]

Quiet == \A t \in Caller : op[t] = Idle

(* What HASH_FSCK checks in a debug build of uthash (uthash.h:516-562), and *)
(* that each entry is in the chain of its bucket: links back are those      *)
(* forth, counts are lengths, both kinds of lists have all entries.         *)
LinksBack(chain, prev) ==
  \A i \in DOMAIN chain : prev[chain[i]] = IF i = 1 THEN Nil ELSE chain[i - 1]
BucketPasses(b) ==
  LET chain == Chain(HhNexts(hh), tbl.buckets[b].hh_head) IN
  /\ LinksBack(chain, HhPrevs(hh))
  /\ Len(chain) = tbl.buckets[b].count
  /\ \A i \in DOMAIN chain : BktOf(hh[chain[i]].key, tbl.buckets) = b
FsckPasses ==
  Quiet /\ head # Nil =>
    LET list == Chain(Nexts(hh), head) IN
    /\ \A b \in DOMAIN tbl.buckets : BucketPasses(b)
    /\ LinksBack(list, Prevs(hh))
    /\ tbl.tail = Last(list)
    /\ Len(list) = tbl.num_items
    /\ Range(list) = {e \in Elt : hh[e].live}

(* The assertion of add_buffer (gralloc_gbm.c:75), which reads the result   *)
(* of a lookup of the key it has just added: there is one.                  *)
AddedIsFound ==
  \A t \in Caller : op[t].step = "assert" => find_buffer_k(hh[op[t].e].key) # Nil

(* For its users the table is a set: every call adds or deletes one entry,  *)
(* at one moment, whatever it does to buckets, lists and other entries.     *)
Findable ==
  IF head = Nil THEN {}
  ELSE UNION {Range(Chain(HhNexts(hh), tbl.buckets[b].hh_head)) : b \in DOMAIN tbl.buckets}
Abstract == INSTANCE BufferTable WITH entries <- Findable
ImplementsTable == Abstract!Spec
=============================================================================
