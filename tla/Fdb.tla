-------------------------------- MODULE Fdb --------------------------------
(* FoundationDB transactions as src/fdb_database.c and the handlers use     *)
(* them (external).  Reads see the store as of the first read of the        *)
(* transaction, sets are buffered, and a commit fails if a key the          *)
(* transaction read has been written by a transaction committed since.      *)
EXTENDS Integers, Sequences, FiniteSets

\* The store after `writes`; a store is a function on the keys present.
Overlay(writes, store) ==
  [k \in DOMAIN writes \union DOMAIN store |->
     IF k \in DOMAIN writes THEN writes[k] ELSE store[k]]

\* open: a read version has been taken; missed: keys committed by others since.
NewTransaction == [open |-> FALSE, snap |-> <<>>, reads |-> {}, missed |-> {}, writes |-> <<>>]

\* The store the transaction reads from.
View(t, store) == IF t.open THEN t.snap ELSE store

\* fdb_transaction_get, with its read conflict (snapshot = 0).
Get(t, k, store) ==
  [t EXCEPT !.open = TRUE, !.snap = View(t, store), !.reads = @ \union {k}]

\* Another transaction has committed writes to `keys`.
Miss(t, keys) == IF t.open THEN [t EXCEPT !.missed = @ \union keys] ELSE t

\* No transaction is ever refused.
ConflictsNever(t) == FALSE

Conflicts(t) == t.reads \intersect t.missed # {}
=============================================================================
