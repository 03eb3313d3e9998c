----------------------------- MODULE Lifetimes -----------------------------
(***************************************************************************)
(* pkg/cache/cache.go: Redis keys that live for a number of ticks.  A      *)
(* table holds the keys that exist, each with its value and the ticks it   *)
(* has left; a key that is gone is not in the domain.                      *)
(***************************************************************************)
EXTENDS Naturals

Empty == [k \in {} |-> [val |-> k, left |-> 0]]

\* SET with a lifetime: a new value, and its whole life before it.
Put(table, k, v, ttl) ==
  [j \in DOMAIN table \cup {k} |-> IF j = k THEN [val |-> v, left |-> ttl] ELSE table[j]]

\* EXPIRE: no error and no effect on a key that is gone.
Extend(table, k, ttl) ==
  IF k \in DOMAIN table THEN Put(table, k, table[k].val, ttl) ELSE table

Drop(table, k) == [j \in DOMAIN table \ {k} |-> table[j]]

\* A tick: what has none left is gone.
Aged(table) ==
  [k \in {j \in DOMAIN table : table[j].left > 1}
     |-> [val |-> table[k].val, left |-> table[k].left - 1]]
=============================================================================
