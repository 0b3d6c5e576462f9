------------------------------ MODULE FuseLookups ------------------------------
(* What the kernel and the daemon count of each node. *)
EXTENDS Fuse

(* The lookups of node n that the forgets of the queue f give back, one by one. *)
Lookups(f, n) ==
  UNION {{k} \X (1 .. f[k].nlookup) : k \in {k \in 1 .. Len(f) : f[k].nodeid = n}}

(* The lookups of node n that are queued to be forgotten. *)
Forgotten(n) == Lookups(forgets, n)

(* The answers that name n and whose caller has not run yet. *)
InTransit(n) == {u \in Unique : state[u] = "finished" /\ reply[u] = n}

(* No other node has the inode number of n. *)
OwnIno(n) == \A m \in Node \ {n} : InoOf[m] # InoOf[n]

(* The kernel never gives back more lookups of a node than the daemon granted, so
   that the daemon drops no node in use, for a node whose inode number is its own. *)
LookupBalance ==
  \A n \in Node : OwnIno(n) =>
    granted[n] >= nlookup[InoOf[n]] + Cardinality(Forgotten(n)) + Cardinality(InTransit(n))
================================================================================
