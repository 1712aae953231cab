-------------------------------- MODULE Idb --------------------------------
(***************************************************************************)
(* The key/value databases of common/db.c (DBMap, used through the idb_    *)
(* macros) as the servers use them: a partial function whose domain is the *)
(* set of stored keys.  The red-black trees, the hash and the freed-node   *)
(* bookkeeping of db.c are not visible to a caller of these operations and *)
(* are left out.                                                           *)
(***************************************************************************)

\* db_alloc: a database with no entry.
NoEntries == [k \in {} |-> k]

\* idb_put: stores v under k, replacing what was there.
IdbPut(db, k, v) == [x \in DOMAIN db \cup {k} |-> IF x = k THEN v ELSE db[x]]

\* idb_remove: drops the entry of k; no effect when there is none.
IdbRemove(db, k) == [x \in DOMAIN db \ {k} |-> db[x]]

\* db is a database with keys in K and entries in V.
IsIdb(db, K, V) == /\ DOMAIN db \subseteq K
                   /\ db \in [DOMAIN db -> V]
=============================================================================
