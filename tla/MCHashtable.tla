------------------------------ MODULE MCHashtable ------------------------------
(***************************************************************************)
(* Two threads, four items and three slots: the table can fill up.  The    *)
(* hash functions: all items alike, a chain of neighbours that wraps       *)
(* around, and two hashes that share a slot.                               *)
(***************************************************************************)
EXTENDS Hashtable

MCHashes == {<<0, 0, 0, 0>>, <<2, 2, 0, 0>>, <<1, 2, 4, 2>>, <<0, 1, 2, 3>>, <<2, 5, 0, 2>>}
===============================================================================
