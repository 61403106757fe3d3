------------------------------ MODULE MCCacheIndex ------------------------------
(***************************************************************************)
(* Instances of CacheIndex for TLC.  Key "a" is one of Put, "s" one of the *)
(* streaming writers of the S3 proxy; RemoveByPrefix with the prefix of    *)
(* "a" matches "s" by LIKE, as "o/my_app:" matches "o/my-app:".            *)
(***************************************************************************)
EXTENDS CacheIndex, TLC

MCHasPrefix == [x \in Prefixes |-> Keys \ StreamKeys]
MCTTLs == {0, -1}
MCLike == [x \in Prefixes |-> Keys]
CallerSymmetry == Permutations(Callers)
=============================================================================
