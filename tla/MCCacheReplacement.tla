------------------------- MODULE MCCacheReplacement -------------------------
(***************************************************************************)
(* CacheReplacement for TLC: one cache of each policy.  Tags and values    *)
(* are interchangeable.                                                    *)
(***************************************************************************)
EXTENDS CacheReplacement, TLC

VARIABLE policy

Symmetry == Permutations(Tag) \cup Permutations(Data) \cup Permutations(Off)

Fifo == INSTANCE CacheReplacement WITH Lru <- FALSE

MCInit == \/ policy = "lru" /\ ReplacementInit
          \/ policy = "fifo" /\ Fifo!ReplacementInit

MCNext == /\ \/ policy = "lru" /\ ReplacementNext
             \/ policy = "fifo" /\ Fifo!ReplacementNext
          /\ UNCHANGED policy

MCSpec == MCInit /\ [][MCNext]_<<vars, history, policy>>

(* Each cache keeps the lines its policy promises, those used last or      *)
(* those loaded last.                                                      *)
LruCacheKeepsRecentLines == policy = "lru" => LruKeepsRecentLines
FifoCacheKeepsLastLoads  == policy = "fifo" => Fifo!FifoKeepsLastLoads
=============================================================================
