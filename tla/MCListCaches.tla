---------------------------- MODULE MCListCaches ----------------------------
(***************************************************************************)
(* Lists of 2, 0, 3, 5 and 2 words: within a line and across lines, two    *)
(* in one line, near and far; all but one compete for one cache entry.     *)
(***************************************************************************)
EXTENDS ListCaches

SampleOffsets == <<0, 2, 2, 5, 10, 12>>

UpTo(n, S) == UNION {[1 .. k -> S] : k \in 0 .. n}

(* Any lists, empty ones too, in a batch that is full or not; then three   *)
(* batches, so that buffers are filled a second time.                      *)
SampleEdges ==
  UpTo(3, {0, 2} \X {0, 1, 2, 4} \cup {<<1, 0>>})
    \cup [1 .. 6 -> {<<0, 0>>, <<0, 4>>, <<2, 3>>}]

(* Zero registers, or a batch of an earlier call. *)
SampleLeftovers ==
  {<< >>, <<<<[offset |-> 0, length |-> 2], [offset |-> 2, length |-> 3]>>>>}
=============================================================================
