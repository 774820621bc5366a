----------------------------- MODULE SlicedStream ----------------------------
(***************************************************************************)
(* acc_impl/src/dach/sliced_stream.h: the FIFOs between run_core and       *)
(* run_mem_if.  A line that is too wide for one FIFO goes through several, *)
(* a slice through each; writer and reader take them one after the other.  *)
(***************************************************************************)
EXTENDS Integers, Sequences
LOCAL INSTANCE SequencesExt

CONSTANTS LineSizes,      \* LINE_SIZE, words in a line
          MaxSliceSize,   \* MAX_SLICE_SIZE, words a FIFO can take
          StreamDepth,    \* STREAM_DEPTH
          NumLines        \* bound: lines that are sent

VARIABLES
  args,   \* words in a line
  mem,    \* lines written and lines read, by both sides' arrays
  st      \* m_stream; the slice that the writer and the reader are at

vars == <<args, mem, st>>

LineSize == args.lineSize

NSlices   == IF LineSize \div MaxSliceSize > 0 THEN LineSize \div MaxSliceSize ELSE 1
SliceSize == LineSize \div NSlices
Slices    == 0 .. NSlices - 1

(* Word off of line n, told apart from all others.                         *)
Line(n) == [off \in 0 .. LineSize - 1 |-> <<n, off>>]


Place(slice, off) == (slice * SliceSize) + off

(* A turn of write's loop: it waits for a place in the FIFO.               *)
write ==
  /\ st.written < NumLines /\ Len(st.stream[st.wslice]) < StreamDepth
  /\ LET line  == Line(st.written)
         slice == [off \in 0 .. SliceSize - 1 |-> line[(st.wslice * SliceSize) + off]]
         last  == st.wslice = NSlices - 1
     IN  st' = [st EXCEPT !.stream[st.wslice] = Append(@, slice),
                          !.wslice = IF last THEN 0 ELSE @ + 1,
                          !.written = IF last THEN @ + 1 ELSE @]
  /\ UNCHANGED <<args, mem>>

(* A turn of read's loop: a slice is put in its place in the line.         *)
read ==
  /\ st.stream[st.rslice] # << >>
  /\ LET slice == Head(st.stream[st.rslice])
         line == [p \in DOMAIN mem.line |->
                    IF \E off \in DOMAIN slice : Place(st.rslice, off) = p
                    THEN slice[CHOOSE off \in DOMAIN slice : Place(st.rslice, off) = p] ELSE mem.line[p]]
         last == st.rslice = NSlices - 1
     IN  /\ mem' = [mem EXCEPT !.line = line, !.lines = IF last THEN Append(@, line) ELSE @]
         /\ st' = [st EXCEPT !.stream[st.rslice] = Tail(@),
                             !.rslice = IF last THEN 0 ELSE @ + 1]
  /\ UNCHANGED args

Init ==
  /\ \E lineSize \in LineSizes : args = [lineSize |-> lineSize]
  /\ mem = [line |-> [off \in 0 .. LineSize - 1 |-> << >>], lines |-> << >>]
  /\ st = [stream |-> [s \in Slices |-> << >>], wslice |-> 0, rslice |-> 0, written |-> 0]

Done == Len(mem.lines) = NumLines

Next == write \/ read
-----------------------------------------------------------------------------
(* Lines arrive in order and whole, never with slices of two lines, when   *)
(* the slices make up the line, as they do for powers of two; words that   *)
(* are left over by the division never arrive.                             *)
LinesArriveWhole ==
  \A n \in DOMAIN mem.lines : \A off \in 0 .. LineSize - 1 :
    mem.lines[n][off] = IF off < NSlices * SliceSize THEN <<n - 1, off>> ELSE << >>
=============================================================================
