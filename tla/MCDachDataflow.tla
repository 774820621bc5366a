--------------------------- MODULE MCDachDataflow ---------------------------
(***************************************************************************)
(* DachDataflow for TLC.  Tags and values are interchangeable and main     *)
(* memory starts with every content, so one tag and one value left over in *)
(* the invalid lines stand for all.                                        *)
(***************************************************************************)
EXTENDS DachDataflow

OneOf(S) == CHOOSE x \in S : TRUE

MCInit == /\ Init
          /\ tag = [slot \in Slot |-> OneOf(Tag)]
          /\ data = [slot \in Slot |-> [o \in Off |-> OneOf(Data)]]

MCSpec == /\ MCInit /\ [][Next]_vars
          /\ WF_vars(Client) /\ WF_vars(Core) /\ WF_vars(MemIf)
=============================================================================
