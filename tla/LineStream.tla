----------------------------- MODULE LineStream -----------------------------
(***************************************************************************)
(* What a reader of lines promises its consumer, whatever pieces the bytes *)
(* come in: the texts that were printed, whole, in the order of printing,  *)
(* each at most once.  Only the first may lack its head, when the reader   *)
(* starts to listen in its middle.                                         *)
(***************************************************************************)
EXTENDS Naturals, Sequences

CONSTANT Texts          \* the texts a line may have: sequences of bytes

VARIABLES
    printed,            \* the texts of the lines printed, in order
    handed              \* what the consumer was handed, in order

lineVars == <<printed, handed>>

Init ==
    /\ \E text \in Texts : printed = <<text>>
    /\ handed = <<>>

Send ==
    /\ \E text \in Texts : printed' = Append(printed, text)
    /\ UNCHANGED handed

WithoutHead(text, skipped) == SubSeq(text, skipped + 1, Len(text))

\* The next line that was not handed over yet, and no other.
HandOver ==
    /\ Len(handed) < Len(printed)
    /\ LET next == printed[Len(handed) + 1]
       IN  \E skipped \in 0..Len(next) :
               /\ handed # <<>> => skipped = 0
               /\ handed' = Append(handed, WithoutHead(next, skipped))
    /\ UNCHANGED printed

Next == Send \/ HandOver

Spec == Init /\ [][Next]_lineVars
=============================================================================
