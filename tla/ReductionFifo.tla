--------------------------- MODULE ReductionFifo ----------------------------
(***************************************************************************)
(* What a client of the reduction engine may rely on: the engine is a      *)
(* queue of at most Depth operand sets which hands back, in the order in   *)
(* which the sets were taken and once each, the result of every set.  How  *)
(* long a result takes and how the sets are stored is not said here.       *)
(*                                                                         *)
(* The queue is given by two logs: the sets taken and the results handed   *)
(* back since the last reset.  A clock edge may do either, or both.        *)
(***************************************************************************)
EXTENDS Naturals, Sequences

CONSTANTS Offers,      \* the operand sets a client may submit
          ResultOf,    \* a function: the result each of them must produce
          Depth        \* the operand sets the engine can hold

VARIABLES sent, got
fifoVars == <<sent, got>>

Outstanding == Len(sent) - Len(got)

FifoInit == sent = <<>> /\ got = <<>>

Take(o) ==
    /\ Outstanding < Depth
    /\ sent' = Append(sent, o)
    /\ UNCHANGED got

HandBack ==
    /\ Outstanding > 0
    /\ got' = Append(got, ResultOf[sent[Len(got) + 1]])
    /\ UNCHANGED sent

\* A full engine may still take a set on the edge that frees a place.
TakeAndHandBack(o) ==
    /\ Outstanding > 0
    /\ sent' = Append(sent, o)
    /\ got' = Append(got, ResultOf[sent[Len(got) + 1]])

\* Reset abandons whatever is held.
Abandon == sent' = <<>> /\ got' = <<>>

FifoNext ==
    \/ \E o \in Offers : Take(o) \/ TakeAndHandBack(o)
    \/ HandBack
    \/ Abandon

FifoSpec == FifoInit /\ [][FifoNext]_fifoVars
=============================================================================
