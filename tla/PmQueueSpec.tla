----------------------------- MODULE PmQueueSpec -----------------------------
(***************************************************************************)
(* What pmutil.h promises of a PmQueue: a FIFO that may lose messages but  *)
(* never silently.  Messages are numbered in the order in which the writer *)
(* offers them to Pm_Enqueue.  The queue holds message numbers and loss    *)
(* marks; a message is only ever lost while a loss mark is the youngest    *)
(* thing put into the queue, so that the reader meets a mark at the place  *)
(* of every gap.                                                           *)
(***************************************************************************)
EXTENDS Naturals, Sequences

CONSTANT Loss                \* the loss mark, not a number

VARIABLES
    items,      \* what the reader has still to receive, oldest first
    next,       \* messages offered so far
    marked      \* the youngest thing ever put into the queue is a loss mark

svars == <<items, next, marked>>

Init ==
    /\ items = << >>
    /\ next = 0
    /\ marked = FALSE

\* A message is accepted.
Accept ==
    /\ next' = next + 1
    /\ items' = Append(items, next')
    /\ marked' = FALSE

\* A loss mark is put in, or the one that is youngest stands for this loss too.
Mark ==
    /\ marked' = TRUE
    /\ \/ items' = Append(items, Loss)
       \/ marked /\ UNCHANGED items

\* A message is refused.
Drop ==
    /\ next' = next + 1
    /\ Mark

\* The writer reports a loss that happened upstream.
Signal ==
    /\ Mark
    /\ UNCHANGED next

\* The reader receives the oldest message or loss mark.
Take ==
    /\ items # << >>
    /\ items' = Tail(items)
    /\ UNCHANGED <<next, marked>>

\* Two adjacent loss marks become one: the reports are not counted.
Coalesce ==
    /\ \E i \in 1 .. Len(items) - 1 :
         /\ items[i] = Loss
         /\ items[i + 1] = Loss
         /\ items' = [j \in 1 .. Len(items) - 1 |->
                        IF j <= i THEN items[j] ELSE items[j + 1]]
    /\ UNCHANGED <<next, marked>>

Next == Accept \/ Drop \/ Signal \/ Take \/ Coalesce

Spec == Init /\ [][Next]_svars
=============================================================================
