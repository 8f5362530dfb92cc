-------------------------------- MODULE Fifo --------------------------------
(***************************************************************************)
(* What a mailbox promises (skynet_mq.c): the messages pushed come out in *)
(* the order they went in, each once, and none is lost however many       *)
(* there are.                                                             *)
(***************************************************************************)
EXTENDS Sequences

CONSTANT Msgs
VARIABLE items    \* pushed and not yet popped, oldest first

Push(m) == items' = Append(items, m)
Pop     == items # << >> /\ items' = Tail(items)

Init == items = << >>
Next == (\E m \in Msgs : Push(m)) \/ Pop
Spec == Init /\ [][Next]_items
=============================================================================
