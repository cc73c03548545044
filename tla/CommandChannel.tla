--------------------------- MODULE CommandChannel ---------------------------
(***************************************************************************)
(* What the receive pipeline promises, whatever task a command comes from: *)
(* a command is offered once; it is either refused or accepted into a      *)
(* bounded first-in first-out channel; an accepted command is taken at     *)
(* most once, by one consumer, in the order of acceptance.                 *)
(***************************************************************************)
EXTENDS Naturals, Sequences

CONSTANTS Command,   \* commands that can be offered
          Capacity   \* length of the channel

VARIABLES seen,      \* commands offered so far
          offered,   \* commands a producer holds, neither accepted nor refused
          chan,      \* accepted commands, oldest first
          taken      \* commands a consumer has taken and not finished with

cvars == <<seen, offered, chan, taken>>

Init == /\ seen = {}
        /\ offered = {}
        /\ chan = <<>>
        /\ taken = {}

Offer(c) == /\ c \notin seen
            /\ seen' = seen \cup {c}
            /\ offered' = offered \cup {c}
            /\ UNCHANGED <<chan, taken>>

Refuse(c) == /\ c \in offered
             /\ offered' = offered \ {c}
             /\ UNCHANGED <<seen, chan, taken>>

Accept(c) == /\ c \in offered
             /\ Len(chan) < Capacity
             /\ offered' = offered \ {c}
             /\ chan' = Append(chan, c)
             /\ UNCHANGED <<seen, taken>>

Take == /\ chan # <<>>
        /\ taken' = taken \cup {Head(chan)}
        /\ chan' = Tail(chan)
        /\ UNCHANGED <<seen, offered>>

Finish(c) == /\ c \in taken
             /\ taken' = taken \ {c}
             /\ UNCHANGED <<seen, offered, chan>>

Next == \/ Take
        \/ \E c \in Command : Offer(c) \/ Refuse(c) \/ Accept(c) \/ Finish(c)

Spec == Init /\ [][Next]_cvars
=============================================================================
