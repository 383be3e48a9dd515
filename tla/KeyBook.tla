------------------------------ MODULE KeyBook -------------------------------
(***************************************************************************)
(* What the key database promises to one command at a time: a map from the *)
(* firmware sections to their key/IV pairs, in which a pair is stored and  *)
(* read whole.                                                             *)
(***************************************************************************)
CONSTANTS Client, Slot, Pair, NoPair

VARIABLES
    book,   \* slot -> the pair stored for it
    answer  \* client -> the slot and pair its last lookup returned, if any

bookVars == <<book, answer>>

Nothing == [slot |-> NoPair]

Init ==
    /\ book = [s \in Slot |-> NoPair]
    /\ answer = [c \in Client |-> Nothing]

Put(s, v) ==
    /\ book' = [book EXCEPT ![s] = v]
    /\ UNCHANGED answer

Get(c, s) ==
    /\ book[s] # NoPair
    /\ answer' = [answer EXCEPT ![c] = [slot |-> s, pair |-> book[s]]]
    /\ UNCHANGED book

\* A lookup begins, and may end without an answer.
Ask(c) ==
    /\ answer' = [answer EXCEPT ![c] = Nothing]
    /\ UNCHANGED book

Next ==
    \/ \E s \in Slot, v \in Pair : Put(s, v)
    \/ \E c \in Client, s \in Slot : Get(c, s)
    \/ \E c \in Client : Ask(c)

Spec == Init /\ [][Next]_bookVars
=============================================================================
