------------------------------- MODULE Multicast -------------------------------
(***************************************************************************)
(* What a TenzorBus ring promises its users, whatever implements it: one   *)
(* publication at a time is made in a slot; every consumer that was open   *)
(* when it was begun, and still is, receives it once, in order of          *)
(* publication, and holds the slot until it lets go; and a slot is not     *)
(* used again while a consumer is still to receive it or holds it.         *)
(***************************************************************************)
CONSTANTS Slots, Consumers

VARIABLES
    open,       \* the consumers that are open
    addressed,  \* those that the publication being made will reach
    due,        \* for each consumer: the slots it is still to receive
    earlier,    \* and which of them were published before which: pairs of slots
    held        \* for each consumer: the slots it holds

mvars == <<open, addressed, due, earlier, held>>

Free(s) == \A c \in Consumers : s \notin due[c] \cup held[c]

Init ==
    /\ open = {}
    /\ addressed = {}
    /\ due = [c \in Consumers |-> {}]
    /\ earlier = [c \in Consumers |-> {}]
    /\ held = [c \in Consumers |-> {}]

Join(c) ==
    /\ c \notin open
    /\ open' = open \cup {c}
    /\ UNCHANGED <<addressed, due, earlier, held>>

Begin ==
    /\ addressed = {}
    /\ addressed' = open
    /\ UNCHANGED <<open, due, earlier, held>>

\* What is published comes after everything that is due.
Publish(s) ==
    /\ Free(s)
    /\ due' = [c \in Consumers |-> IF c \in addressed THEN due[c] \cup {s} ELSE due[c]]
    /\ earlier' = [c \in Consumers |->
                     IF c \in addressed THEN earlier[c] \cup (due[c] \X {s}) ELSE earlier[c]]
    /\ addressed' = {}
    /\ UNCHANGED <<open, held>>

GiveUp ==
    /\ addressed' = {}
    /\ UNCHANGED <<open, due, earlier, held>>

\* The first of those that are due.
Deliver(c) ==
    /\ \E s \in due[c] :
          /\ \A t \in due[c] : <<t, s>> \notin earlier[c]
          /\ held' = [held EXCEPT ![c] = @ \cup {s}]
          /\ due' = [due EXCEPT ![c] = @ \ {s}]
          /\ earlier' = [earlier EXCEPT ![c] = {e \in @ : e[1] # s /\ e[2] # s}]
    /\ UNCHANGED <<open, addressed>>

LetGo(c) ==
    /\ \E s \in held[c] : held' = [held EXCEPT ![c] = @ \ {s}]
    /\ UNCHANGED <<open, addressed, due, earlier>>

\* Consumers leave, in good order or by dying, and a publication being made by
\* a process that dies with them is never finished.
Leave(C, D) ==
    /\ open' = open \ C
    /\ addressed' \in {addressed \ C, {}}
    /\ due' = [c \in Consumers |-> IF c \in C THEN {} ELSE due[c]]
    /\ earlier' = [c \in Consumers |-> IF c \in C THEN {} ELSE earlier[c]]
    /\ held' = [c \in Consumers |-> IF c \in D THEN {} ELSE held[c]]

Next ==
    \/ \E c \in Consumers : Join(c) \/ Deliver(c) \/ LetGo(c)
    \/ Begin
    \/ GiveUp
    \/ \E s \in Slots : Publish(s)
    \/ \E C, D \in SUBSET Consumers : Leave(C, D)

Spec == Init /\ [][Next]_mvars
================================================================================
