--------------------------- MODULE BoundedDelivery ---------------------------
(***************************************************************************)
(* What the delivery of an event to its subscriber promises, with no       *)
(* sweep, no transaction and no clock: rounds of at most one POST each,    *)
(* one at a time and no more than Rounds; a verdict that is final, and     *)
(* that says delivered only after the subscriber has accepted the event.   *)
(* An event is given up in its last round, or in a round that was refused: *)
(* one without a POST, for a subscription found inactive.                  *)
(***************************************************************************)
EXTENDS Naturals

CONSTANTS Events,   \* what there is to deliver
          Rounds    \* how often it is tried

VARIABLES phase,    \* per event: where its delivery is
          rounds,   \* per event: the rounds that have been closed
          posts,    \* per event: how often it was posted
          reached   \* the events their subscriber has accepted

vars == <<phase, rounds, posts, reached>>

Init == /\ phase = [e \in Events |-> "absent"]
        /\ rounds = [e \in Events |-> 0]
        /\ posts = [e \in Events |-> 0]
        /\ reached = {}

Move(e, p) == phase' = [phase EXCEPT ![e] = p]

Ask(e) == /\ phase[e] = "absent" /\ Move(e, "waiting")
          /\ UNCHANGED <<rounds, posts, reached>>

Open(e) == /\ phase[e] = "waiting" /\ rounds[e] < Rounds
           /\ Move(e, "open")
           /\ UNCHANGED <<rounds, posts, reached>>

Send(e) == /\ phase[e] = "open" /\ Move(e, "spent")
           /\ posts' = [posts EXCEPT ![e] = @ + 1]
           /\ reached' \in {reached, reached \cup {e}}
           /\ UNCHANGED rounds

\* The round passes without a POST; why it was refused may be forgotten.
Skip(e) == /\ \/ phase[e] = "open" /\ (Move(e, "spent") \/ Move(e, "refused"))
              \/ phase[e] = "refused" /\ Move(e, "spent")
           /\ UNCHANGED <<rounds, posts, reached>>

Close(e) ==
  /\ \/ /\ phase[e] = "spent" /\ rounds[e] + 1 < Rounds
        /\ Move(e, "waiting")
     \/ /\ phase[e] = "spent" /\ e \in reached
        /\ Move(e, "delivered")
     \/ /\ phase[e] = "refused" \/ (phase[e] = "spent" /\ rounds[e] + 1 = Rounds)
        /\ Move(e, "dead_letter")
  /\ rounds' = [rounds EXCEPT ![e] = @ + 1]
  /\ UNCHANGED <<posts, reached>>

Next == \E e \in Events : Ask(e) \/ Open(e) \/ Send(e) \/ Skip(e) \/ Close(e)

Spec == Init /\ [][Next]_vars
=============================================================================
