------------------------------ MODULE Mailbox ------------------------------
(***************************************************************************)
(* What the inbox promises about one message, whoever delivers it: it is   *)
(* queued once, belongs to at most one send at a time, is settled once,    *)
(* and a settled message never comes back, nor changes how it was settled. *)
(***************************************************************************)
EXTENDS Naturals

CONSTANTS Ids,       \* message ids, handed out in order
          Handover   \* may a queue change hands while a send is out?

VARIABLE phase

Phases == {"unsent", "queued", "claimed", "delivered", "dropped",
           "superseded", "pruned"}
Outcomes == {"delivered", "dropped", "superseded"}

Init == phase = [i \in Ids |-> "unsent"]

Move(S, to) == phase' = [i \in Ids |-> IF i \in S THEN to ELSE phase[i]]
All(S, from) == \A i \in S : phase[i] \in from

\* Ids are never reused: a message takes the next one.  What it supersedes
\* goes in the same step.
Send(i, S) ==
  /\ phase[i] = "unsent"
  /\ \A j \in Ids : j < i => phase[j] # "unsent"
  /\ All(S, {"queued"})
  /\ phase' = [j \in Ids |-> IF j = i THEN "queued"
                             ELSE IF j \in S THEN "superseded" ELSE phase[j]]

Claim(i) == phase[i] = "queued" /\ Move({i}, "claimed")

\* A queue that changed hands has no claims left on it, so a send still out
\* settles a message that reads as queued.
Deliver(i) ==
  /\ phase[i] = "claimed" \/ (Handover /\ phase[i] = "queued")
  /\ Move({i}, "delivered")

Drop(S) == All(S, {"queued", "claimed"}) /\ Move(S, "dropped")
Prune(S) == All(S, Outcomes) /\ Move(S, "pruned")
HandOver(S) == Handover /\ All(S, {"claimed"}) /\ Move(S, "queued")

Next == \/ \E i \in Ids, S \in SUBSET Ids : Send(i, S)
        \/ \E i \in Ids : Claim(i) \/ Deliver(i)
        \/ \E S \in SUBSET Ids : Drop(S) \/ Prune(S) \/ HandOver(S)

Spec == Init /\ [][Next]_phase
===========================================================================
