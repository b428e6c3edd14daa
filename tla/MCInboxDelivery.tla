-------------------------- MODULE MCInboxDelivery --------------------------
(* Small instances of InboxDelivery. *)
EXTENDS InboxDelivery

CONSTANTS Topic, b1, b2, b3, Plugin

Letter(to, from, subj, body) ==
  [to |-> to, from |-> from, subj |-> subj, body |-> body, interrupt |-> FALSE]

\* No session is another's parent; session 2 spawned session 1.
Strangers == {}
Family == {<<2, 1>>}

\* The operator writes to session 1; the same body twice is refused, so a
\* correction on a subject needs a body of its own.
Urgent == {[Letter(1, Operator, NoSubject, b1) EXCEPT !.interrupt = TRUE]}
Plain == {Letter(1, Operator, NoSubject, b1), Letter(1, Operator, NoSubject, b2)}
Mixed == Urgent \cup {Letter(1, Operator, Topic, b2), Letter(1, Operator, Topic, b3)}

\* An extension may also take its letters back.
Corrections == {Letter(1, Plugin, Topic, b1), Letter(1, Plugin, Topic, b2)}
Notes == Corrections \cup {Letter(1, Plugin, NoSubject, b3)}

\* A parent and its child write to each other.
Exchange == {Letter(1, 2, NoSubject, b1), Letter(1, 2, NoSubject, b2),
             Letter(2, 1, NoSubject, b1)}
===========================================================================
