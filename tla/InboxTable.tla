---------------------------- MODULE InboxTable ----------------------------
(***************************************************************************)
(* The session_inbox table of state.db and the statements that read and    *)
(* write it (internal/store/inbox.go).  Every statement is one operator    *)
(* from a table to a table; the modules that own a table apply them.       *)
(*                                                                         *)
(* A table is a function from the ids of the rows it holds to rows.  A     *)
(* row's timestamps are kept as far as a statement tells them apart:       *)
(* whether it is claimed, delivered, dropped and read, and which of the    *)
(* admission windows its sent_at is still in.                              *)
(***************************************************************************)
EXTENDS Integers, FiniteSets

CONSTANTS
  NSessions,      \* session ids, numbered in the order their rows are made
  MaxMessages,    \* bound: message ids a behaviour may use
  Operator,       \* the sender id of the operator's own words
  Extensions,     \* sender ids of the board's extensions
  Subjects,       \* subjects a message may carry
  NoSubject,      \* the empty subject
  Bodies,         \* fingerprints of message bodies
  Kin,            \* pairs <<parent or spawner, child>>
  QueueCap, RateCap, PairCap

ASSUME InboxAssumption ==
  /\ NSessions \in Nat /\ MaxMessages \in Nat
  /\ QueueCap \in Nat /\ RateCap \in Nat /\ PairCap \in Nat
  /\ Operator \notin 1..NSessions
  /\ Extensions \cap (1..NSessions \cup {Operator}) = {}
  /\ NoSubject \notin Subjects

Sessions == 1..NSessions
Senders == Sessions \cup {Operator} \cup Extensions
Ids == 1..MaxMessages
Claims == {"none", "fresh", "stale"}

\* What a caller hands to Enqueue.
Drafts == [to : Sessions, from : Senders, subj : Subjects \cup {NoSubject},
           body : Bodies, interrupt : BOOLEAN]

\* "minute": inside every window; "window": outside the rate window only;
\* "old": outside all of them.
Ages == {"minute", "window", "old"}

Row == [to : Sessions, from : Senders, subj : Subjects \cup {NoSubject},
        body : Bodies, interrupt : BOOLEAN, age : Ages, claim : Claims,
        delivered : BOOLEAN, dropped : BOOLEAN, ended : BOOLEAN,
        superseded : 0..MaxMessages, read : BOOLEAN]

IsTable(box) == /\ DOMAIN box \subseteq Ids
                /\ \A i \in DOMAIN box : box[i] \in Row

NewRow(d) == [to |-> d.to, from |-> d.from, subj |-> d.subj, body |-> d.body,
              interrupt |-> d.interrupt, age |-> "minute", claim |-> "none",
              delivered |-> FALSE, dropped |-> FALSE, ended |-> FALSE,
              superseded |-> 0, read |-> FALSE]

---------------------------------------------------------------------------
(* The queue: the undelivered rows, oldest first. *)

Queued(box) == {i \in DOMAIN box : ~box[i].delivered}
QueuedFor(box, s) == {i \in Queued(box) : box[i].to = s}
Undropped(box, s) == {i \in QueuedFor(box, s) : ~box[i].dropped}
Unclaimed(box) == {i \in Queued(box) : box[i].claim = "none"}

\* Variant: the queue read from its newest end.
IsHeadNewest(box, s, i) == /\ i \in QueuedFor(box, s)
                           /\ \A j \in QueuedFor(box, s) : i >= j

IsHead(box, s, i) == /\ i \in QueuedFor(box, s)
                     /\ \A j \in QueuedFor(box, s) : i <= j

---------------------------------------------------------------------------
(* Admission: the limits ride the INSERT itself. *)

Related(a, b) == <<a, b>> \in Kin \/ <<b, a>> \in Kin
Exempt(d) == \/ PairCap = 0
             \/ d.from \in {Operator} \cup Extensions
             \/ Related(d.from, d.to)

Between(box, a, b) ==
  {i \in DOMAIN box : /\ box[i].age # "old"
                      /\ \/ box[i].to = a /\ box[i].from = b
                         \/ box[i].to = b /\ box[i].from = a}

SentTo(box, d) == {i \in DOMAIN box : box[i].to = d.to /\ box[i].from = d.from}

InsertAdmitted(box, d) ==
  /\ Cardinality(QueuedFor(box, d.to)) < QueueCap
  /\ Cardinality({i \in SentTo(box, d) : box[i].age = "minute"}) < RateCap
  /\ ~\E i \in SentTo(box, d) : box[i].body = d.body /\ box[i].age # "old"
  /\ Exempt(d) \/ Cardinality(Between(box, d.to, d.from)) < PairCap

\* Variant: the replacement takes rows a send has claimed.
SupersededThoughClaimed(box, d) ==
  {i \in Queued(box) : /\ d.subj # NoSubject
                       /\ box[i].to = d.to /\ box[i].from = d.from
                       /\ box[i].subj = d.subj}

\* The rows a message on a subject takes the place of: the sender's own,
\* to the same session, that nothing has claimed.
Superseded(box, d) ==
  {i \in Unclaimed(box) : /\ d.subj # NoSubject
                          /\ box[i].to = d.to
                          /\ box[i].from = d.from
                          /\ box[i].subj = d.subj}

Retire(box, ids, by) ==
  [i \in DOMAIN box |->
     IF i \in ids THEN [box[i] EXCEPT !.delivered = TRUE, !.superseded = by]
                  ELSE box[i]]

\* Retire-then-insert in one transaction: the limits are read with the
\* superseded rows already off the queue, and a refusal undoes the retirement.
Admitted(box, d) == InsertAdmitted(Retire(box, Superseded(box, d), 0), d)

Insert(box, id, row) ==
  [i \in DOMAIN box \cup {id} |-> IF i = id THEN row ELSE box[i]]

\* Variant: the placeholder is never replaced by the new row's id.
EnqueueUnlinked(box, id, d) ==
  Insert(Retire(box, Superseded(box, d), -1), id, NewRow(d))

Enqueue(box, id, d) ==
  Insert(Retire(box, Superseded(box, d), id), id, NewRow(d))

\* The notice of a dead recipient goes in past every limit.
InsertNotice(box, id, d) == Insert(box, id, NewRow(d))

---------------------------------------------------------------------------
(* Delivery: compare-and-set on one row, by id alone. *)

\* Variant: the claim is not compared.
ClaimableIfQueued(box, i) == i \in Queued(box)

Claimable(box, i) == i \in Unclaimed(box)

ClaimMessage(box, i) == [box EXCEPT ![i].claim = "fresh"]

MarkDelivered(box, i) ==
  [j \in DOMAIN box |->
     IF j = i /\ ~box[j].delivered THEN [box[j] EXCEPT !.delivered = TRUE]
                                   ELSE box[j]]

DropAll(box, ids, why) ==
  [i \in DOMAIN box |->
     IF i \in ids
       THEN [box[i] EXCEPT !.delivered = TRUE, !.dropped = TRUE, !.ended = why]
       ELSE box[i]]

MarkDropped(box, i) == DropAll(box, {i} \cap Queued(box), FALSE)

\* Withdraw: with no subject, everything the sender still has waiting.
Withdrawable(box, to, from, subj) ==
  {i \in Unclaimed(box) : /\ box[i].to = to
                          /\ box[i].from = from
                          /\ subj \in {NoSubject, box[i].subj}}

Withdraw(box, to, from, subj) ==
  DropAll(box, Withdrawable(box, to, from, subj), FALSE)

\* Variant: what was already delivered is dropped with the queue.
DropEndedAll(box, s) == DropAll(box, {i \in DOMAIN box : box[i].to = s}, TRUE)

\* The recipient's row reads dead: its whole queue goes, claims included.
DropEnded(box, s) == DropAll(box, Undropped(box, s), TRUE)

\* takeSeat and ForwardInbox: the claim is cleared with the move.
Forward(box, from, to) ==
  [i \in DOMAIN box |->
     IF i \in Undropped(box, from)
       THEN [box[i] EXCEPT !.to = to, !.claim = "none"] ELSE box[i]]

MarkRead(box, reader, sender) ==
  [i \in DOMAIN box |->
     IF /\ box[i].to = reader /\ box[i].from = sender
        /\ box[i].delivered /\ ~box[i].dropped
       THEN [box[i] EXCEPT !.read = TRUE] ELSE box[i]]

Prune(box, ids) == [i \in DOMAIN box \ ids |-> box[i]]
Settled(box) == {i \in DOMAIN box : box[i].delivered}

\* Enqueue by a session, and the acknowledgement that rides it: a sender
\* that is no session has no rows of its own to mark.
SendMessage(box, id, d) == MarkRead(Enqueue(box, id, d), d.from, d.to)
===========================================================================
