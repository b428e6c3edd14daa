-------------------------- MODULE InboxTableProofs --------------------------
(***************************************************************************)
(* What the statements on session_inbox keep and change, for every table:  *)
(* each leaves a table, and none but Forward gives a claim up or moves a   *)
(* row to another session.                                                 *)
(***************************************************************************)
EXTENDS InboxTable, TLAPS

LEMMA BoundsAreNat == NSessions \in Nat /\ MaxMessages \in Nat
BY InboxAssumption DEF InboxAssumption

\* A row a statement rewrote: it stays with its recipient, and can be claimed
\* only if it could be.
Rewritten(r, q) ==
  /\ q \in Row
  /\ q.to = r.to
  /\ q.claim = "none" /\ ~q.delivered => r.claim = "none" /\ ~r.delivered

Rewrites(box, new) ==
  /\ DOMAIN new \subseteq DOMAIN box
  /\ \A i \in DOMAIN new : Rewritten(box[i], new[i])

\* What Rewrites says of the table as a whole.
LEMMA RewritesTable ==
  ASSUME NEW box, IsTable(box), NEW new, Rewrites(box, new)
  PROVE  /\ IsTable(new)
         /\ DOMAIN new \subseteq DOMAIN box
         /\ \A i \in DOMAIN new : new[i].to = box[i].to
         /\ Unclaimed(new) \subseteq Unclaimed(box)
BY DEF Rewrites, Rewritten, IsTable, Unclaimed, Queued

\* Retiring the rows a message supersedes rewrites them.
LEMMA RetireRewrites ==
  ASSUME NEW box, IsTable(box), NEW ids, NEW by \in 0..MaxMessages
  PROVE  Rewrites(box, Retire(box, ids, by)) /\ DOMAIN Retire(box, ids, by) = DOMAIN box
<1> DEFINE new == Retire(box, ids, by)
<1>1. DOMAIN new = DOMAIN box
  BY DEF Retire
<1>2. ASSUME NEW i \in DOMAIN box PROVE Rewritten(box[i], new[i])
  <2>1. box[i] \in Row
    BY DEF IsTable
  <2>2. CASE i \notin ids
    BY <2>1, <2>2 DEF Rewritten, Retire
  <2>3. CASE i \in ids
    <3> DEFINE q == [box[i] EXCEPT !.delivered = TRUE, !.superseded = by]
    <3>1. new[i] = q
      BY <2>3 DEF Retire
    <3>2. q \in Row /\ q.to = box[i].to
      BY <2>1 DEF Row
    <3>3. q.delivered = TRUE
      BY <2>1, Zenon DEF Row
    <3> QED BY <3>1, <3>2, <3>3 DEF Rewritten
  <2> QED BY <2>2, <2>3
<1> QED BY <1>1, <1>2 DEF Rewrites

\* Dropping rows rewrites them, whatever the reason.
LEMMA DropAllRewrites ==
  ASSUME NEW box, IsTable(box), NEW ids, NEW why \in BOOLEAN
  PROVE  Rewrites(box, DropAll(box, ids, why))
<1> DEFINE new == DropAll(box, ids, why)
<1>1. DOMAIN new = DOMAIN box
  BY DEF DropAll
<1>2. ASSUME NEW i \in DOMAIN box PROVE Rewritten(box[i], new[i])
  <2>1. box[i] \in Row
    BY DEF IsTable
  <2>2. CASE i \notin ids
    BY <2>1, <2>2 DEF Rewritten, DropAll
  <2>3. CASE i \in ids
    <3> DEFINE q == [box[i] EXCEPT !.delivered = TRUE, !.dropped = TRUE, !.ended = why]
    <3>1. new[i] = q
      BY <2>3 DEF DropAll
    <3>2. q \in Row /\ q.to = box[i].to
      BY <2>1 DEF Row
    <3>3. q.delivered = TRUE
      BY <2>1, Zenon DEF Row
    <3> QED BY <3>1, <3>2, <3>3 DEF Rewritten
  <2> QED BY <2>2, <2>3
<1> QED BY <1>1, <1>2 DEF Rewrites

LEMMA MarkDroppedRewrites ==
  ASSUME NEW box, IsTable(box), NEW i
  PROVE  Rewrites(box, MarkDropped(box, i))
BY DropAllRewrites DEF MarkDropped

LEMMA WithdrawRewrites ==
  ASSUME NEW box, IsTable(box), NEW to, NEW from, NEW subj
  PROVE  Rewrites(box, Withdraw(box, to, from, subj))
BY DropAllRewrites DEF Withdraw

LEMMA DropEndedRewrites ==
  ASSUME NEW box, IsTable(box), NEW s
  PROVE  Rewrites(box, DropEnded(box, s))
BY DropAllRewrites DEF DropEnded

LEMMA MarkDeliveredRewrites ==
  ASSUME NEW box, IsTable(box), NEW i
  PROVE  Rewrites(box, MarkDelivered(box, i))
<1> DEFINE new == MarkDelivered(box, i)
<1>1. ASSUME NEW j \in DOMAIN box PROVE Rewritten(box[j], new[j])
  <2>1. box[j] \in Row
    BY DEF IsTable
  <2> DEFINE q == [box[j] EXCEPT !.delivered = TRUE]
  <2>2. new[j] = q \/ new[j] = box[j]
    BY DEF MarkDelivered
  <2>3. q \in Row /\ q.to = box[j].to
    BY <2>1 DEF Row
  <2>4. q.delivered = TRUE
    BY <2>1, Zenon DEF Row
  <2> QED BY <2>1, <2>2, <2>3, <2>4 DEF Rewritten
<1> QED BY <1>1 DEF Rewrites, MarkDelivered

\* An acknowledgement changes nothing that delivery looks at.
LEMMA MarkReadRewrites ==
  ASSUME NEW box, IsTable(box), NEW reader, NEW sender
  PROVE  /\ Rewrites(box, MarkRead(box, reader, sender))
         /\ DOMAIN MarkRead(box, reader, sender) = DOMAIN box
<1> DEFINE new == MarkRead(box, reader, sender)
<1>1. ASSUME NEW j \in DOMAIN box PROVE Rewritten(box[j], new[j])
  <2>1. box[j] \in Row
    BY DEF IsTable
  <2> DEFINE q == [box[j] EXCEPT !.read = TRUE]
  <2>2. new[j] = q \/ new[j] = box[j]
    BY DEF MarkRead
  <2>3. q \in Row /\ q.to = box[j].to /\ q.claim = box[j].claim
    BY <2>1 DEF Row
  <2>4. q.delivered = box[j].delivered
    BY <2>1, Zenon DEF Row
  <2> QED BY <2>1, <2>2, <2>3, <2>4 DEF Rewritten
<1> QED BY <1>1 DEF Rewrites, MarkRead

LEMMA PruneRewrites ==
  ASSUME NEW box, IsTable(box), NEW ids
  PROVE  Rewrites(box, Prune(box, ids))
BY DEF Rewrites, Rewritten, IsTable, Prune

\* Stamping a claim on a row, whatever its age, rewrites it, and the row can
\* no longer be claimed.
LEMMA ClaimRewrites ==
  ASSUME NEW box, IsTable(box), NEW i \in DOMAIN box, NEW c \in Claims \ {"none"}
  PROVE  LET new == [box EXCEPT ![i].claim = c] IN
         /\ Rewrites(box, new) /\ DOMAIN new = DOMAIN box
         /\ i \notin Unclaimed(new)
<1> DEFINE q == [box[i] EXCEPT !.claim = c]
           new == [box EXCEPT ![i].claim = c]
<1>1. box[i] \in Row
  BY DEF IsTable
<1>2. q \in Row /\ q.to = box[i].to /\ q.claim # "none"
  BY <1>1 DEF Row
<1>3. DOMAIN new = DOMAIN box /\ new[i] = q
  OBVIOUS
<1>4. \A j \in DOMAIN box : j # i => new[j] = box[j]
  OBVIOUS
<1>5. ASSUME NEW j \in DOMAIN box PROVE Rewritten(box[j], new[j])
  BY <1>2, <1>3, <1>4 DEF Rewritten, IsTable
<1>6. i \notin Unclaimed(new)
  BY <1>2, <1>3 DEF Unclaimed
<1> QED BY <1>3, <1>5, <1>6 DEF Rewrites

\* A table with one row more: the rows it had stay with their recipients, and
\* none of them becomes claimable.
Grows(box, id, table) ==
  /\ IsTable(table)
  /\ DOMAIN table = DOMAIN box \cup {id}
  /\ \A i \in DOMAIN box : table[i].to = box[i].to
  /\ Unclaimed(table) \subseteq Unclaimed(box) \cup {id}

LEMMA InsertGrows ==
  ASSUME NEW box, IsTable(box), NEW id \in Ids, id \notin DOMAIN box,
         NEW d \in Drafts, NEW ret, Rewrites(box, ret), DOMAIN ret = DOMAIN box
  PROVE  Grows(box, id, Insert(ret, id, NewRow(d)))
<1> DEFINE queued == Insert(ret, id, NewRow(d))
<1>1. NewRow(d) \in Row
  BY BoundsAreNat DEF NewRow, Row, Drafts, Ages, Claims
<1>2. /\ IsTable(ret) /\ Unclaimed(ret) \subseteq Unclaimed(box)
      /\ \A i \in DOMAIN box : ret[i].to = box[i].to
  BY RewritesTable
<1>3. DOMAIN queued = DOMAIN box \cup {id} /\ queued[id] = NewRow(d)
  BY DEF Insert
<1>4. \A i \in DOMAIN box : i # id => queued[i] = ret[i]
  BY DEF Insert
<1> HIDE DEF queued
<1>5. IsTable(queued)
  BY <1>1, <1>2, <1>3, <1>4 DEF IsTable
<1>6. Unclaimed(queued) \subseteq Unclaimed(box) \cup {id}
  BY <1>2, <1>3, <1>4 DEF Unclaimed, Queued
<1>7. \A i \in DOMAIN box : queued[i].to = box[i].to
  BY <1>2, <1>4
<1> QED BY <1>3, <1>5, <1>6, <1>7 DEF Grows, queued

\* Enqueue adds one row, and takes none of the others' claims.
LEMMA EnqueueGrows ==
  ASSUME NEW box, IsTable(box), NEW id \in Ids, id \notin DOMAIN box, NEW d \in Drafts
  PROVE  Grows(box, id, Enqueue(box, id, d))
<1> DEFINE ret == Retire(box, Superseded(box, d), id)
<1>1. Rewrites(box, ret) /\ DOMAIN ret = DOMAIN box
  BY RetireRewrites, BoundsAreNat DEF Ids
<1> HIDE DEF ret
<1>2. Grows(box, id, Insert(ret, id, NewRow(d)))
  BY <1>1, InsertGrows
<1> QED BY <1>2 DEF Enqueue, ret

\* So does the acknowledged send of a session.
LEMMA SendMessageGrows ==
  ASSUME NEW box, IsTable(box), NEW id \in Ids, id \notin DOMAIN box, NEW d \in Drafts
  PROVE  Grows(box, id, SendMessage(box, id, d))
<1> DEFINE queued == Enqueue(box, id, d)
           new == MarkRead(queued, d.from, d.to)
<1>1. Grows(box, id, queued)
  BY EnqueueGrows
<1> HIDE DEF queued
<1>2. Rewrites(queued, new) /\ DOMAIN new = DOMAIN queued
  BY <1>1, MarkReadRewrites DEF Grows
<1> HIDE DEF new
<1>3. Grows(box, id, new)
  BY <1>1, <1>2, RewritesTable DEF Grows
<1> QED BY <1>3 DEF SendMessage, queued, new

\* And the notice that goes in past the limits.
LEMMA NoticeGrows ==
  ASSUME NEW box, IsTable(box), NEW id \in Ids, id \notin DOMAIN box, NEW d \in Drafts
  PROVE  Grows(box, id, InsertNotice(box, id, d))
<1>1. Rewrites(box, box)
  BY DEF Rewrites, Rewritten, IsTable
<1> QED BY <1>1, InsertGrows DEF InsertNotice

\* Forwarding moves rows and gives their claims up; every other row stands.
LEMMA ForwardMoves ==
  ASSUME NEW box, IsTable(box), NEW old \in Sessions, NEW new \in Sessions
  PROVE  LET fwd == Forward(box, old, new) IN
         /\ IsTable(fwd)
         /\ DOMAIN fwd = DOMAIN box
         /\ \A i \in DOMAIN fwd :
              fwd[i].to = new \/ (fwd[i].to = box[i].to
                                  /\ (i \in Unclaimed(fwd) => i \in Unclaimed(box)))
<1> DEFINE fwd == Forward(box, old, new)
<1>1. DOMAIN fwd = DOMAIN box
  BY DEF Forward
<1>2. ASSUME NEW i \in DOMAIN box
      PROVE  fwd[i] = box[i] \/ (fwd[i] \in Row /\ fwd[i].to = new)
  <2>1. box[i] \in Row
    BY DEF IsTable
  <2> DEFINE q == [box[i] EXCEPT !.to = new, !.claim = "none"]
  <2>2. q \in Row /\ q.to = new
    BY <2>1 DEF Row, Claims
  <2>3. fwd[i] = q \/ fwd[i] = box[i]
    BY DEF Forward
  <2> QED BY <2>2, <2>3
<1>3. IsTable(fwd)
  <2> HIDE DEF fwd
  <2> QED BY <1>1, <1>2 DEF IsTable
<1>4. \A i \in DOMAIN fwd :
        fwd[i].to = new \/ (fwd[i].to = box[i].to
                            /\ (i \in Unclaimed(fwd) => i \in Unclaimed(box)))
  <2> HIDE DEF fwd
  <2> QED BY <1>1, <1>2 DEF Unclaimed, Queued
<1> QED BY <1>1, <1>3, <1>4
=============================================================================
