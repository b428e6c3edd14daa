-------------------------- MODULE InboxPromiseProofs --------------------------
(***************************************************************************)
(* That mail retired while it waited is never typed; that mail is typed in *)
(* the order it was queued; that, where nothing is replaced, what is       *)
(* recorded as delivered was typed, and no manager retires a message its   *)
(* own send still has; and that the delivery of the inbox implements       *)
(* Mailbox, with replacements or without: for any number of sessions,      *)
(* messages, managers, crashes and ends.                                   *)
(***************************************************************************)
EXTENDS InboxDeliveryProofs

-----------------------------------------------------------------------------
(* How a message stands, by its row alone, and what the statements do to that. *)

Stands(r) ==
  IF r.superseded # 0 THEN "superseded"
  ELSE IF r.dropped THEN "dropped"
  ELSE IF r.delivered THEN "delivered"
  ELSE IF r.claim # "none" THEN "claimed"
  ELSE "queued"

\* What is dropped or superseded is off the queue, and what is superseded was never
\* claimed.
Sound(r) ==
  /\ r \in Row
  /\ r.dropped \/ r.superseded # 0 => r.delivered
  /\ r.superseded # 0 => r.claim = "none"
SoundTable(box) == DOMAIN box \subseteq Ids /\ \A i \in DOMAIN box : Sound(box[i])

LEMMA StandsFacts ==
  ASSUME NEW r, Sound(r)
  PROVE  /\ ~r.delivered <=> Stands(r) \in {"queued", "claimed"}
         /\ ~r.delivered /\ r.claim = "none" <=> Stands(r) = "queued"
         /\ r.delivered => Stands(r) \in {"delivered", "dropped", "superseded"}
BY DEF Sound, Stands

\* A statement stays with the rows' recipients and clears no claim.
Tame(box, new) ==
  /\ SoundTable(new) /\ DOMAIN new \subseteq DOMAIN box
  /\ \A i \in DOMAIN new : /\ new[i].to = box[i].to
                           /\ new[i].claim = "none" => box[i].claim = "none"
\* It is tame, and moves the rows ids to where they stand now; others stay.
Moves(box, new, ids, to) ==
  /\ Tame(box, new) /\ DOMAIN new = DOMAIN box
  /\ \A i \in DOMAIN new : Stands(new[i]) = IF i \in ids THEN to ELSE Stands(box[i])

LEMMA DroppedRow ==
  ASSUME NEW r, Sound(r), ~r.delivered, NEW why \in BOOLEAN
  PROVE  LET q == [r EXCEPT !.delivered = TRUE, !.dropped = TRUE, !.ended = why] IN
         Sound(q) /\ q.to = r.to /\ q.claim = r.claim /\ Stands(q) = "dropped"
<1> DEFINE q == [r EXCEPT !.delivered = TRUE, !.dropped = TRUE, !.ended = why]
<1>1. r \in Row /\ r.superseded = 0
  BY DEF Sound
<1>2. q \in Row /\ q.to = r.to /\ q.claim = r.claim /\ q.superseded = 0
  BY <1>1 DEF Row
<1>3. q.delivered = TRUE /\ q.dropped = TRUE
  BY <1>1, Zenon DEF Row
<1> HIDE DEF q
<1>4. Sound(q) /\ Stands(q) = "dropped"
  BY <1>2, <1>3 DEF Sound, Stands
<1> QED
  BY <1>2, <1>4 DEF q

LEMMA DropMoves ==
  ASSUME NEW box, SoundTable(box), NEW ids \in SUBSET Queued(box), NEW why \in BOOLEAN
  PROVE  Moves(box, DropAll(box, ids, why), ids, "dropped")
<1> DEFINE new == DropAll(box, ids, why)
<1>1. DOMAIN new = DOMAIN box
  BY DEF DropAll
<1>2. ASSUME NEW i \in DOMAIN box
      PROVE  /\ Sound(new[i]) /\ new[i].to = box[i].to /\ new[i].claim = box[i].claim
             /\ Stands(new[i]) = IF i \in ids THEN "dropped" ELSE Stands(box[i])
  <2>1. CASE i \in ids
    <3>1. Sound(box[i]) /\ ~box[i].delivered
      BY <2>1 DEF SoundTable, Queued
    <3>2. new[i] = [box[i] EXCEPT !.delivered = TRUE, !.dropped = TRUE, !.ended = why]
      BY <2>1 DEF DropAll
    <3>3. LET q == [box[i] EXCEPT !.delivered = TRUE, !.dropped = TRUE, !.ended = why] IN
          Sound(q) /\ q.to = box[i].to /\ q.claim = box[i].claim /\ Stands(q) = "dropped"
      BY <3>1, DroppedRow
    <3> QED
      BY <2>1, <3>2, <3>3
  <2>2. CASE i \notin ids
    BY <2>2 DEF DropAll, SoundTable
  <2> QED
    BY <2>1, <2>2
<1> HIDE DEF new
<1>3. Tame(box, new)
  BY <1>1, <1>2 DEF Tame, SoundTable
<1>4. Moves(box, new, ids, "dropped")
  BY <1>1, <1>2, <1>3 DEF Moves
<1> QED
  BY <1>4 DEF new

LEMMA SupersededRow ==
  ASSUME NEW r, Sound(r), ~r.delivered, r.claim = "none", NEW by \in Ids
  PROVE  LET q == [r EXCEPT !.delivered = TRUE, !.superseded = by] IN
         Sound(q) /\ q.to = r.to /\ q.claim = r.claim /\ Stands(q) = "superseded"
<1> DEFINE q == [r EXCEPT !.delivered = TRUE, !.superseded = by]
<1>1. r \in Row /\ by \in 0..MaxMessages /\ by # 0
  BY BoundsAreNat DEF Sound, Ids
<1>2. q \in Row /\ q.to = r.to /\ q.claim = r.claim /\ q.superseded = by
  BY <1>1 DEF Row
<1>3. q.delivered = TRUE
  BY <1>1, Zenon DEF Row
<1> HIDE DEF q
<1>4. Sound(q) /\ Stands(q) = "superseded"
  BY <1>1, <1>2, <1>3 DEF Sound, Stands
<1> QED
  BY <1>2, <1>4 DEF q

LEMMA RetireMoves ==
  ASSUME NEW box, SoundTable(box), NEW ids \in SUBSET Unclaimed(box), NEW by \in Ids
  PROVE  Moves(box, Retire(box, ids, by), ids, "superseded")
<1> DEFINE new == Retire(box, ids, by)
<1>1. DOMAIN new = DOMAIN box
  BY DEF Retire
<1>2. ASSUME NEW i \in DOMAIN box
      PROVE  /\ Sound(new[i]) /\ new[i].to = box[i].to /\ new[i].claim = box[i].claim
             /\ Stands(new[i]) = IF i \in ids THEN "superseded" ELSE Stands(box[i])
  <2>1. CASE i \in ids
    <3>1. Sound(box[i]) /\ ~box[i].delivered /\ box[i].claim = "none"
      BY <2>1 DEF SoundTable, Unclaimed, Queued
    <3>2. new[i] = [box[i] EXCEPT !.delivered = TRUE, !.superseded = by]
      BY <2>1 DEF Retire
    <3>3. LET q == [box[i] EXCEPT !.delivered = TRUE, !.superseded = by] IN
          Sound(q) /\ q.to = box[i].to /\ q.claim = box[i].claim /\ Stands(q) = "superseded"
      BY <3>1, SupersededRow
    <3> QED
      BY <2>1, <3>2, <3>3
  <2>2. CASE i \notin ids
    BY <2>2 DEF Retire, SoundTable
  <2> QED
    BY <2>1, <2>2
<1> HIDE DEF new
<1>3. Tame(box, new)
  BY <1>1, <1>2 DEF Tame, SoundTable
<1>4. Moves(box, new, ids, "superseded")
  BY <1>1, <1>2, <1>3 DEF Moves
<1> QED
  BY <1>4 DEF new

LEMMA ReadRow ==
  ASSUME NEW r, Sound(r)
  PROVE  LET q == [r EXCEPT !.read = TRUE] IN
         Sound(q) /\ q.to = r.to /\ q.claim = r.claim /\ Stands(q) = Stands(r)
<1> DEFINE q == [r EXCEPT !.read = TRUE]
<1>1. r \in Row
  BY DEF Sound
<1>2. q \in Row /\ q.to = r.to /\ q.claim = r.claim /\ q.superseded = r.superseded
  BY <1>1 DEF Row
<1>3. q.delivered = r.delivered /\ q.dropped = r.dropped
  BY <1>1, Zenon DEF Row
<1> HIDE DEF q
<1>4. Sound(q) /\ Stands(q) = Stands(r)
  BY <1>2, <1>3 DEF Sound, Stands
<1> QED
  BY <1>2, <1>4 DEF q

LEMMA ReadMoves ==
  ASSUME NEW box, SoundTable(box), NEW reader, NEW sender
  PROVE  Moves(box, MarkRead(box, reader, sender), {}, "queued")
<1> DEFINE new == MarkRead(box, reader, sender)
<1>1. DOMAIN new = DOMAIN box
  BY DEF MarkRead
<1>2. ASSUME NEW i \in DOMAIN box
      PROVE  /\ Sound(new[i]) /\ new[i].to = box[i].to /\ new[i].claim = box[i].claim
             /\ Stands(new[i]) = Stands(box[i])
  <2>1. Sound(box[i])
    BY DEF SoundTable
  <2>2. new[i] = box[i] \/ new[i] = [box[i] EXCEPT !.read = TRUE]
    BY DEF MarkRead
  <2>3. LET q == [box[i] EXCEPT !.read = TRUE] IN
        Sound(q) /\ q.to = box[i].to /\ q.claim = box[i].claim /\ Stands(q) = Stands(box[i])
    BY <2>1, ReadRow
  <2> HIDE DEF new
  <2> QED
    BY <2>1, <2>2, <2>3
<1> HIDE DEF new
<1>3. Tame(box, new)
  BY <1>1, <1>2 DEF Tame, SoundTable
<1>4. Moves(box, new, {}, "queued")
  BY <1>1, <1>2, <1>3 DEF Moves
<1> QED
  BY <1>4 DEF new

LEMMA DeliveredRow ==
  ASSUME NEW r, Sound(r), ~r.delivered
  PROVE  LET q == [r EXCEPT !.delivered = TRUE] IN
         Sound(q) /\ q.to = r.to /\ q.claim = r.claim /\ Stands(q) = "delivered"
<1> DEFINE q == [r EXCEPT !.delivered = TRUE]
<1>1. r \in Row /\ r.superseded = 0 /\ ~r.dropped
  BY DEF Sound
<1>2. q \in Row /\ q.to = r.to /\ q.claim = r.claim /\ q.superseded = r.superseded
  BY <1>1 DEF Row
<1>3. q.delivered = TRUE /\ q.dropped = r.dropped
  BY <1>1, Zenon DEF Row
<1> HIDE DEF q
<1>4. Sound(q) /\ Stands(q) = "delivered"
  BY <1>1, <1>2, <1>3 DEF Sound, Stands
<1> QED
  BY <1>2, <1>4 DEF q

LEMMA DeliverMoves ==
  ASSUME NEW box, SoundTable(box), NEW j
  PROVE  Moves(box, MarkDelivered(box, j), {j} \cap Queued(box), "delivered")
<1> DEFINE new == MarkDelivered(box, j)
           ids == {j} \cap Queued(box)
<1>1. DOMAIN new = DOMAIN box
  BY DEF MarkDelivered
<1>2. ASSUME NEW i \in DOMAIN box
      PROVE  /\ Sound(new[i]) /\ new[i].to = box[i].to /\ new[i].claim = box[i].claim
             /\ Stands(new[i]) = IF i \in ids THEN "delivered" ELSE Stands(box[i])
  <2>1. CASE i \in ids
    <3>1. Sound(box[i]) /\ ~box[i].delivered
      BY <2>1 DEF SoundTable, Queued
    <3>2. new[i] = [box[i] EXCEPT !.delivered = TRUE]
      BY <2>1, <3>1 DEF MarkDelivered
    <3>3. LET q == [box[i] EXCEPT !.delivered = TRUE] IN
          Sound(q) /\ q.to = box[i].to /\ q.claim = box[i].claim /\ Stands(q) = "delivered"
      BY <3>1, DeliveredRow
    <3> QED
      BY <2>1, <3>2, <3>3
  <2>2. CASE i \notin ids
    BY <2>2 DEF MarkDelivered, SoundTable, Queued
  <2> QED
    BY <2>1, <2>2
<1> HIDE DEF new, ids
<1>3. Tame(box, new)
  BY <1>1, <1>2 DEF Tame, SoundTable
<1>4. Moves(box, new, ids, "delivered")
  BY <1>1, <1>2, <1>3 DEF Moves
<1> QED
  BY <1>4 DEF new, ids

LEMMA ClaimMoves ==
  ASSUME NEW box, SoundTable(box), NEW j \in Queued(box), NEW c \in Claims \ {"none"}
  PROVE  Moves(box, [box EXCEPT ![j].claim = c], {j}, "claimed")
<1> DEFINE q == [box[j] EXCEPT !.claim = c]
           new == [box EXCEPT ![j].claim = c]
<1>1. box[j] \in Row /\ box[j].superseded = 0 /\ ~box[j].dropped /\ ~box[j].delivered
  BY DEF SoundTable, Sound, Queued
<1>2. q \in Row /\ q.to = box[j].to /\ q.claim # "none" /\ q.superseded = 0
  BY <1>1 DEF Row
<1>3. q.delivered = box[j].delivered /\ q.dropped = box[j].dropped
  BY <1>1, Zenon DEF Row
<1>4. DOMAIN new = DOMAIN box /\ new[j] = q /\ j \in DOMAIN box
      /\ \A i \in DOMAIN box : i # j => new[i] = box[i]
  BY DEF Queued
<1> HIDE DEF q, new
<1>5. Sound(q) /\ Stands(q) = "claimed"
  BY <1>1, <1>2, <1>3 DEF Sound, Stands
<1>6. Tame(box, new)
  BY <1>2, <1>4, <1>5 DEF Tame, SoundTable
<1>7. Moves(box, new, {j}, "claimed")
  BY <1>4, <1>5, <1>6 DEF Moves
<1> QED
  BY <1>7 DEF new

LEMMA PruneTame ==
  ASSUME NEW box, SoundTable(box), NEW ids
  PROVE  Tame(box, Prune(box, ids))
BY DEF Tame, SoundTable, Prune

\* A table that one row has joined, in the place of the rows ids.
Joins(box, id, new, ids) ==
  /\ SoundTable(new) /\ DOMAIN new = DOMAIN box \cup {id} /\ Stands(new[id]) = "queued"
  /\ \A i \in DOMAIN box :
       /\ new[i].to = box[i].to
       /\ new[i].claim = "none" => box[i].claim = "none"
       /\ Stands(new[i]) = IF i \in ids THEN "superseded" ELSE Stands(box[i])

LEMMA InsertJoins ==
  ASSUME NEW box, NEW ids, NEW ret, Moves(box, ret, ids, "superseded"),
         NEW id \in Ids, id \notin DOMAIN box, NEW d \in Drafts
  PROVE  Joins(box, id, Insert(ret, id, NewRow(d)), ids)
<1> DEFINE new == Insert(ret, id, NewRow(d))
           r == NewRow(d)
<1>1. r \in Row /\ r.superseded = 0 /\ r.claim = "none"
  BY BoundsAreNat DEF NewRow, Row, Drafts, Ages, Claims
<1>2. ~r.delivered /\ ~r.dropped
  BY DEF NewRow
<1>3. /\ DOMAIN new = DOMAIN box \cup {id} /\ new[id] = r
      /\ \A i \in DOMAIN box : new[i] = ret[i]
  BY DEF Insert, Moves
<1> HIDE DEF new, r
<1>4. Sound(r) /\ Stands(r) = "queued"
  BY <1>1, <1>2 DEF Sound, Stands
<1>5. SoundTable(new)
  BY <1>3, <1>4 DEF Moves, Tame, SoundTable
<1>6. Joins(box, id, new, ids)
  BY <1>3, <1>4, <1>5 DEF Joins, Moves, Tame
<1> QED
  BY <1>6 DEF new

LEMMA EnqueueJoins ==
  ASSUME NEW box, SoundTable(box), NEW id \in Ids, id \notin DOMAIN box, NEW d \in Drafts
  PROVE  Joins(box, id, Enqueue(box, id, d), Superseded(box, d))
<1>1. Superseded(box, d) \in SUBSET Unclaimed(box)
  BY DEF Superseded
<1>2. Moves(box, Retire(box, Superseded(box, d), id), Superseded(box, d), "superseded")
  BY <1>1, RetireMoves
<1> QED
  BY <1>2, InsertJoins DEF Enqueue

LEMMA SendJoins ==
  ASSUME NEW box, SoundTable(box), NEW id \in Ids, id \notin DOMAIN box, NEW d \in Drafts
  PROVE  Joins(box, id, SendMessage(box, id, d), Superseded(box, d))
<1> DEFINE queued == Enqueue(box, id, d)
           new == MarkRead(queued, d.from, d.to)
<1>1. Joins(box, id, queued, Superseded(box, d))
  BY EnqueueJoins
<1> HIDE DEF queued
<1>2. Moves(queued, new, {}, "queued")
  BY <1>1, ReadMoves DEF Joins
<1> HIDE DEF new
<1>3. Joins(box, id, new, Superseded(box, d))
  BY <1>1, <1>2 DEF Joins, Moves, Tame
<1> QED
  BY <1>3 DEF SendMessage, queued, new

LEMMA NoticeJoins ==
  ASSUME NEW box, SoundTable(box), NEW id \in Ids, id \notin DOMAIN box, NEW d \in Drafts
  PROVE  Joins(box, id, InsertNotice(box, id, d), {})
<1>1. Moves(box, box, {}, "superseded")
  BY DEF Moves, Tame, SoundTable
<1> QED
  BY <1>1, InsertJoins DEF InsertNotice

LEMMA ForwardHands ==
  ASSUME NEW box, SoundTable(box), NEW old \in Sessions, NEW new \in Sessions
  PROVE  LET fwd == Forward(box, old, new) IN
         /\ SoundTable(fwd) /\ DOMAIN fwd = DOMAIN box
         /\ \A i \in DOMAIN box :
              IF i \in Undropped(box, old)
                THEN fwd[i].to = new /\ fwd[i].claim = "none" /\ Stands(fwd[i]) = "queued"
                ELSE fwd[i] = box[i]
<1> DEFINE fwd == Forward(box, old, new)
<1>1. DOMAIN fwd = DOMAIN box
  BY DEF Forward
<1>2. ASSUME NEW i \in DOMAIN box
      PROVE  IF i \in Undropped(box, old)
               THEN /\ fwd[i].to = new /\ fwd[i].claim = "none"
                    /\ Sound(fwd[i]) /\ Stands(fwd[i]) = "queued"
               ELSE fwd[i] = box[i]
  <2>1. CASE i \in Undropped(box, old)
    <3> DEFINE q == [box[i] EXCEPT !.to = new, !.claim = "none"]
    <3>1. /\ box[i] \in Row /\ box[i].superseded = 0
          /\ ~box[i].dropped /\ ~box[i].delivered
      BY <2>1 DEF SoundTable, Sound, Undropped, QueuedFor, Queued
    <3>2. q \in Row /\ q.to = new /\ q.claim = "none" /\ q.superseded = 0
      BY <3>1 DEF Row, Claims
    <3>3. q.delivered = box[i].delivered /\ q.dropped = box[i].dropped
      BY <3>1, Zenon DEF Row
    <3>4. fwd[i] = q
      BY <2>1 DEF Forward
    <3> HIDE DEF q, fwd
    <3>5. Sound(q) /\ Stands(q) = "queued"
      BY <3>1, <3>2, <3>3 DEF Sound, Stands
    <3> QED
      BY <2>1, <3>2, <3>4, <3>5
  <2>2. CASE i \notin Undropped(box, old)
    BY <2>2 DEF Forward
  <2> QED
    BY <2>1, <2>2
<1> HIDE DEF fwd
<1>3. SoundTable(fwd)
  BY <1>1, <1>2 DEF SoundTable
<1> QED
  BY <1>1, <1>2, <1>3 DEF fwd

-----------------------------------------------------------------------------
(* The steps, by what they do to the table and to the sends. *)

\* Nothing is sent, typed or read anew.
Typed == {"pasted", "entered"}
Calm ==
  /\ nextId' = nextId /\ pasted' = pasted
  /\ \A m \in Managers, s \in Sessions : view'[m][s].id \in {view[m][s].id, 0}
  /\ \A m \in Managers : \A x \in out'[m] :
       \E y \in out[m] : /\ y.id = x.id /\ y.to = x.to
                         /\ x.phase \in Typed => y.phase \in Typed
Drops == \E S \in SUBSET Queued(inbox) : Moves(inbox, inbox', S, "dropped")

ArrivalStep ==
  /\ nextId \in Ids /\ nextId \notin DOMAIN inbox /\ nextId' = nextId + 1
  /\ UNCHANGED <<row, view, out, pasted>>
  /\ \E S \in SUBSET Unclaimed(inbox) : Joins(inbox, nextId, inbox', S)
AgeStep == Calm /\ \E i \in Queued(inbox) :
           inbox[i].claim # "none" /\ Moves(inbox, inbox', {i}, "claimed")
Settles == \E m \in Managers : \E x \in out[m] :
             Settle(m, x) /\ x.phase = "entered"
Kinds ==
  \/ ArrivalStep \/ (Calm /\ Drops) \/ AgeStep
  \/ Settles
  \/ \E old, new \in Sessions : ReplaceSession(old, new)
  \/ \E m \in Managers : \/ BeginPass(m)
                         \/ \E s \in Sessions : ClaimHead(m, s)
                         \/ \E x \in out[m] : Paste(m, x) /\ pane[x.to].up

LEMMA SameDrops ==
  ASSUME SoundTable(inbox), inbox' = inbox
  PROVE  Drops
<1>1. Moves(inbox, inbox, {}, "dropped")
  BY DEF Moves, Tame
<1> QED
  BY <1>1 DEF Drops

LEMMA DroppedDrops ==
  ASSUME SoundTable(inbox), NEW ids \in SUBSET Queued(inbox), NEW why \in BOOLEAN,
         inbox' = DropAll(inbox, ids, why)
  PROVE  Drops
BY DropMoves DEF Drops

LEMMA OneDrops ==
  ASSUME SoundTable(inbox), NEW i, inbox' = MarkDropped(inbox, i)
  PROVE  Drops
<1>1. {i} \cap Queued(inbox) \in SUBSET Queued(inbox)
  OBVIOUS
<1> QED
  BY <1>1, DroppedDrops DEF MarkDropped

LEMMA ArrivalKind ==
  ASSUME TypeOK, SoundTable(inbox), NEW d \in Mail, Send(d) \/ Relay(d) \/ TellSender(d)
  PROVE  ArrivalStep
<1>1. nextId \in Ids /\ nextId \notin DOMAIN inbox /\ Arrives(d) /\ nextId' = nextId + 1
  BY Arrivals
<1>2. UNCHANGED <<row, view, out, pasted>>
  BY <1>1 DEF Arrives, managerVars, history
<1>3. d \in Drafts /\ Superseded(inbox, d) \in SUBSET Unclaimed(inbox)
  BY Constants DEF Superseded
<1>4. CASE Send(d)
  <2>1. Joins(inbox, nextId, inbox', Superseded(inbox, d))
    BY <1>1, <1>3, <1>4, SendJoins DEF Send
  <2> QED
    BY <1>1, <1>2, <1>3, <2>1 DEF ArrivalStep
<1>5. CASE Relay(d)
  <2>1. Joins(inbox, nextId, inbox', Superseded(inbox, d))
    BY <1>1, <1>3, <1>5, EnqueueJoins DEF Relay
  <2> QED
    BY <1>1, <1>2, <1>3, <2>1 DEF ArrivalStep
<1>6. CASE TellSender(d)
  <2>1. Joins(inbox, nextId, inbox', {})
    BY <1>1, <1>3, <1>6, NoticeJoins DEF TellSender
  <2> QED
    BY <1>1, <1>2, <2>1 DEF ArrivalStep
<1> QED
  BY <1>4, <1>5, <1>6

LEMMA CallersKinds ==
  ASSUME TypeOK, SoundTable(inbox),
         \/ \E d \in Mail : WithdrawMail(d)
         \/ \E i \in Ids : WithdrawUnattested(i)
         \/ \E s \in Sessions : \/ PaneEnds(s) \/ MarkDead(s) \/ ResolveEndedRecipient(s)
                                \/ Relaunch(s)
  PROVE  Calm /\ Drops
<1>1. ASSUME NEW d \in Mail, WithdrawMail(d) PROVE Calm /\ Drops
  <2>1. Withdrawable(inbox, d.to, d.from, d.subj) \in SUBSET Queued(inbox)
    BY DEF Withdrawable, Unclaimed
  <2>2. Drops
    BY <1>1, <2>1, DroppedDrops DEF WithdrawMail, Withdraw
  <2> QED
    BY <1>1, <2>2 DEF WithdrawMail, Calm, managerVars, history
<1>2. ASSUME NEW i \in Ids, WithdrawUnattested(i) PROVE Calm /\ Drops
  BY <1>2, OneDrops DEF WithdrawUnattested, Calm, managerVars, history
<1>3. ASSUME NEW s \in Sessions, ResolveEndedRecipient(s) PROVE Calm /\ Drops
  <2>1. Undropped(inbox, s) \in SUBSET Queued(inbox)
    BY DEF Undropped, QueuedFor
  <2>2. Drops
    BY <1>3, <2>1, DroppedDrops DEF ResolveEndedRecipient, DropEnded
  <2> QED
    BY <1>3, <2>2 DEF ResolveEndedRecipient, Calm, managerVars, history
<1>4. ASSUME NEW s \in Sessions, PaneEnds(s) \/ MarkDead(s) \/ Relaunch(s)
      PROVE  Calm /\ Drops
  BY <1>4, SameDrops DEF PaneEnds, MarkDead, Relaunch, Calm, managerVars, history
<1> QED
  BY <1>1, <1>2, <1>3, <1>4

LEMMA PanesKinds ==
  ASSUME TypeOK, SoundTable(inbox),
         \/ \E s \in Sessions : \/ AgentWorks(s) \/ AgentRests(s) \/ AgentAsks(s)
                                \/ DialogAnswered(s) \/ OperatorSubmits(s)
         \/ \E i \in Ids : ClaimAges(i)
  PROVE  (Calm /\ Drops) \/ AgeStep
<1>1. ASSUME NEW s \in Sessions, NEW from, NEW to, AgentMoves(s, from, to)
      PROVE  Calm /\ Drops
  BY <1>1, SameDrops DEF AgentMoves, Calm, managerVars, history
<1>2. ASSUME NEW s \in Sessions, OperatorSubmits(s) PROVE Calm /\ Drops
  BY <1>2, SameDrops DEF OperatorSubmits, Calm, managerVars, history
<1>3. ASSUME NEW i \in Ids, ClaimAges(i) PROVE AgeStep
  <2>1. i \in Queued(inbox) /\ inbox[i].claim # "none"
    BY <1>3 DEF ClaimAges
  <2>2. Moves(inbox, inbox', {i}, "claimed")
    BY <1>3, <2>1, ClaimMoves DEF ClaimAges, Claims
  <2>3. Calm
    BY <1>3 DEF ClaimAges, Calm, managerVars, history
  <2> QED
    BY <2>1, <2>2, <2>3 DEF AgeStep
<1> QED
  BY <1>1, <1>2, <1>3 DEF AgentWorks, AgentRests, AgentAsks, DialogAnswered

LEMMA PassKinds ==
  ASSUME TypeOK, SoundTable(inbox), NEW m \in Managers,
         \/ CapturePanes(m)
         \/ \E s \in Sessions : Visit(m, s) /\ ~ClaimHead(m, s)
  PROVE  Calm /\ Drops
<1>1. ASSUME CapturePanes(m) PROVE Calm /\ Drops
  <2>1. ASSUME NEW n \in Managers, NEW s \in Sessions
        PROVE  view'[n][s].id \in {view[n][s].id, 0}
    <3>1. view[n][s] \in View
      BY DEF TypeOK
    <3>2. [view[n][s] EXCEPT !.screen = pane[s].screen, !.draft = pane[s].line].id
            = view[n][s].id
      BY <3>1 DEF View
    <3> QED
      BY <1>1, <3>2, SeenIsView DEF TypeOK, CapturePanes
  <2> QED
    BY <1>1, <2>1, SameDrops DEF CapturePanes, Calm, history
<1>2. ASSUME NEW s \in Sessions, Visited(m, s)
      PROVE  \A n \in Managers, t \in Sessions : view'[n][t].id \in {view[n][t].id, 0}
  BY <1>2, SeenIsView DEF TypeOK, Visited
<1>3. ASSUME NEW s \in Sessions, Wait(m, s) PROVE Calm /\ Drops
  BY <1>2, <1>3, SameDrops DEF Wait, Calm, history
<1>4. ASSUME NEW s \in Sessions, InterruptForMessage(m, s) PROVE Calm /\ Drops
  BY <1>2, <1>4, SameDrops DEF InterruptForMessage, Calm
<1>5. ASSUME NEW s \in Sessions, DropUnconfirmed(m, s) PROVE Calm /\ Drops
  <2>1. Drops
    BY <1>5, OneDrops DEF DropUnconfirmed, RetireUnconfirmed
  <2>2. ASSUME NEW n \in Managers, NEW t \in Sessions
        PROVE  view'[n][t].id \in {view[n][t].id, 0}
    BY <1>5, SeenIsView DEF TypeOK, DropUnconfirmed, IdlePass
  <2> QED
    BY <1>5, <2>1, <2>2 DEF DropUnconfirmed, Calm, history
<1>6. ASSUME NEW s \in Sessions, LoseClaim(m, s) PROVE Calm /\ Drops
  BY <1>2, <1>6, SameDrops DEF LoseClaim, Calm, history
<1> QED
  BY <1>1, <1>3, <1>4, <1>5, <1>6 DEF Visit

\* What is out after a send has changed phase.
LEMMA PhaseSends ==
  ASSUME TypeOK, NEW m \in Managers, NEW x \in out[m],
         NEW p \in {"pasted", "entered", "failed"}, Step(m, x, p)
  PROVE  \A n \in Managers : \A z \in out'[n] :
           z \in out[n] \/ (n = m /\ z.id = x.id /\ z.to = x.to /\ z.phase = p)
<1> DEFINE z0 == [x EXCEPT !.phase = p]
<1>1. z0.id = x.id /\ z0.to = x.to /\ z0.phase = p
  BY DEF TypeOK, Sends
<1>2. \A n \in Managers : out'[n] = IF n = m THEN (out[n] \ {x}) \cup {z0} ELSE out[n]
  BY DEF TypeOK, Step
<1> HIDE DEF z0
<1> QED
  BY <1>1, <1>2

LEMMA SendsKinds ==
  ASSUME TypeOK, SoundTable(inbox), NEW m \in Managers,
         \/ \E x \in out[m] : \/ Paste(m, x) /\ ~pane[x.to].up
                              \/ PressEnter(m, x)
                              \/ Settle(m, x) /\ x.phase = "failed"
         \/ Crash(m) \/ Start(m)
  PROVE  Calm /\ Drops
<1>1. ASSUME NEW x \in out[m], Paste(m, x), ~pane[x.to].up PROVE Calm /\ Drops
  BY <1>1, PhaseSends, SameDrops DEF Paste, Calm, Typed
<1>2. ASSUME NEW x \in out[m], PressEnter(m, x) PROVE Calm /\ Drops
  BY <1>2, PhaseSends, SameDrops DEF PressEnter, Calm, Typed, history
<1>3. ASSUME NEW x \in out[m], Settle(m, x), x.phase = "failed" PROVE Calm /\ Drops
  <2>1. Drops
    BY <1>3, OneDrops DEF Settle, Outcome
  <2>2. \A n \in Managers : out'[n] \subseteq out[n]
    BY <1>3 DEF Settle, TypeOK
  <2> QED
    BY <1>3, <2>1, <2>2 DEF Settle, Calm, history
<1>4. ASSUME Crash(m) PROVE Calm /\ Drops
  <2>1. \A n \in Managers : out'[n] \subseteq out[n]
    BY <1>4 DEF Crash, TypeOK
  <2>2. ASSUME NEW n \in Managers, NEW s \in Sessions
        PROVE  view'[n][s].id \in {view[n][s].id, 0}
    BY <1>4, SeenIsView DEF Crash, TypeOK, IdlePass
  <2> QED
    BY <1>4, <2>1, <2>2, SameDrops DEF Crash, Calm, history
<1>5. ASSUME Start(m) PROVE Calm /\ Drops
  BY <1>5, SameDrops DEF Start, Calm, history
<1> QED
  BY <1>1, <1>2, <1>3, <1>4, <1>5

LEMMA NextKinds == TypeOK /\ SoundTable(inbox) /\ [Next]_vars => Kinds
<1> SUFFICES ASSUME TypeOK, SoundTable(inbox), [Next]_vars PROVE Kinds
  OBVIOUS
<1>1. CASE UNCHANGED vars
  <2>1. Calm
    BY <1>1 DEF vars, managerVars, history, Calm
  <2> QED
    BY <1>1, <2>1, SameDrops DEF vars, Kinds
<1>2. ASSUME NEW m \in Managers, Progress(m) \/ Crash(m) \/ Start(m) PROVE Kinds
  <2>1. ASSUME NEW x \in out[m], Settle(m, x) PROVE x.phase \in {"entered", "failed"}
    BY <2>1 DEF Settle
  <2> QED
    BY <1>2, <2>1, SendsKinds DEF Progress, Kinds, Settles
<1>3. ASSUME NEW m \in Managers,
             BeginPass(m) \/ CapturePanes(m) \/ \E s \in Sessions : Visit(m, s)
      PROVE  Kinds
  BY <1>3, PassKinds DEF Kinds
<1> QED
  BY <1>1, <1>2, <1>3, ArrivalKind, CallersKinds, PanesKinds DEF Next, Kinds

\* What the steps that send and type do to the table.
LEMMA SettlesMoves ==
  ASSUME SoundTable(inbox), NEW m \in Managers, NEW x \in out[m],
         Settle(m, x), x.phase = "entered"
  PROVE  Moves(inbox, inbox', {x.id} \cap Queued(inbox), "delivered")
BY DeliverMoves DEF Settle, Outcome

LEMMA ClaimHeadMoves ==
  ASSUME SoundTable(inbox), NEW m \in Managers, NEW s \in Sessions, ClaimHead(m, s)
  PROVE  /\ view[m][s].id \in Unclaimed(inbox)
         /\ Moves(inbox, inbox', {view[m][s].id}, "claimed")
<1>1. view[m][s].id \in Unclaimed(inbox) /\ view[m][s].id \in Queued(inbox)
  BY DEF ClaimHead, Claimable, Unclaimed
<1> QED
  BY <1>1, ClaimMoves DEF ClaimHead, ClaimMessage, Claims

LEMMA BeginPassTame ==
  ASSUME SoundTable(inbox), NEW m \in Managers, BeginPass(m)
  PROVE  \E old \in SUBSET Settled(inbox) :
           inbox' = Prune(inbox, old) /\ Tame(inbox, inbox')
BY PruneTame DEF BeginPass

LEMMA InitSound == Init => SoundTable(inbox)
BY DEF Init, SoundTable

\* Only an arrival adds a row, and only a replacement gives claims up.
LEMMA KindsTame ==
  ASSUME TypeOK, SoundTable(inbox), Kinds,
         ~ArrivalStep, \A old, new \in Sessions : ~ReplaceSession(old, new)
  PROVE  Tame(inbox, inbox')
<1>1. CASE Calm /\ Drops
  BY <1>1 DEF Drops, Moves
<1>2. CASE AgeStep
  BY <1>2 DEF AgeStep, Moves
<1>3. CASE Settles
  BY <1>3, SettlesMoves DEF Settles, Moves
<1>4. ASSUME NEW m \in Managers, BeginPass(m) PROVE Tame(inbox, inbox')
  BY <1>4, BeginPassTame
<1>5. ASSUME NEW m \in Managers, NEW s \in Sessions, ClaimHead(m, s) PROVE Tame(inbox, inbox')
  BY <1>5, ClaimHeadMoves DEF Moves
<1>6. ASSUME NEW m \in Managers, NEW x \in out[m], Paste(m, x) PROVE Tame(inbox, inbox')
  BY <1>6 DEF Paste, Tame
<1> QED
  BY <1>1, <1>2, <1>3, <1>4, <1>5, <1>6 DEF Kinds

LEMMA ReplaceHands ==
  ASSUME SoundTable(inbox), NEW old \in Sessions, NEW new \in Sessions,
         ReplaceSession(old, new)
  PROVE  /\ SoundTable(inbox') /\ DOMAIN inbox' = DOMAIN inbox
         /\ \A i \in DOMAIN inbox :
              IF i \in Undropped(inbox, old)
                THEN /\ inbox'[i].to = new /\ inbox'[i].claim = "none"
                     /\ Stands(inbox'[i]) = "queued"
                ELSE inbox'[i] = inbox[i]
BY ForwardHands DEF ReplaceSession

LEMMA KindsSound ==
  ASSUME TypeOK, SoundTable(inbox), Kinds
  PROVE  SoundTable(inbox')
<1>1. CASE ArrivalStep
  BY <1>1 DEF ArrivalStep, Joins
<1>2. ASSUME NEW old \in Sessions, NEW new \in Sessions, ReplaceSession(old, new)
      PROVE  SoundTable(inbox')
  BY <1>2, ReplaceHands
<1> QED
  BY <1>1, <1>2, KindsTame DEF Tame

-----------------------------------------------------------------------------
(* Mail retired while it waited. *)

\* A row without a claim, settled or not, was not typed and has no send out.
Waits ==
  \A i \in DOMAIN inbox :
    inbox[i].claim = "none" => pasted[i][inbox[i].to] = 0 /\ NoSend(i, inbox[i].to)
RetiredInv == SoundTable(inbox) /\ Waits

LEMMA InitWaits == Init => Waits
BY DEF Init, Waits

\* A tame step that types nothing, with no send out that was not out before.
LEMMA TameWaits ==
  ASSUME Waits, Tame(inbox, inbox'), pasted' = pasted,
         \A m \in Managers : \A x \in out'[m] :
           \E y \in out[m] : y.id = x.id /\ y.to = x.to
  PROVE  Waits'
<1> SUFFICES ASSUME NEW i \in DOMAIN inbox', inbox'[i].claim = "none",
                    NEW t, t = inbox'[i].to
             PROVE  pasted'[i][t] = 0 /\ NoSend(i, t)'
  BY DEF Waits, NoSend
<1>1. i \in DOMAIN inbox /\ inbox[i].claim = "none" /\ inbox'[i].to = inbox[i].to
  BY DEF Tame
<1>2. pasted[i][inbox[i].to] = 0 /\ NoSend(i, inbox[i].to)
  BY <1>1 DEF Waits
<1> QED
  BY <1>1, <1>2 DEF NoSend

LEMMA ArrivalWaits ==
  ASSUME TypeOK, RetiredInv, DeliveryInv, ArrivalStep
  PROVE  Waits'
<1> SUFFICES ASSUME NEW i \in DOMAIN inbox', inbox'[i].claim = "none",
                    NEW t, t = inbox'[i].to
             PROVE  pasted'[i][t] = 0 /\ NoSend(i, t)'
  BY DEF Waits, NoSend
<1>1. PICK S \in SUBSET Unclaimed(inbox) : Joins(inbox, nextId, inbox', S)
  BY DEF ArrivalStep
<1>2. UNCHANGED <<out, pasted>> /\ nextId \in Ids
  BY DEF ArrivalStep
<1>3. inbox'[i].to \in Sessions
  BY <1>1 DEF Joins, SoundTable, Sound, Row
<1>4. CASE i = nextId
  BY <1>2, <1>3, <1>4 DEF DeliveryInv, NothingEarly, TypeOK, NoSend, Ids
<1>5. CASE i # nextId
  <2>1. i \in DOMAIN inbox /\ inbox[i].claim = "none" /\ inbox'[i].to = inbox[i].to
    BY <1>1, <1>5 DEF Joins
  <2> QED
    BY <1>2, <2>1 DEF RetiredInv, Waits, NoSend
<1> QED
  BY <1>4, <1>5

\* The fresh session has been sent nothing yet.
LEMMA ReplaceWaits ==
  ASSUME TypeOK, RetiredInv, DeliveryInv, NEW old \in Sessions, NEW new \in Sessions,
         ReplaceSession(old, new)
  PROVE  Waits'
<1> SUFFICES ASSUME NEW i \in DOMAIN inbox', inbox'[i].claim = "none",
                    NEW t, t = inbox'[i].to
             PROVE  pasted'[i][t] = 0 /\ NoSend(i, t)'
  BY DEF Waits, NoSend
<1>1. UNCHANGED <<out, pasted>> /\ row[new] = "none"
  BY DEF ReplaceSession, managerVars, history
<1>2. i \in DOMAIN inbox /\ i \in Ids /\ SoundTable(inbox)
  BY ReplaceHands DEF RetiredInv, SoundTable
<1>3. CASE i \in Undropped(inbox, old)
  <2>1. inbox'[i].to = new
    BY <1>2, <1>3, ReplaceHands
  <2> QED
    BY <1>1, <1>2, <2>1 DEF DeliveryInv, NothingEarly, NoSend
<1>4. CASE i \notin Undropped(inbox, old)
  <2>1. inbox'[i] = inbox[i]
    BY <1>2, <1>4, ReplaceHands
  <2> QED
    BY <1>1, <1>2, <2>1 DEF RetiredInv, Waits, NoSend
<1> QED
  BY <1>3, <1>4

\* The one send that starts has a claim in the table.
LEMMA ClaimWaits ==
  ASSUME TypeOK, RetiredInv, NEW m \in Managers, NEW s \in Sessions, ClaimHead(m, s)
  PROVE  Waits'
<1> DEFINE j == view[m][s].id
           new == [id |-> j, to |-> s, phase |-> "claimed", aside |-> view[m][s].draft]
<1>1. j \in DOMAIN inbox /\ Moves(inbox, inbox', {j}, "claimed")
  BY ClaimHeadMoves DEF RetiredInv, Unclaimed, Queued
<1>2. inbox'[j].claim # "none"
  BY <1>1 DEF Moves, Tame, SoundTable, Sound, Stands
<1>3. pasted' = pasted /\ \A n \in Managers : out'[n] \subseteq out[n] \cup {new}
  BY DEF ClaimHead, TypeOK, history
<1>4. new.id = j
  OBVIOUS
<1> HIDE DEF j, new
<1> SUFFICES ASSUME NEW i \in DOMAIN inbox', inbox'[i].claim = "none",
                    NEW t, t = inbox'[i].to
             PROVE  pasted'[i][t] = 0 /\ NoSend(i, t)'
  BY DEF Waits, NoSend
<1>5. /\ i # j /\ i \in DOMAIN inbox /\ inbox[i].claim = "none"
      /\ inbox'[i].to = inbox[i].to
  BY <1>1, <1>2 DEF Moves, Tame
<1>6. pasted[i][inbox[i].to] = 0 /\ NoSend(i, inbox[i].to)
  BY <1>5 DEF RetiredInv, Waits
<1> QED
  BY <1>3, <1>4, <1>5, <1>6 DEF NoSend

\* What is typed has a claim, because its send was out.
LEMMA PasteWaits ==
  ASSUME TypeOK, RetiredInv, NEW m \in Managers, NEW x \in out[m],
         Paste(m, x), pane[x.to].up
  PROVE  Waits'
<1> SUFFICES ASSUME NEW i \in DOMAIN inbox', inbox'[i].claim = "none",
                    NEW t, t = inbox'[i].to
             PROVE  pasted'[i][t] = 0 /\ NoSend(i, t)'
  BY DEF Waits, NoSend
<1>1. inbox' = inbox /\ x.id \in Ids /\ x.to \in Sessions
  BY DEF Paste, TypeOK, Sends
<1>2. /\ pasted[i][inbox[i].to] = 0 /\ NoSend(i, inbox[i].to)
      /\ i \in Ids /\ inbox[i].to \in Sessions
  BY <1>1 DEF RetiredInv, Waits, SoundTable, Sound, Row
<1>3. \A k \in Ids, u \in Sessions :
        pasted'[k][u] = IF k = x.id /\ u = x.to THEN pasted[k][u] + 1 ELSE pasted[k][u]
  BY <1>1 DEF Paste, TypeOK
<1>4. \A n \in Managers : \A z \in out'[n] :
        \E y \in out[n] : y.id = z.id /\ y.to = z.to
  BY StepSends DEF Paste
<1>5. ~(i = x.id /\ inbox[i].to = x.to)
  BY <1>2 DEF NoSend
<1> QED
  BY <1>1, <1>2, <1>3, <1>4, <1>5 DEF NoSend

LEMMA NextRetired ==
  TypeOK /\ RetiredInv /\ DeliveryInv /\ [Next]_vars => RetiredInv'
<1> SUFFICES ASSUME TypeOK, RetiredInv, DeliveryInv, [Next]_vars PROVE RetiredInv'
  OBVIOUS
<1>1. Kinds /\ SoundTable(inbox) /\ SoundTable(inbox')
  BY NextKinds, KindsSound DEF RetiredInv
<1>2. ASSUME ArrivalStep PROVE Waits'
  BY <1>2, ArrivalWaits
<1>3. ASSUME NEW old \in Sessions, NEW new \in Sessions, ReplaceSession(old, new)
      PROVE  Waits'
  BY <1>3, ReplaceWaits
<1>4. ASSUME NEW m \in Managers,
             \/ \E s \in Sessions : ClaimHead(m, s)
             \/ \E x \in out[m] : Paste(m, x) /\ pane[x.to].up
      PROVE  Waits'
  BY <1>4, ClaimWaits, PasteWaits
<1>5. ASSUME Calm \/ Settles \/ \E m \in Managers : BeginPass(m)
      PROVE  /\ pasted' = pasted
             /\ \A m \in Managers : \A x \in out'[m] :
                  \E y \in out[m] : y.id = x.id /\ y.to = x.to
  <2>1. ASSUME NEW m \in Managers, NEW x \in out[m], Settle(m, x)
        PROVE  pasted' = pasted /\ \A n \in Managers : out'[n] \subseteq out[n]
    BY <2>1 DEF Settle, TypeOK, history
  <2>2. ASSUME NEW m \in Managers, BeginPass(m)
        PROVE  pasted' = pasted /\ out' = out
    BY <2>2 DEF BeginPass, history
  <2>3. CASE Calm
    BY <2>3 DEF Calm
  <2>4. CASE Settles
    BY <2>1, <2>4 DEF Settles
  <2> QED
    BY <1>5, <2>2, <2>3, <2>4
<1>6. ASSUME Calm \/ Settles \/ \E m \in Managers : BeginPass(m),
             ~ArrivalStep, \A old, new \in Sessions : ~ReplaceSession(old, new)
      PROVE  Waits'
  <2>1. Tame(inbox, inbox')
    BY <1>1, <1>6, KindsTame
  <2> QED
    BY <1>5, <1>6, <2>1, TameWaits DEF RetiredInv
<1>7. Waits'
  BY <1>1, <1>2, <1>3, <1>4, <1>6 DEF Kinds, AgeStep
<1> QED
  BY <1>1, <1>7 DEF RetiredInv

\* A message superseded or withdrawn while it waited never reaches its recipient's
\* pane, though any number of passes read it as the head before (inbox.go, the
\* claim's compare-and-set against the retirements').
THEOREM RetiredStaysUntyped == Spec => []RetiredNeverTyped
<1>1. Init => TypeOK /\ DeliveryInv /\ RetiredInv
  BY InitTypes, InitInv, InitSound, InitWaits DEF RetiredInv
<1>2. TypeOK /\ DeliveryInv /\ RetiredInv /\ [Next]_vars
        => TypeOK' /\ DeliveryInv' /\ RetiredInv'
  BY NextKeepsTypes, NextKeepsInv, NextRetired
<1>3. RetiredInv => RetiredNeverTyped
  BY DEF RetiredInv, SoundTable, Sound, Waits, RetiredNeverTyped
<1> QED
  BY <1>1, <1>2, <1>3, PTL DEF Spec

-----------------------------------------------------------------------------
(* The order mail is typed in. *)

\* Nothing older than i waits for s.
Oldest(box, s, i) == \A j \in QueuedFor(box, s) : j >= i

\* What a pass read as a session's head was its oldest message and still is, however
\* long ago it was read, and so is what is out to it.
Ordered ==
  /\ \A m \in Managers, s \in Sessions :
       view[m][s].id # 0 => Oldest(inbox, s, view[m][s].id)
  /\ \A m \in Managers : \A x \in out[m] : Oldest(inbox, x.to, x.id)

LEMMA InitOrdered == Init => Ordered
BY SeenIsView DEF Init, Ordered, IdlePass

\* A queue only shrinks, but for what arrives and what is handed on.
LEMMA MovesQueues ==
  ASSUME SoundTable(inbox), NEW new, NEW ids, NEW p, Moves(inbox, new, ids, p),
         p \in {"queued", "claimed"} => ids \subseteq Queued(inbox),
         NEW s
  PROVE  QueuedFor(new, s) \subseteq QueuedFor(inbox, s)
<1> SUFFICES ASSUME NEW j \in QueuedFor(new, s) PROVE j \in QueuedFor(inbox, s)
  OBVIOUS
<1>1. j \in DOMAIN inbox /\ Sound(new[j]) /\ Sound(inbox[j]) /\ new[j].to = inbox[j].to
  BY DEF QueuedFor, Queued, Moves, Tame, SoundTable
<1>2. ~new[j].delivered /\ new[j].to = s
  BY DEF QueuedFor, Queued
<1>3. Stands(new[j]) \in {"queued", "claimed"}
  BY <1>1, <1>2, StandsFacts
<1>4. j \in ids \/ Stands(inbox[j]) = Stands(new[j])
  BY <1>1, <1>2 DEF Moves, QueuedFor, Queued
<1>5. CASE j \in ids
  <2>1. Stands(new[j]) = p
    BY <1>5 DEF Moves, QueuedFor, Queued
  <2> QED
    BY <1>1, <1>2, <1>3, <1>5, <2>1 DEF QueuedFor, Queued
<1>6. CASE Stands(inbox[j]) = Stands(new[j])
  BY <1>1, <1>2, <1>3, <1>6, StandsFacts DEF QueuedFor, Queued
<1> QED
  BY <1>4, <1>5, <1>6

LEMMA KindsQueues ==
  ASSUME TypeOK, SoundTable(inbox), Kinds,
         ~ArrivalStep, \A old, new \in Sessions : ~ReplaceSession(old, new),
         NEW s
  PROVE  QueuedFor(inbox', s) \subseteq QueuedFor(inbox, s)
<1>1. CASE Calm /\ Drops
  BY <1>1, MovesQueues DEF Drops
<1>2. CASE AgeStep
  BY <1>2, MovesQueues DEF AgeStep
<1>3. CASE Settles
  BY <1>3, SettlesMoves, MovesQueues DEF Settles
<1>4. ASSUME NEW m \in Managers, BeginPass(m)
      PROVE  QueuedFor(inbox', s) \subseteq QueuedFor(inbox, s)
  BY <1>4 DEF BeginPass, Prune, QueuedFor, Queued
<1>5. ASSUME NEW m \in Managers, NEW t \in Sessions, ClaimHead(m, t)
      PROVE  QueuedFor(inbox', s) \subseteq QueuedFor(inbox, s)
  <2>1. /\ {view[m][t].id} \subseteq Queued(inbox)
        /\ Moves(inbox, inbox', {view[m][t].id}, "claimed")
    BY <1>5, ClaimHeadMoves DEF Unclaimed
  <2> QED
    BY <2>1, MovesQueues
<1>6. ASSUME NEW m \in Managers, NEW x \in out[m], Paste(m, x)
      PROVE  QueuedFor(inbox', s) \subseteq QueuedFor(inbox, s)
  BY <1>6 DEF Paste
<1> QED
  BY <1>1, <1>2, <1>3, <1>4, <1>5, <1>6 DEF Kinds

\* What a step that adds nothing to a queue reads or sends is what was, or the head.
LEMMA KindsHeads ==
  ASSUME TypeOK, SoundTable(inbox), Ordered, Kinds,
         ~ArrivalStep, \A old, new \in Sessions : ~ReplaceSession(old, new)
  PROVE  /\ \A m \in Managers, s \in Sessions :
              view'[m][s].id # 0 => Oldest(inbox, s, view'[m][s].id)
         /\ \A m \in Managers : \A x \in out'[m] : Oldest(inbox, x.to, x.id)
<1> DEFINE Goal == /\ \A m \in Managers, s \in Sessions :
                        view'[m][s].id # 0 => Oldest(inbox, s, view'[m][s].id)
                   /\ \A m \in Managers : \A x \in out'[m] : Oldest(inbox, x.to, x.id)
<1>1. ASSUME Calm PROVE Goal
  BY <1>1 DEF Calm, Ordered
<1>2. ASSUME Settles PROVE Goal
  <2>1. view' = view /\ \A m \in Managers : out'[m] \subseteq out[m]
    BY <1>2 DEF Settles, Settle, TypeOK
  <2> QED
    BY <2>1 DEF Ordered
<1>3. ASSUME NEW m \in Managers, BeginPass(m) PROVE Goal
  <2>1. out' = out
    BY <1>3 DEF BeginPass
  <2>2. ASSUME NEW s \in Sessions, HeadOf(s).id # 0 PROVE Oldest(inbox, s, HeadOf(s).id)
    <3>1. HasHead(s) /\ HeadOf(s).id = Head(s)
      BY <2>2, SeenIsView DEF HeadOf
    <3>2. IsHead(inbox, s, Head(s))
      BY <3>1 DEF HasHead, Head
    <3>3. Head(s) \in Ids /\ \A j \in QueuedFor(inbox, s) : j \in Ids
      BY <3>1 DEF HasHead, Head, QueuedFor, Queued, SoundTable
    <3> QED
      BY <3>1, <3>2, <3>3 DEF IsHead, Oldest, Ids
  <2>3. \A n \in Managers, s \in Sessions :
          view'[n][s] = view[n][s] \/ view'[n][s] = HeadOf(s)
    BY <1>3 DEF BeginPass, TypeOK
  <2>4. \A n \in Managers, s \in Sessions :
          view'[n][s].id # 0 => Oldest(inbox, s, view'[n][s].id)
    BY <2>2, <2>3 DEF Ordered
  <2> QED
    BY <2>1, <2>4 DEF Ordered
<1>4. ASSUME NEW m \in Managers, NEW s \in Sessions, ClaimHead(m, s) PROVE Goal
  <2> DEFINE x0 == [id |-> view[m][s].id, to |-> s, phase |-> "claimed",
                    aside |-> view[m][s].draft]
  <2>1. view[m][s].id # 0
    BY <1>4 DEF ClaimHead, Visiting
  <2>2. \A n \in Managers : out'[n] \subseteq out[n] \cup {x0}
    BY <1>4 DEF ClaimHead, TypeOK
  <2>3. x0.id = view[m][s].id /\ x0.to = s
    OBVIOUS
  <2> HIDE DEF x0
  <2>4. \A n \in Managers : \A x \in out'[n] : Oldest(inbox, x.to, x.id)
    BY <2>1, <2>2, <2>3 DEF Ordered
  <2>5. \A n \in Managers, t \in Sessions :
          view'[n][t].id = view[n][t].id \/ view'[n][t].id = 0
    BY <1>4, SeenIsView DEF ClaimHead, Visited, TypeOK
  <2> QED
    BY <2>4, <2>5 DEF Ordered
<1>5. ASSUME NEW m \in Managers, NEW x \in out[m], Paste(m, x), pane[x.to].up PROVE Goal
  <2>1. view' = view
    BY <1>5 DEF Paste
  <2>2. \A n \in Managers : \A z \in out'[n] :
          \E y \in out[n] : y.id = z.id /\ y.to = z.to
    BY <1>5, StepSends DEF Paste
  <2> QED
    BY <2>1, <2>2 DEF Ordered
<1> QED
  BY <1>1, <1>2, <1>3, <1>4, <1>5 DEF Kinds, AgeStep

\* A message that arrives is younger than what was read or is out.
LEMMA ArrivalOrdered ==
  ASSUME TypeOK, DeliveryInv, SoundTable(inbox), Ordered, ArrivalStep
  PROVE  Ordered'
<1>1. PICK S \in SUBSET Unclaimed(inbox) : Joins(inbox, nextId, inbox', S)
  BY DEF ArrivalStep
<1>2. UNCHANGED <<view, out>> /\ nextId \in Ids /\ \A i \in Ids : i \in Nat
  BY DEF ArrivalStep, Ids
<1>3. ASSUME NEW s, NEW j \in QueuedFor(inbox', s), j # nextId
      PROVE  j \in QueuedFor(inbox, s)
  <2>1. /\ j \in DOMAIN inbox /\ Sound(inbox[j]) /\ Sound(inbox'[j])
        /\ inbox'[j].to = inbox[j].to
        /\ Stands(inbox'[j]) \in {"superseded", Stands(inbox[j])}
    BY <1>1, <1>3 DEF Joins, SoundTable, QueuedFor, Queued
  <2>2. Stands(inbox'[j]) \in {"queued", "claimed"}
    BY <2>1, StandsFacts DEF QueuedFor, Queued
  <2>3. ~inbox[j].delivered
    BY <2>1, <2>2, StandsFacts
  <2> QED
    BY <2>1, <2>3 DEF QueuedFor, Queued
<1>4. ASSUME NEW s, NEW i \in Nat, i < nextId, Oldest(inbox, s, i)
      PROVE  Oldest(inbox', s, i)
  BY <1>2, <1>3, <1>4 DEF Oldest
<1>5. ASSUME NEW m \in Managers, NEW s \in Sessions, view[m][s].id # 0
      PROVE  Oldest(inbox', s, view[m][s].id)
  <2>1. view[m][s].id \in Nat /\ view[m][s].id < nextId
    BY Constants DEF TypeOK, View, DeliveryInv, NothingEarly
  <2> QED
    BY <1>4, <1>5, <2>1 DEF Ordered
<1>6. ASSUME NEW m \in Managers, NEW x \in out[m] PROVE Oldest(inbox', x.to, x.id)
  <2>1. x.id \in Ids /\ x.to \in Sessions
    BY DEF TypeOK, Sends
  <2>2. ~(x.id >= nextId)
    BY <2>1 DEF DeliveryInv, NothingEarly, NoSend
  <2>3. x.id \in Nat /\ x.id < nextId
    BY <1>2, <2>1, <2>2
  <2> QED
    BY <1>4, <2>3 DEF Ordered
<1> QED
  BY <1>2, <1>5, <1>6 DEF Ordered

\* A queue is handed to a session nothing was read for and nothing is out to.
LEMMA ReplaceOrdered ==
  ASSUME TypeOK, DeliveryInv, SoundTable(inbox), Ordered,
         NEW old \in Sessions, NEW new \in Sessions, ReplaceSession(old, new)
  PROVE  Ordered'
<1>1. UNCHANGED <<view, out>> /\ row[new] = "none"
  BY DEF ReplaceSession, managerVars
<1>2. ASSUME NEW s, s # new PROVE QueuedFor(inbox', s) \subseteq QueuedFor(inbox, s)
  BY <1>2, ReplaceHands DEF QueuedFor, Queued
<1>3. ASSUME NEW m \in Managers, NEW s \in Sessions, view[m][s].id # 0
      PROVE  Oldest(inbox', s, view[m][s].id)
  <2>1. s # new
    BY <1>1, <1>3 DEF DeliveryInv, NothingEarly
  <2> QED
    BY <1>2, <1>3, <2>1 DEF Ordered, Oldest
<1>4. ASSUME NEW m \in Managers, NEW x \in out[m] PROVE Oldest(inbox', x.to, x.id)
  <2>1. x.id \in Ids
    BY DEF TypeOK, Sends
  <2>2. x.to # new
    BY <1>1, <2>1 DEF DeliveryInv, NothingEarly, NoSend
  <2> QED
    BY <1>2, <2>2 DEF Ordered, Oldest
<1> QED
  BY <1>1, <1>3, <1>4 DEF Ordered

LEMMA NextOrdered ==
  TypeOK /\ DeliveryInv /\ SoundTable(inbox) /\ Ordered /\ [Next]_vars
    => SoundTable(inbox') /\ Ordered'
<1> SUFFICES ASSUME TypeOK, DeliveryInv, SoundTable(inbox), Ordered, [Next]_vars
             PROVE  SoundTable(inbox') /\ Ordered'
  OBVIOUS
<1>1. Kinds /\ SoundTable(inbox')
  BY NextKinds, KindsSound
<1>2. ASSUME ~ArrivalStep, \A old, new \in Sessions : ~ReplaceSession(old, new)
      PROVE  Ordered'
  <2>1. \A s : QueuedFor(inbox', s) \subseteq QueuedFor(inbox, s)
    BY <1>1, <1>2, KindsQueues
  <2>2. /\ \A m \in Managers, s \in Sessions :
              view'[m][s].id # 0 => Oldest(inbox, s, view'[m][s].id)
        /\ \A m \in Managers : \A x \in out'[m] : Oldest(inbox, x.to, x.id)
    BY <1>1, <1>2, KindsHeads
  <2> QED
    BY <2>1, <2>2 DEF Ordered, Oldest
<1> QED
  BY <1>1, <1>2, ArrivalOrdered, ReplaceOrdered

\* Only a paste types.
LEMMA KindsTypes ==
  ASSUME TypeOK, Kinds, NEW i \in Ids, NEW s \in Sessions, pasted'[i][s] > pasted[i][s]
  PROVE  \E m \in Managers : \E x \in out[m] : x.id = i /\ x.to = s
<1>1. pasted[i][s] \in Nat
  BY DEF TypeOK
<1>2. pasted' # pasted
  BY <1>1
<1>3. \E m \in Managers : \E x \in out[m] : Paste(m, x) /\ pane[x.to].up
  BY <1>2 DEF Kinds, ArrivalStep, Calm, AgeStep, Settles, Settle, ReplaceSession,
              BeginPass, ClaimHead, history
<1>4. PICK m \in Managers : \E x \in out[m] : Paste(m, x) /\ pane[x.to].up
  BY <1>3
<1>5. PICK x \in out[m] : Paste(m, x) /\ pane[x.to].up
  BY <1>4
<1>6. x.id = i /\ x.to = s
  BY <1>1, <1>5 DEF Paste, TypeOK
<1> QED
  BY <1>6

\* Mail is typed in the order it was queued (store/inbox.go, the heads of the queues;
\* ui/poller.go, deliverInbox): nothing goes into a pane over an older message that
\* still waits for the session, however stale the pass that read the head, whoever
\* else sends, and with replacements or without.
THEOREM TypedInOrder == Spec => QueueOrder
<1>1. Init => TypeOK /\ DeliveryInv /\ SoundTable(inbox) /\ Ordered
  BY InitTypes, InitInv, InitSound, InitOrdered
<1>2. TypeOK /\ DeliveryInv /\ SoundTable(inbox) /\ Ordered /\ [Next]_vars
        => TypeOK' /\ DeliveryInv' /\ SoundTable(inbox)' /\ Ordered'
  BY NextKeepsTypes, NextKeepsInv, NextOrdered
<1>3. TypeOK /\ SoundTable(inbox) /\ Ordered /\ [Next]_vars
        => [\A i \in Ids, s \in Sessions :
              pasted'[i][s] > pasted[i][s] =>
                \A j \in QueuedFor(inbox, s) : j >= i]_vars
  <2> SUFFICES ASSUME TypeOK, SoundTable(inbox), Ordered, [Next]_vars,
                      NEW i \in Ids, NEW s \in Sessions, pasted'[i][s] > pasted[i][s]
               PROVE  Oldest(inbox, s, i)
    BY DEF Oldest
  <2>1. Kinds
    BY NextKinds
  <2> QED
    BY <2>1, KindsTypes DEF Ordered
<1> QED
  BY <1>1, <1>2, <1>3, PTL DEF Spec, QueueOrder

-----------------------------------------------------------------------------
(* Where no session is made, every message stays with the session it was for. *)

Peopled == \A s \in Sessions : row[s] # "none"

\* What a pass read of a session's queue, and what is out to it, is that session's;
\* what got past its paste was typed, and so was what is recorded as delivered.
AtHome ==
  /\ \A m \in Managers, s \in Sessions :
       view[m][s].id \in DOMAIN inbox => inbox[view[m][s].id].to = s
  /\ \A m \in Managers : \A x \in out[m] :
       /\ x.id \in DOMAIN inbox => inbox[x.id].to = x.to
       /\ x.phase \in Typed => pasted[x.id][x.to] >= 1
  /\ \A i \in DOMAIN inbox :
       Stands(inbox[i]) = "delivered" => pasted[i][inbox[i].to] >= 1
HomeInv == SoundTable(inbox) /\ Peopled /\ AtHome

LEMMA InitHome == InitialSessions = NSessions /\ Init => Peopled /\ AtHome
BY Constants, SeenIsView DEF Init, Peopled, AtHome, Sessions

LEMMA StaysPeopled ==
  ASSUME TypeOK, Peopled, [Next]_vars
  PROVE  Peopled' /\ \A old, new \in Sessions : ~ReplaceSession(old, new)
<1>1. \A old, new \in Sessions : ~ReplaceSession(old, new)
  BY DEF Peopled, ReplaceSession
<1>2. ASSUME NEW s \in Sessions, NEW v \in {"live", "dead"}, row' = [row EXCEPT ![s] = v]
      PROVE  Peopled'
  BY <1>2 DEF Peopled, TypeOK
<1>3. ASSUME row' = row PROVE Peopled'
  BY <1>3 DEF Peopled
<1>4. ASSUME UNCHANGED vars PROVE Peopled'
  BY <1>3, <1>4 DEF vars
<1>5. ASSUME NEW d \in Mail, Send(d) \/ Relay(d) \/ TellSender(d) \/ WithdrawMail(d)
      PROVE  Peopled'
  BY <1>3, <1>5 DEF Send, Relay, TellSender, Arrives, WithdrawMail
<1>6. ASSUME NEW i \in Ids, WithdrawUnattested(i) \/ ClaimAges(i) PROVE Peopled'
  BY <1>3, <1>6 DEF WithdrawUnattested, ClaimAges
<1>7. ASSUME NEW s \in Sessions,
             \/ PaneEnds(s) \/ MarkDead(s) \/ ResolveEndedRecipient(s) \/ Relaunch(s)
             \/ AgentWorks(s) \/ AgentRests(s) \/ AgentAsks(s) \/ DialogAnswered(s)
             \/ OperatorSubmits(s)
      PROVE  Peopled'
  <2>1. CASE MarkDead(s) \/ Relaunch(s)
    BY <1>2, <2>1 DEF MarkDead, Relaunch
  <2>2. CASE ~(MarkDead(s) \/ Relaunch(s))
    BY <1>3, <1>7, <2>2 DEF PaneEnds, ResolveEndedRecipient, AgentWorks, AgentRests,
                            AgentAsks, DialogAnswered, AgentMoves, OperatorSubmits
  <2> QED
    BY <2>1, <2>2
<1>8. ASSUME NEW m \in Managers,
             \/ BeginPass(m) \/ CapturePanes(m) \/ Crash(m) \/ Start(m)
             \/ \E s \in Sessions : Visit(m, s)
      PROVE  Peopled'
  BY <1>3, <1>8 DEF BeginPass, CapturePanes, Crash, Start, Visit, Wait,
                    InterruptForMessage, DropUnconfirmed, ClaimHead, LoseClaim
<1>9. ASSUME NEW m \in Managers, Progress(m) PROVE Peopled'
  <2>1. ASSUME NEW x \in out[m], Paste(m, x) \/ PressEnter(m, x) PROVE Peopled'
    BY <1>3, <2>1 DEF Paste, PressEnter
  <2>2. ASSUME NEW x \in out[m], Settle(m, x) PROVE Peopled'
    <3>1. x.to \in Sessions
      BY DEF TypeOK, Sends
    <3> QED
      BY <1>2, <1>3, <2>2, <3>1 DEF Settle
  <2> QED
    BY <1>9, <2>1, <2>2 DEF Progress
<1> QED
  BY <1>1, <1>4, <1>5, <1>6, <1>7, <1>8, <1>9 DEF Next

\* A tame step that types nothing and delivers nothing that was not typed.
LEMMA TameHome ==
  ASSUME AtHome, Tame(inbox, inbox'), pasted' = pasted,
         \A m \in Managers, s \in Sessions :
           view'[m][s].id \in DOMAIN inbox =>
             view'[m][s].id = view[m][s].id \/ inbox[view'[m][s].id].to = s,
         \A m \in Managers : \A x \in out'[m] :
           \/ x.id \in DOMAIN inbox /\ inbox[x.id].to = x.to /\ x.phase \notin Typed
           \/ \E y \in out[m] : /\ y.id = x.id /\ y.to = x.to
                                /\ x.phase \in Typed => y.phase \in Typed,
         \A i \in DOMAIN inbox' :
           Stands(inbox'[i]) = "delivered" =>
             Stands(inbox[i]) = "delivered" \/ pasted[i][inbox[i].to] >= 1
  PROVE  AtHome'
<1>1. DOMAIN inbox' \subseteq DOMAIN inbox /\ \A i \in DOMAIN inbox' : inbox'[i].to = inbox[i].to
  BY DEF Tame
<1>2. ASSUME NEW m \in Managers, NEW s \in Sessions, view'[m][s].id \in DOMAIN inbox'
      PROVE  inbox'[view'[m][s].id].to = s
  BY <1>1, <1>2 DEF AtHome
<1>3. ASSUME NEW m \in Managers, NEW x \in out'[m]
      PROVE  /\ x.id \in DOMAIN inbox' => inbox'[x.id].to = x.to
             /\ x.phase \in Typed => pasted'[x.id][x.to] >= 1
  BY <1>1, <1>3 DEF AtHome
<1>4. ASSUME NEW i \in DOMAIN inbox', Stands(inbox'[i]) = "delivered"
      PROVE  pasted'[i][inbox'[i].to] >= 1
  BY <1>1, <1>4 DEF AtHome
<1> QED
  BY <1>2, <1>3, <1>4 DEF AtHome

LEMMA CalmHome ==
  ASSUME TypeOK, HomeInv, Calm, Tame(inbox, inbox'),
         \A i \in DOMAIN inbox' :
           Stands(inbox'[i]) = "delivered" => Stands(inbox[i]) = "delivered"
  PROVE  AtHome'
<1>1. 0 \notin DOMAIN inbox
  BY DEF HomeInv, SoundTable, Ids
<1>2. \A m \in Managers, s \in Sessions :
        view'[m][s].id \in DOMAIN inbox => view'[m][s].id = view[m][s].id
  BY <1>1 DEF Calm
<1> QED
  BY <1>2, TameHome DEF HomeInv, Calm

LEMMA SettlesHome ==
  ASSUME TypeOK, HomeInv, NEW m \in Managers, NEW x \in out[m],
         Settle(m, x), x.phase = "entered"
  PROVE  AtHome'
<1>1. Moves(inbox, inbox', {x.id} \cap Queued(inbox), "delivered")
  BY SettlesMoves DEF HomeInv
<1>2. /\ pasted' = pasted /\ view' = view
      /\ \A n \in Managers : out'[n] \subseteq out[n]
  BY DEF Settle, TypeOK, history
<1>3. x.id \in DOMAIN inbox => pasted[x.id][inbox[x.id].to] >= 1
  BY DEF HomeInv, AtHome, Typed
<1>4. \A i \in DOMAIN inbox' :
        Stands(inbox'[i]) = "delivered" =>
          Stands(inbox[i]) = "delivered" \/ pasted[i][inbox[i].to] >= 1
  BY <1>1, <1>3 DEF Moves, Queued
<1> QED
  BY <1>1, <1>2, <1>4, TameHome DEF HomeInv, Moves

LEMMA BeginPassHome ==
  ASSUME TypeOK, HomeInv, NEW m \in Managers, BeginPass(m)
  PROVE  AtHome'
<1>1. PICK old \in SUBSET Settled(inbox) : inbox' = Prune(inbox, old) /\ Tame(inbox, inbox')
  BY BeginPassTame DEF HomeInv
<1>2. \A i \in DOMAIN inbox' : inbox'[i] = inbox[i]
  BY <1>1 DEF Prune
<1>3. pasted' = pasted /\ out' = out
  BY DEF BeginPass, history
<1>4. ASSUME NEW s \in Sessions, HeadOf(s).id \in DOMAIN inbox
      PROVE  inbox[HeadOf(s).id].to = s
  <2>1. HeadOf(s).id # 0
    BY <1>4 DEF HomeInv, SoundTable, Ids
  <2>2. HasHead(s) /\ HeadOf(s).id = Head(s)
    BY <2>1, SeenIsView DEF HeadOf
  <2> QED
    BY <2>2 DEF HasHead, Head, IsHead, QueuedFor
<1>5. ASSUME NEW n \in Managers, NEW s \in Sessions, view'[n][s].id \in DOMAIN inbox
      PROVE  view'[n][s].id = view[n][s].id \/ inbox[view'[n][s].id].to = s
  <2>1. view'[n][s] = view[n][s] \/ view'[n][s] = HeadOf(s)
    BY DEF BeginPass, TypeOK
  <2> QED
    BY <1>4, <1>5, <2>1
<1> QED
  BY <1>1, <1>2, <1>3, <1>5, TameHome DEF HomeInv

LEMMA ClaimHome ==
  ASSUME TypeOK, HomeInv, NEW m \in Managers, NEW s \in Sessions, ClaimHead(m, s)
  PROVE  AtHome'
<1> DEFINE j == view[m][s].id
           new == [id |-> j, to |-> s, phase |-> "claimed", aside |-> view[m][s].draft]
<1>1. j \in DOMAIN inbox /\ Moves(inbox, inbox', {j}, "claimed")
  BY ClaimHeadMoves DEF HomeInv, Unclaimed, Queued
<1>2. pasted' = pasted /\ \A n \in Managers : out'[n] \subseteq out[n] \cup {new}
  BY DEF ClaimHead, TypeOK, history
<1>3. 0 \notin DOMAIN inbox
  BY DEF HomeInv, SoundTable, Ids
<1>4. \A n \in Managers, t \in Sessions :
        view'[n][t].id \in DOMAIN inbox => view'[n][t].id = view[n][t].id
  BY <1>3, SeenIsView DEF ClaimHead, Visited, TypeOK
<1>5. new.id = j /\ new.to = s /\ new.phase \notin Typed
  BY DEF Typed
<1>6. inbox[j].to = s
  BY <1>1 DEF HomeInv, AtHome
<1> HIDE DEF j, new
<1>7. \A n \in Managers : \A x \in out'[n] :
        \/ x.id \in DOMAIN inbox /\ inbox[x.id].to = x.to /\ x.phase \notin Typed
        \/ \E y \in out[n] : y.id = x.id /\ y.to = x.to /\ y.phase = x.phase
  BY <1>1, <1>2, <1>5, <1>6
<1> QED
  BY <1>1, <1>2, <1>4, <1>7, TameHome DEF HomeInv, Moves

LEMMA PasteHome ==
  ASSUME TypeOK, HomeInv, NEW m \in Managers, NEW x \in out[m],
         Paste(m, x), pane[x.to].up
  PROVE  AtHome'
<1>1. inbox' = inbox /\ view' = view /\ x \in Sends /\ x.id \in Ids /\ x.to \in Sessions
  BY DEF Paste, TypeOK, Sends
<1>2. \A i \in Ids, t \in Sessions :
        /\ pasted[i][t] \in Nat
        /\ pasted'[i][t] = IF i = x.id /\ t = x.to THEN pasted[i][t] + 1 ELSE pasted[i][t]
  BY <1>1 DEF Paste, TypeOK
<1>3. \A n \in Managers : \A z \in out'[n] :
        z \in out[n] \/ (n = m /\ z.id = x.id /\ z.to = x.to /\ z.phase = "pasted")
  BY PhaseSends DEF Paste
<1>4. \A n \in Managers : \A z \in out[n] : z.id \in Ids /\ z.to \in Sessions
  BY DEF TypeOK, Sends
<1>5. \A i \in DOMAIN inbox : i \in Ids /\ inbox[i].to \in Sessions
  BY DEF HomeInv, SoundTable, Sound, Row
<1>6. ASSUME NEW n \in Managers, NEW z \in out'[n]
      PROVE  /\ z.id \in DOMAIN inbox => inbox[z.id].to = z.to
             /\ z.phase \in Typed => pasted'[z.id][z.to] >= 1
  <2>1. CASE z \in out[n]
    BY <1>2, <1>4, <2>1 DEF HomeInv, AtHome
  <2>2. CASE z.id = x.id /\ z.to = x.to
    <3>1. pasted'[x.id][x.to] >= 1
      BY <1>1, <1>2
    <3> QED
      BY <2>2, <3>1 DEF HomeInv, AtHome
  <2> QED
    BY <1>3, <2>1, <2>2
<1>7. \A i \in DOMAIN inbox :
        Stands(inbox[i]) = "delivered" => pasted'[i][inbox[i].to] >= 1
  BY <1>2, <1>5 DEF HomeInv, AtHome
<1> QED
  BY <1>1, <1>6, <1>7 DEF HomeInv, AtHome

LEMMA ArrivalHome ==
  ASSUME TypeOK, DeliveryInv, HomeInv, ArrivalStep
  PROVE  AtHome'
<1>1. PICK S \in SUBSET Unclaimed(inbox) : Joins(inbox, nextId, inbox', S)
  BY DEF ArrivalStep
<1>2. nextId \in Ids /\ UNCHANGED <<row, view, out, pasted>>
  BY DEF ArrivalStep
<1>3. ASSUME NEW m \in Managers, NEW s \in Sessions, view[m][s].id \in DOMAIN inbox'
      PROVE  inbox'[view[m][s].id].to = s
  <2>1. view[m][s].id # nextId
    BY <1>2 DEF DeliveryInv, NothingEarly, Ids
  <2> QED
    BY <1>1, <1>3, <2>1 DEF Joins, HomeInv, AtHome
<1>4. ASSUME NEW m \in Managers, NEW x \in out[m], x.id \in DOMAIN inbox'
      PROVE  inbox'[x.id].to = x.to
  <2>1. x.to \in Sessions
    BY DEF TypeOK, Sends
  <2>2. x.id # nextId
    BY <1>2, <2>1 DEF DeliveryInv, NothingEarly, NoSend, Ids
  <2> QED
    BY <1>1, <1>4, <2>2 DEF Joins, HomeInv, AtHome
<1>5. ASSUME NEW i \in DOMAIN inbox', Stands(inbox'[i]) = "delivered"
      PROVE  pasted[i][inbox'[i].to] >= 1
  <2>1. i \in DOMAIN inbox /\ inbox'[i].to = inbox[i].to /\ Stands(inbox[i]) = "delivered"
    BY <1>1, <1>5 DEF Joins
  <2> QED
    BY <2>1 DEF HomeInv, AtHome
<1> QED
  BY <1>2, <1>3, <1>4, <1>5 DEF HomeInv, AtHome

LEMMA NextHome ==
  TypeOK /\ DeliveryInv /\ HomeInv /\ [Next]_vars => HomeInv'
<1> SUFFICES ASSUME TypeOK, DeliveryInv, HomeInv, [Next]_vars PROVE HomeInv'
  OBVIOUS
<1>1. Kinds /\ SoundTable(inbox')
  BY NextKinds, KindsSound DEF HomeInv
<1>2. Peopled' /\ \A old, new \in Sessions : ~ReplaceSession(old, new)
  BY StaysPeopled DEF HomeInv
<1>3. ASSUME Calm, Drops PROVE AtHome'
  BY <1>3, CalmHome DEF Drops, Moves
<1>4. ASSUME AgeStep PROVE AtHome'
  BY <1>4, CalmHome DEF AgeStep, Moves
<1>5. ASSUME Settles PROVE AtHome'
  BY <1>5, SettlesHome DEF Settles
<1>6. AtHome'
  BY <1>1, <1>2, <1>3, <1>4, <1>5, ArrivalHome, BeginPassHome, ClaimHome, PasteHome
     DEF Kinds
<1> QED
  BY <1>1, <1>2, <1>6 DEF HomeInv

\* Where no session is replaced, every receipt is for one paste: what the table calls
\* delivered, neither dropped nor superseded, was typed exactly once (poller.go,
\* deliverInbox; asyncsend.go, settle).
THEOREM DeliveredIsPasted == InitialSessions = NSessions /\ Spec => []DeliveredWasPasted
<1>1. InitialSessions = NSessions /\ Init => TypeOK /\ DeliveryInv /\ HomeInv
  BY InitTypes, InitInv, InitSound, InitHome DEF HomeInv
<1>2. TypeOK /\ DeliveryInv /\ HomeInv /\ [Next]_vars
        => TypeOK' /\ DeliveryInv' /\ HomeInv'
  BY NextKeepsTypes, NextKeepsInv, NextHome
<1>3. TypeOK /\ DeliveryInv /\ HomeInv => DeliveredWasPasted
  <2> SUFFICES ASSUME TypeOK, DeliveryInv, HomeInv, NEW i \in DOMAIN inbox,
                      inbox[i].delivered, ~inbox[i].dropped, inbox[i].superseded = 0
               PROVE  pasted[i][inbox[i].to] = 1
    BY DEF DeliveredWasPasted
  <2>1. Stands(inbox[i]) = "delivered"
    BY DEF Stands
  <2>2. i \in Ids /\ inbox[i].to \in Sessions
    BY DEF HomeInv, SoundTable, Sound, Row
  <2>3. pasted[i][inbox[i].to] >= 1 /\ pasted[i][inbox[i].to] <= 1
    BY <2>1 DEF HomeInv, AtHome, DeliveryInv, AtMostOnce
  <2> QED
    BY <2>2, <2>3 DEF TypeOK
<1> QED
  BY <1>1, <1>2, <1>3, PTL DEF Spec

-----------------------------------------------------------------------------
(* A manager knows its own sends by the ids it holds. *)

\* Each send of a manager has its id among sending, and no other has it; and what a pass
\* read of a message that is out is that it was claimed, so no send is begun and no id
\* is given back for it.
OwnSends ==
  \A m \in Managers :
    /\ \A x \in out[m] : x.id \in sending[m]
    /\ \A x, y \in out[m] : x.id = y.id => x = y
    /\ \A s \in Sessions, x \in out[m] :
         view[m][s].id = x.id => view[m][s].claim # "none"

LEMMA InitOwn == Init => OwnSends
BY DEF Init, OwnSends

\* A message that is out of a manager at home is claimed.
LEMMA OutIsClaimed ==
  ASSUME TypeOK, DeliveryInv, HomeInv, NEW m \in Managers, NEW x \in out[m],
         x.id \in DOMAIN inbox
  PROVE  x.id \notin Unclaimed(inbox) /\ inbox[x.id].to = x.to
<1>1. inbox[x.id].to = x.to
  BY DEF HomeInv, AtHome
<1> QED
  BY <1>1 DEF DeliveryInv, ClaimIsToken, NoSend

\* Sends that end or go on, ids that are kept, and reads that are dropped.
LEMMA FewerOwn ==
  ASSUME TypeOK, OwnSends,
         \A m \in Managers, s \in Sessions :
           view'[m][s].id = 0 \/ (/\ view'[m][s].id = view[m][s].id
                                  /\ view'[m][s].claim = view[m][s].claim),
         \A m \in Managers : out'[m] \subseteq out[m],
         \A m \in Managers : \A x \in out'[m] : x.id \in sending[m] => x.id \in sending'[m]
  PROVE  OwnSends'
<1> SUFFICES ASSUME NEW m \in Managers
             PROVE  /\ \A x \in out'[m] : x.id \in sending'[m]
                    /\ \A x, y \in out'[m] : x.id = y.id => x = y
                    /\ \A s \in Sessions, x \in out'[m] :
                         view'[m][s].id = x.id => view'[m][s].claim # "none"
  BY DEF OwnSends
<1>1. \A x \in out'[m] : x \in out[m] /\ x.id # 0
  BY DEF TypeOK, Sends, Ids
<1> QED
  BY <1>1 DEF OwnSends

LEMMA PhaseOwn ==
  ASSUME TypeOK, OwnSends, NEW m \in Managers, NEW x \in out[m],
         NEW p \in {"pasted", "entered", "failed"}, Step(m, x, p),
         UNCHANGED <<view, sending>>
  PROVE  OwnSends'
<1> DEFINE z0 == [x EXCEPT !.phase = p]
<1>1. z0.id = x.id
  BY DEF TypeOK, Sends
<1>2. \A n \in Managers : out'[n] = IF n = m THEN (out[n] \ {x}) \cup {z0} ELSE out[n]
  BY DEF TypeOK, Step
<1> HIDE DEF z0
<1>3. \A y \in out[m] : y.id = x.id => y = x
  BY DEF OwnSends
<1>4. ASSUME NEW n \in Managers
      PROVE  /\ \A y \in out'[n] : y.id \in sending'[n]
             /\ \A y, z \in out'[n] : y.id = z.id => y = z
             /\ \A s \in Sessions, y \in out'[n] :
                  view'[n][s].id = y.id => view'[n][s].claim # "none"
  <2>1. CASE n = m
    <3>1. out'[n] = (out[n] \ {x}) \cup {z0}
      BY <1>2, <2>1
    <3>2. \A y \in out'[n] : y.id \in sending'[n]
      BY <1>1, <2>1, <3>1 DEF OwnSends
    <3>3. \A y, z \in out'[n] : y.id = z.id => y = z
      BY <1>1, <1>3, <2>1, <3>1 DEF OwnSends
    <3>4. \A s \in Sessions, y \in out'[n] :
            view'[n][s].id = y.id => view'[n][s].claim # "none"
      BY <1>1, <2>1, <3>1 DEF OwnSends
    <3> QED
      BY <3>2, <3>3, <3>4
  <2>2. CASE n # m
    BY <1>2, <2>2 DEF OwnSends
  <2> QED
    BY <2>1, <2>2
<1> QED
  BY <1>4 DEF OwnSends

LEMMA ClaimOwn ==
  ASSUME TypeOK, DeliveryInv, HomeInv, OwnSends, NEW m \in Managers, NEW s \in Sessions,
         ClaimHead(m, s)
  PROVE  OwnSends'
<1> DEFINE j == view[m][s].id
           new == [id |-> j, to |-> s, phase |-> "claimed", aside |-> view[m][s].draft]
<1>1. j \in Unclaimed(inbox) /\ j \in DOMAIN inbox /\ j \in Ids
  BY ClaimHeadMoves DEF HomeInv, Unclaimed, Queued, SoundTable
<1>2. /\ \A n \in Managers : out'[n] = IF n = m THEN out[n] \cup {new} ELSE out[n]
      /\ \A n \in Managers : sending'[n] = IF n = m THEN sending[n] \cup {j} ELSE sending[n]
  BY DEF ClaimHead, TypeOK
<1>3. \A n \in Managers, t \in Sessions :
        IF n = m /\ t = s THEN view'[n][t].id = 0 ELSE view'[n][t] = view[n][t]
  BY SeenIsView DEF ClaimHead, Visited, TypeOK
<1>4. new.id = j
  OBVIOUS
<1>5. \A y \in out[m] : y.id # j
  BY <1>1, OutIsClaimed
<1>6. \A t \in Sessions : t # s => view[m][t].id # j
  BY <1>1 DEF HomeInv, AtHome
<1>7. j # 0 /\ \A y \in out[m] : y.id # 0
  BY <1>1 DEF TypeOK, Sends, Ids
<1> HIDE DEF j, new
<1>8. ASSUME NEW n \in Managers
      PROVE  /\ \A x \in out'[n] : x.id \in sending'[n]
             /\ \A x, y \in out'[n] : x.id = y.id => x = y
             /\ \A t \in Sessions, x \in out'[n] :
                  view'[n][t].id = x.id => view'[n][t].claim # "none"
  <2>1. CASE n = m
    <3>1. out'[n] = out[n] \cup {new} /\ sending'[n] = sending[n] \cup {j}
      BY <1>2, <2>1
    <3>2. \A x \in out'[n] : x.id \in sending'[n]
      BY <1>4, <2>1, <3>1 DEF OwnSends
    <3>3. \A x, y \in out'[n] : x.id = y.id => x = y
      BY <1>4, <1>5, <2>1, <3>1 DEF OwnSends
    <3>4. ASSUME NEW t \in Sessions, NEW x \in out'[n], view'[n][t].id = x.id
          PROVE  view'[n][t].claim # "none"
      <4>1. t # s /\ view'[n][t] = view[n][t]
        BY <1>3, <1>4, <1>7, <2>1, <3>1, <3>4
      <4>2. x \in out[m]
        BY <1>4, <1>6, <2>1, <3>1, <3>4, <4>1
      <4> QED
        BY <2>1, <3>4, <4>1, <4>2 DEF OwnSends
    <3> QED
      BY <3>2, <3>3, <3>4
  <2>2. CASE n # m
    BY <1>2, <1>3, <2>2 DEF OwnSends
  <2> QED
    BY <2>1, <2>2
<1> QED
  BY <1>8 DEF OwnSends

LEMMA BeginPassOwn ==
  ASSUME TypeOK, DeliveryInv, HomeInv, OwnSends, NEW m \in Managers, BeginPass(m)
  PROVE  OwnSends'
<1>1. UNCHANGED <<out, sending>>
  BY DEF BeginPass
<1>2. \A n \in Managers, s \in Sessions :
        view'[n][s] = view[n][s] \/ view'[n][s] = HeadOf(s)
  BY DEF BeginPass, TypeOK
<1>3. ASSUME NEW n \in Managers, NEW s \in Sessions, NEW x \in out[n], HeadOf(s).id = x.id
      PROVE  HeadOf(s).claim # "none"
  <2>1. x.id # 0
    BY DEF TypeOK, Sends, Ids
  <2>2. /\ HasHead(s) /\ HeadOf(s).id = Head(s)
        /\ HeadOf(s).claim = inbox[Head(s)].claim
    BY <1>3, <2>1, SeenIsView DEF HeadOf
  <2>3. Head(s) \in Queued(inbox) /\ Head(s) \in DOMAIN inbox
    BY <2>2 DEF HasHead, Head, IsHead, QueuedFor, Queued
  <2>4. Head(s) \notin Unclaimed(inbox)
    BY <1>3, <2>2, <2>3, OutIsClaimed
  <2> QED
    BY <2>2, <2>3, <2>4 DEF Unclaimed
<1> QED
  BY <1>1, <1>2, <1>3 DEF OwnSends

LEMMA PassOwn ==
  ASSUME TypeOK, DeliveryInv, HomeInv, OwnSends, NEW m \in Managers,
         BeginPass(m) \/ CapturePanes(m) \/ \E s \in Sessions : Visit(m, s)
  PROVE  OwnSends'
<1>1. ASSUME CapturePanes(m) PROVE OwnSends'
  <2>1. ASSUME NEW n \in Managers, NEW s \in Sessions
        PROVE  view'[n][s].id = 0 \/ (/\ view'[n][s].id = view[n][s].id
                                      /\ view'[n][s].claim = view[n][s].claim)
    <3>1. view[n][s] \in View
      BY DEF TypeOK
    <3> DEFINE v == [view[n][s] EXCEPT !.screen = pane[s].screen, !.draft = pane[s].line]
    <3>2. v.id = view[n][s].id /\ v.claim = view[n][s].claim
      BY <3>1 DEF View
    <3> QED
      BY <1>1, <3>2, SeenIsView DEF TypeOK, CapturePanes
  <2> QED
    BY <1>1, <2>1, FewerOwn DEF CapturePanes
<1>2. ASSUME NEW s \in Sessions, Visited(m, s)
      PROVE  \A n \in Managers, t \in Sessions :
               view'[n][t].id = 0 \/ view'[n][t] = view[n][t]
  BY <1>2, SeenIsView DEF TypeOK, Visited
<1>3. ASSUME NEW s \in Sessions, Wait(m, s) PROVE OwnSends'
  BY <1>2, <1>3, FewerOwn DEF Wait
<1>4. ASSUME NEW s \in Sessions, InterruptForMessage(m, s) PROVE OwnSends'
  BY <1>2, <1>4, FewerOwn DEF InterruptForMessage
<1>5. ASSUME NEW s \in Sessions, DropUnconfirmed(m, s) PROVE OwnSends'
  <2>1. \A n \in Managers, t \in Sessions :
          view'[n][t].id = 0 \/ view'[n][t] = view[n][t]
    BY <1>5, SeenIsView DEF TypeOK, DropUnconfirmed, IdlePass
  <2> QED
    BY <1>5, <2>1, FewerOwn DEF DropUnconfirmed
<1>6. ASSUME NEW s \in Sessions, LoseClaim(m, s) PROVE OwnSends'
  <2>1. view[m][s].claim = "none"
    BY <1>6 DEF LoseClaim, ReadyToSend
  <2>2. \A x \in out[m] : x.id # view[m][s].id
    BY <2>1 DEF OwnSends
  <2>3. \A n \in Managers : \A x \in out[n] : x.id \in sending[n] => x.id \in sending'[n]
    BY <1>6, <2>2 DEF LoseClaim, TypeOK
  <2> QED
    BY <1>2, <1>6, <2>3, FewerOwn DEF LoseClaim
<1> QED
  BY <1>1, <1>3, <1>4, <1>5, <1>6, BeginPassOwn, ClaimOwn DEF Visit

LEMMA SendsOwn ==
  ASSUME TypeOK, OwnSends, NEW m \in Managers, Progress(m) \/ Crash(m) \/ Start(m)
  PROVE  OwnSends'
<1>1. ASSUME NEW x \in out[m], Paste(m, x) \/ PressEnter(m, x) PROVE OwnSends'
  BY <1>1, PhaseOwn DEF Paste, PressEnter
<1>2. ASSUME NEW x \in out[m], Settle(m, x) PROVE OwnSends'
  <2>1. /\ view' = view
        /\ \A n \in Managers : out'[n] = IF n = m THEN out[n] \ {x} ELSE out[n]
        /\ \A n \in Managers : sending'[n] = IF n = m THEN sending[n] \ {x.id} ELSE sending[n]
    BY <1>2 DEF Settle, TypeOK
  <2>2. \A y \in out[m] : y # x => y.id # x.id
    BY DEF OwnSends
  <2> QED
    BY <2>1, <2>2, FewerOwn
<1>3. ASSUME Crash(m) PROVE OwnSends'
  <2>1. /\ \A n \in Managers : out'[n] = IF n = m THEN {} ELSE out[n]
        /\ \A n \in Managers : sending'[n] = IF n = m THEN {} ELSE sending[n]
    BY <1>3 DEF Crash, TypeOK
  <2>2. \A n \in Managers, s \in Sessions :
          view'[n][s].id = 0 \/ view'[n][s] = view[n][s]
    BY <1>3, SeenIsView DEF Crash, TypeOK, IdlePass
  <2> QED
    BY <2>1, <2>2, FewerOwn
<1>4. ASSUME Start(m) PROVE OwnSends'
  BY <1>4 DEF Start, OwnSends
<1> QED
  BY <1>1, <1>2, <1>3, <1>4 DEF Progress

LEMMA NextOwn ==
  TypeOK /\ DeliveryInv /\ HomeInv /\ OwnSends /\ [Next]_vars => OwnSends'
<1> SUFFICES ASSUME TypeOK, DeliveryInv, HomeInv, OwnSends, [Next]_vars PROVE OwnSends'
  OBVIOUS
<1>1. ASSUME UNCHANGED <<view, out, sending>> PROVE OwnSends'
  BY <1>1 DEF OwnSends
<1>2. CASE UNCHANGED vars
  BY <1>1, <1>2 DEF vars, managerVars
<1>3. ASSUME NEW d \in Mail, Send(d) \/ Relay(d) \/ TellSender(d) \/ WithdrawMail(d)
      PROVE  OwnSends'
  BY <1>1, <1>3 DEF Send, Relay, TellSender, Arrives, WithdrawMail, managerVars
<1>4. ASSUME NEW i \in Ids, WithdrawUnattested(i) \/ ClaimAges(i) PROVE OwnSends'
  BY <1>1, <1>4 DEF WithdrawUnattested, ClaimAges, managerVars
<1>5. ASSUME NEW s \in Sessions,
             \/ PaneEnds(s) \/ MarkDead(s) \/ ResolveEndedRecipient(s) \/ Relaunch(s)
             \/ AgentWorks(s) \/ AgentRests(s) \/ AgentAsks(s) \/ DialogAnswered(s)
             \/ OperatorSubmits(s)
      PROVE  OwnSends'
  BY <1>1, <1>5 DEF PaneEnds, MarkDead, ResolveEndedRecipient, Relaunch, AgentWorks,
                    AgentRests, AgentAsks, DialogAnswered, AgentMoves, OperatorSubmits,
                    managerVars
<1>6. ASSUME NEW old \in Sessions, NEW new \in Sessions, ReplaceSession(old, new)
      PROVE  OwnSends'
  BY <1>1, <1>6 DEF ReplaceSession, managerVars
<1> QED
  BY <1>2, <1>3, <1>4, <1>5, <1>6, PassOwn, SendsOwn DEF Next

\* Where no session is replaced, a manager retires as unconfirmed no message whose own
\* send is still out, however long the pane takes and however often managers are killed
\* (poller.go, the look at sendInFlight before an old claim is retired; asyncsend.go).
THEOREM OwnSendsKept == InitialSessions = NSessions /\ Spec => OwnSendNotAbandoned
<1>1. InitialSessions = NSessions /\ Init => TypeOK /\ DeliveryInv /\ HomeInv /\ OwnSends
  BY InitTypes, InitInv, InitSound, InitHome, InitOwn DEF HomeInv
<1>2. TypeOK /\ DeliveryInv /\ HomeInv /\ OwnSends /\ [Next]_vars
        => TypeOK' /\ DeliveryInv' /\ HomeInv' /\ OwnSends'
  BY NextKeepsTypes, NextKeepsInv, NextHome, NextOwn
<1>3. OwnSends => [\A m \in Managers, s \in Sessions :
                     DropUnconfirmed(m, s) => ~\E x \in out[m] : x.id = view[m][s].id]_vars
  BY DEF OwnSends, DropUnconfirmed, ReadyToDrop
<1> QED
  BY <1>1, <1>2, <1>3, PTL DEF Spec, OwnSendNotAbandoned

-----------------------------------------------------------------------------
(* The table keeps what Mailbox promises of each message. *)

Board == [i \in Ids |-> Phase(i)]
Shown == SoundTable(inbox) /\ (InitialSessions = NSessions => Peopled /\ AtHome)

LEMMA PhaseStands ==
  ASSUME TypeOK, NEW i \in DOMAIN inbox
  PROVE  i \in Ids /\ i < nextId /\ Phase(i) = Stands(inbox[i])
<1>1. i \in Ids /\ i \in 1..nextId - 1 /\ nextId \in Nat
  BY Constants DEF TypeOK, IsTable
<1> QED
  BY <1>1 DEF Phase, Stands, Ids

\* What a statement does to the rows is what it does to the messages.
LEMMA MovesBoard ==
  ASSUME TypeOK, TypeOK', nextId' = nextId,
         NEW ids \in SUBSET DOMAIN inbox, NEW to, Moves(inbox, inbox', ids, to)
  PROVE  Board' = [i \in Ids |-> IF i \in ids THEN to ELSE Board[i]]
<1>1. ASSUME NEW i \in Ids
      PROVE  Phase(i)' = IF i \in ids THEN to ELSE Phase(i)
  <2>1. CASE i \in DOMAIN inbox
    <3>1. i \in DOMAIN inbox'
      BY <2>1 DEF Moves
    <3>2. i < nextId'
      BY <2>1, PhaseStands
    <3>3. Phase(i)' = Stands(inbox'[i])
      BY <3>1, <3>2, Constants DEF Phase, Stands, TypeOK, Ids
    <3> QED
      BY <2>1, <3>1, <3>3, PhaseStands DEF Moves
  <2>2. CASE i \notin DOMAIN inbox
    BY <2>2 DEF Phase, Moves
  <2> QED
    BY <2>1, <2>2
<1> QED
  BY <1>1 DEF Board

LEMMA ArrivalPromised ==
  ASSUME TypeOK, TypeOK', Shown, ArrivalStep
  PROVE  \E S \in SUBSET Ids : Promise!Send(nextId, S)
<1>1. PICK S \in SUBSET Unclaimed(inbox) : Joins(inbox, nextId, inbox', S)
  BY DEF ArrivalStep
<1>2. nextId \in Ids /\ nextId' = nextId + 1 /\ nextId \notin DOMAIN inbox
  BY DEF ArrivalStep
<1>3. S \subseteq DOMAIN inbox /\ \A i \in S : Stands(inbox[i]) = "queued"
  BY StandsFacts DEF Unclaimed, Queued, Shown, SoundTable
<1>4. S \in SUBSET Ids /\ \A i \in S : Board[i] = "queued"
  BY <1>3, PhaseStands DEF Board
<1>5. Board[nextId] = "unsent" /\ \A j \in Ids : j < nextId => Board[j] # "unsent"
  BY <1>2, Constants DEF Board, Phase, Ids
<1>6. ASSUME NEW i \in Ids
      PROVE  Phase(i)' = IF i = nextId THEN "queued"
                         ELSE IF i \in S THEN "superseded" ELSE Phase(i)
  <2>1. CASE i \in DOMAIN inbox
    <3>1. i \in DOMAIN inbox' /\ i < nextId' /\ i # nextId
      BY <1>1, <1>2, <2>1, PhaseStands DEF Joins, Ids
    <3>2. Phase(i)' = Stands(inbox'[i])
      BY <3>1 DEF Phase, Stands, TypeOK, Ids
    <3> QED
      BY <1>1, <2>1, <3>1, <3>2, PhaseStands DEF Joins
  <2>2. CASE i = nextId
    <3>1. Phase(i)' = Stands(inbox'[i])
      BY <1>1, <1>2, <2>2 DEF Joins, Phase, Stands, Ids
    <3> QED
      BY <1>1, <2>2, <3>1 DEF Joins
  <2>3. CASE i \notin DOMAIN inbox /\ i # nextId
    BY <1>1, <1>2, <1>3, <2>3, Constants DEF Joins, Phase, Ids
  <2> QED
    BY <2>1, <2>2, <2>3
<1>7. Promise!Send(nextId, S)
  BY <1>4, <1>5, <1>6 DEF Board, Promise!Send, Promise!All
<1> QED
  BY <1>4, <1>7

LEMMA DropPromised ==
  ASSUME TypeOK, TypeOK', Shown, Calm, Drops
  PROVE  \E S \in SUBSET Ids : Promise!Drop(S)
<1>1. PICK S \in SUBSET Queued(inbox) : Moves(inbox, inbox', S, "dropped")
  BY DEF Drops
<1>2. S \in SUBSET DOMAIN inbox /\ nextId' = nextId
  BY DEF Queued, Calm
<1>3. \A i \in S : i \in Ids /\ Board[i] \in {"queued", "claimed"}
  BY <1>2, PhaseStands, StandsFacts DEF Board, Queued, Shown, SoundTable
<1>4. Board' = [i \in Ids |-> IF i \in S THEN "dropped" ELSE Board[i]]
  BY <1>1, <1>2, MovesBoard
<1>5. Promise!Drop(S)
  BY <1>3, <1>4 DEF Board, Promise!Drop, Promise!All, Promise!Move
<1> QED
  BY <1>3, <1>5

LEMMA AgePromised ==
  ASSUME TypeOK, TypeOK', Shown, AgeStep
  PROVE  Board' = Board
<1>1. PICK i \in Queued(inbox) :
        inbox[i].claim # "none" /\ Moves(inbox, inbox', {i}, "claimed")
  BY DEF AgeStep
<1>2. {i} \in SUBSET DOMAIN inbox /\ nextId' = nextId
  BY DEF Queued, AgeStep, Calm
<1>3. i \in Ids /\ Board[i] = "claimed"
  BY <1>1, <1>2, PhaseStands, StandsFacts DEF Board, Queued, Shown, SoundTable
<1>4. Board' = [j \in Ids |-> IF j \in {i} THEN "claimed" ELSE Board[j]]
  BY <1>1, <1>2, MovesBoard
<1> QED
  BY <1>3, <1>4 DEF Board

\* A send that settles an unclaimed row came from before a replacement.
LEMMA SettlePromised ==
  ASSUME TypeOK, TypeOK', DeliveryInv, Shown, NEW m \in Managers, NEW x \in out[m],
         Settle(m, x), x.phase = "entered"
  PROVE  Board' = Board \/ \E i \in Ids : Promise!Deliver(i)
<1>1. Moves(inbox, inbox', {x.id} \cap Queued(inbox), "delivered") /\ nextId' = nextId
  BY SettlesMoves DEF Settle, Shown
<1>2. {x.id} \cap Queued(inbox) \in SUBSET DOMAIN inbox
  BY DEF Queued
<1>3. Board' = [j \in Ids |-> IF j \in {x.id} \cap Queued(inbox) THEN "delivered"
                              ELSE Board[j]]
  BY <1>1, <1>2, MovesBoard
<1>4. CASE x.id \notin Queued(inbox)
  BY <1>3, <1>4 DEF Board
<1>5. CASE x.id \in Queued(inbox)
  <2>1. x.id \in DOMAIN inbox /\ x.id \in Ids /\ Board[x.id] = Stands(inbox[x.id])
    BY <1>5, PhaseStands DEF Queued, Board
  <2>2. Board[x.id] \in {"queued", "claimed"}
    BY <1>5, <2>1, StandsFacts DEF Queued, Shown, SoundTable
  <2>3. ASSUME Board[x.id] = "queued" PROVE InitialSessions < NSessions
    <3>1. x.id \in Unclaimed(inbox)
      BY <1>5, <2>1, <2>3, StandsFacts DEF Unclaimed, Queued, Shown, SoundTable
    <3>2. inbox[x.id].to # x.to
      BY <3>1 DEF DeliveryInv, ClaimIsToken, NoSend
    <3>3. InitialSessions # NSessions
      BY <2>1, <3>2 DEF Shown, AtHome
    <3> QED
      BY <3>3, Constants, DeliveryAssumption
  <2>4. Board' = [j \in Ids |-> IF j \in {x.id} THEN "delivered" ELSE Board[j]]
    BY <1>3, <1>5
  <2>5. Promise!Deliver(x.id)
    BY <2>1, <2>2, <2>3, <2>4 DEF Board, Promise!Deliver, Promise!Move
  <2> QED
    BY <2>1, <2>5
<1> QED
  BY <1>4, <1>5

LEMMA ClaimPromised ==
  ASSUME TypeOK, TypeOK', Shown, NEW m \in Managers, NEW s \in Sessions, ClaimHead(m, s)
  PROVE  \E i \in Ids : Promise!Claim(i)
<1> DEFINE i == view[m][s].id
<1>1. i \in Unclaimed(inbox) /\ Moves(inbox, inbox', {i}, "claimed") /\ nextId' = nextId
  BY ClaimHeadMoves DEF Shown, ClaimHead
<1> HIDE DEF i
<1>2. {i} \in SUBSET DOMAIN inbox
  BY <1>1 DEF Unclaimed, Queued
<1>3. i \in Ids /\ Board[i] = "queued"
  BY <1>1, <1>2, PhaseStands, StandsFacts DEF Board, Unclaimed, Queued, Shown, SoundTable
<1>4. Board' = [j \in Ids |-> IF j \in {i} THEN "claimed" ELSE Board[j]]
  BY <1>1, <1>2, MovesBoard
<1>5. Promise!Claim(i)
  BY <1>3, <1>4 DEF Board, Promise!Claim, Promise!Move
<1> QED
  BY <1>3, <1>5

LEMMA PrunePromised ==
  ASSUME TypeOK, TypeOK', Shown, NEW m \in Managers, BeginPass(m)
  PROVE  \E S \in SUBSET Ids : Promise!Prune(S)
<1>1. PICK old \in SUBSET Settled(inbox) : inbox' = Prune(inbox, old)
  BY DEF BeginPass
<1>2. nextId' = nextId /\ old \subseteq DOMAIN inbox
  BY DEF BeginPass, Settled
<1>3. \A i \in old : i \in Ids /\ Board[i] \in {"delivered", "dropped", "superseded"}
  BY <1>2, PhaseStands, StandsFacts DEF Board, Settled, Shown, SoundTable
<1>4. ASSUME NEW i \in Ids
      PROVE  Phase(i)' = IF i \in old THEN "pruned" ELSE Phase(i)
  <2>1. CASE i \in old
    <3>1. ~(i >= nextId)
      BY <1>2, <2>1, PhaseStands, Constants DEF TypeOK, Ids
    <3> QED
      BY <1>1, <1>2, <2>1, <3>1 DEF Phase, Prune
  <2>2. CASE i \notin old
    BY <1>1, <1>2, <2>2 DEF Phase, Prune
  <2> QED
    BY <2>1, <2>2
<1>5. Promise!Prune(old)
  BY <1>3, <1>4 DEF Board, Promise!Prune, Promise!All, Promise!Outcomes, Promise!Move
<1> QED
  BY <1>3, <1>5

LEMMA ReplacePromised ==
  ASSUME TypeOK, TypeOK', Shown, NEW old \in Sessions, NEW new \in Sessions,
         ReplaceSession(old, new)
  PROVE  \E S \in SUBSET Ids : Promise!HandOver(S)
<1> DEFINE moved == Undropped(inbox, old)
           S == {i \in moved : inbox[i].claim # "none"}
<1>1. InitialSessions < NSessions
  BY Constants, DeliveryAssumption DEF ReplaceSession, Shown, Peopled
<1>2. moved \subseteq Queued(inbox) /\ Queued(inbox) \subseteq DOMAIN inbox
      /\ nextId' = nextId
  BY DEF Undropped, QueuedFor, Queued, ReplaceSession
<1>3. /\ DOMAIN inbox' = DOMAIN inbox
      /\ \A i \in DOMAIN inbox : IF i \in moved THEN Stands(inbox'[i]) = "queued"
                                 ELSE inbox'[i] = inbox[i]
  BY ReplaceHands DEF Shown
<1>4. \A i \in moved : /\ i \in Ids /\ Board[i] \in {"queued", "claimed"}
                       /\ Board[i] = "claimed" <=> inbox[i].claim # "none"
  BY <1>2, PhaseStands, StandsFacts DEF Board, Queued, Shown, SoundTable
<1> HIDE DEF moved
<1>5. ASSUME NEW i \in Ids
      PROVE  Phase(i)' = IF i \in S THEN "queued" ELSE Phase(i)
  <2>1. CASE i \in moved
    <3>1. i \in DOMAIN inbox' /\ i < nextId'
      BY <1>2, <1>3, <2>1, PhaseStands
    <3>2. Phase(i)' = Stands(inbox'[i])
      BY <3>1 DEF Phase, Stands, TypeOK, Ids
    <3>3. Phase(i)' = "queued"
      BY <1>2, <1>3, <2>1, <3>2
    <3> QED
      BY <1>4, <2>1, <3>3 DEF Board
  <2>2. CASE i \notin moved
    BY <1>2, <1>3, <2>2 DEF Phase
  <2> QED
    BY <2>1, <2>2
<1>6. S \in SUBSET Ids /\ \A i \in S : Board[i] = "claimed"
  BY <1>4
<1> HIDE DEF S
<1>7. Promise!HandOver(S)
  BY <1>1, <1>5, <1>6 DEF Board, Promise!HandOver, Promise!All, Promise!Move
<1> QED
  BY <1>6, <1>7

LEMMA InitPromised == Init => Shown /\ Promise!Init
<1> SUFFICES ASSUME Init PROVE Shown /\ Promise!Init
  OBVIOUS
<1>1. Board = [i \in Ids |-> "unsent"]
  BY Constants DEF Init, Board, Phase, Ids
<1> QED
  BY <1>1, InitSound, InitHome DEF Board, Shown, Promise!Init

LEMMA NextShown == TypeOK /\ DeliveryInv /\ Shown /\ [Next]_vars => Shown'
<1> SUFFICES ASSUME TypeOK, DeliveryInv, Shown, [Next]_vars PROVE Shown'
  OBVIOUS
<1>1. SoundTable(inbox')
  BY NextKinds, KindsSound DEF Shown
<1>2. ASSUME InitialSessions = NSessions PROVE Peopled' /\ AtHome'
  BY <1>2, NextHome DEF Shown, HomeInv
<1> QED
  BY <1>1, <1>2 DEF Shown

LEMMA NextPromised ==
  ASSUME TypeOK, TypeOK', DeliveryInv, Shown, [Next]_vars
  PROVE  Promise!Next \/ Board' = Board
<1>1. Kinds
  BY NextKinds DEF Shown
<1>2. CASE ArrivalStep
  BY <1>2, ArrivalPromised DEF ArrivalStep, Promise!Next
<1>3. CASE Calm /\ Drops
  BY <1>3, DropPromised DEF Promise!Next
<1>4. CASE AgeStep
  BY <1>4, AgePromised
<1>5. CASE Settles
  BY <1>5, SettlePromised DEF Settles, Promise!Next
<1>6. ASSUME NEW old \in Sessions, NEW new \in Sessions, ReplaceSession(old, new)
      PROVE  Promise!Next
  BY <1>6, ReplacePromised DEF Promise!Next
<1>7. ASSUME NEW m \in Managers, BeginPass(m) PROVE Promise!Next
  BY <1>7, PrunePromised DEF Promise!Next
<1>8. ASSUME NEW m \in Managers, NEW s \in Sessions, ClaimHead(m, s) PROVE Promise!Next
  BY <1>8, ClaimPromised DEF Promise!Next
<1>9. ASSUME NEW m \in Managers, NEW x \in out[m], Paste(m, x) PROVE Board' = Board
  BY <1>9 DEF Paste, Board, Phase
<1> QED
  BY <1>1, <1>2, <1>3, <1>4, <1>5, <1>6, <1>7, <1>8, <1>9 DEF Kinds

\* The delivery of the inbox implements Mailbox: whatever the managers, senders,
\* deaths, replacements and kills do, each message is queued once, belongs to one send
\* at a time and is settled once, for good (store/inbox.go; ui/poller.go).
THEOREM KeepsThePromise == Spec => PromiseSpec
<1>1. Init => TypeOK /\ DeliveryInv /\ Shown /\ Promise!Init
  BY InitTypes, InitInv, InitPromised
<1>2. TypeOK /\ DeliveryInv /\ Shown /\ [Next]_vars => TypeOK' /\ DeliveryInv' /\ Shown'
  BY NextKeepsTypes, NextKeepsInv, NextShown
<1>3. TypeOK /\ TypeOK' /\ DeliveryInv /\ Shown /\ [Next]_vars
        => [Promise!Next]_([i \in Ids |-> Phase(i)])
  BY NextPromised DEF Board
<1> QED
  BY <1>1, <1>2, <1>3, PTL DEF Spec, PromiseSpec, Promise!Spec
=============================================================================
