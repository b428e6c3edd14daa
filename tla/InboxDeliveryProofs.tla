------------------------ MODULE InboxDeliveryProofs ------------------------
(***************************************************************************)
(* Type correctness and at-most-once delivery, for any number of sessions, *)
(* messages, managers, crashes and ends.                                   *)
(***************************************************************************)
EXTENDS InboxDelivery, InboxTableProofs

LEMMA Constants ==
  /\ NSessions \in Nat /\ MaxMessages \in Nat
  /\ MaxCrashes \in Nat /\ MaxEnds \in Nat
  /\ \A d \in Mail : d \in Drafts /\ d.to \in Sessions /\ d.from \in Senders
BY InboxAssumption, DeliveryAssumption
   DEF InboxAssumption, DeliveryAssumption, Drafts

LEMMA PaneTypes == NewPane \in Pane /\ NoPane \in Pane
BY DEF NewPane, NoPane, Pane, Screens

LEMMA SeenIsView == Seen \in View /\ Seen.id = 0
BY Constants DEF Seen, View, Claims, Screens

LEMMA IdleTypes == IdlePass \in [Sessions -> View]
BY SeenIsView DEF IdlePass

\* The head of a queue is one of its rows.
LEMMA HeadIsRow ==
  ASSUME TypeOK, NEW s \in Sessions, HasHead(s)
  PROVE  /\ Head(s) \in Ids
         /\ Head(s) \in DOMAIN inbox
         /\ inbox[Head(s)] \in Row
<1>1. Head(s) \in Ids /\ IsHead(inbox, s, Head(s))
  BY DEF HasHead, Head
<1> QED BY <1>1 DEF IsHead, QueuedFor, Queued, TypeOK, IsTable

\* What a pass reads of a queue is a view of a message that was sent.
LEMMA HeadOfType ==
  ASSUME TypeOK, NEW s \in Sessions
  PROVE  /\ HeadOf(s) \in View
         /\ HeadOf(s).id < nextId
         /\ row[s] = "none" => HeadOf(s).id = 0
<1>1. CASE row[s] = "live" /\ pane[s].up /\ HasHead(s)
  <2>1. /\ Head(s) \in Ids /\ Head(s) < nextId
        /\ inbox[Head(s)].claim \in Claims
    <3>1. Head(s) \in Ids /\ Head(s) \in DOMAIN inbox /\ inbox[Head(s)] \in Row
      BY HeadIsRow, <1>1
    <3>2. nextId \in Nat /\ DOMAIN inbox \subseteq 1..nextId - 1
      BY Constants DEF TypeOK
    <3>3. Head(s) < nextId
      BY <3>1, <3>2, Constants DEF Ids
    <3>4. inbox[Head(s)].claim \in Claims
      BY <3>1 DEF Row
    <3> QED BY <3>1, <3>3, <3>4
  <2>2. HeadOf(s) = [id |-> Head(s), claim |-> inbox[Head(s)].claim,
                 screen |-> "unread", draft |-> {}]
    BY <1>1 DEF HeadOf
  <2> QED BY <1>1, <2>1, <2>2, Constants DEF View, Ids
<1>2. CASE ~(row[s] = "live" /\ pane[s].up /\ HasHead(s))
  <2>1. HeadOf(s) = Seen
    BY <1>2 DEF HeadOf
  <2> QED BY <2>1, SeenIsView, Constants DEF TypeOK
<1> QED BY <1>1, <1>2

\* Writing on a screen or in a composer leaves a pane.
LEMMA PaneEdits ==
  ASSUME TypeOK, NEW s \in Sessions, NEW c \in Screens, NEW l \in SUBSET Ids
  PROVE  /\ [pane EXCEPT ![s].screen = c] \in [Sessions -> Pane]
         /\ [pane EXCEPT ![s].line = l] \in [Sessions -> Pane]
         /\ [pane EXCEPT ![s].line = @ \cup l] \in [Sessions -> Pane]
         /\ [pane EXCEPT ![s].screen = c, ![s].line = l] \in [Sessions -> Pane]
<1>1. pane \in [Sessions -> Pane] /\ pane[s] \in Pane
  BY DEF TypeOK
<1>2. /\ [pane[s] EXCEPT !.screen = c] \in Pane
      /\ [pane[s] EXCEPT !.line = l] \in Pane
      /\ [pane[s] EXCEPT !.line = @ \cup l] \in Pane
      /\ [[pane[s] EXCEPT !.screen = c] EXCEPT !.line = l] \in Pane
  BY <1>1 DEF Pane
<1>3. \A r \in Pane : [pane EXCEPT ![s] = r] \in [Sessions -> Pane]
  BY <1>1
<1>4. [pane EXCEPT ![s].screen = c, ![s].line = l]
        = [pane EXCEPT ![s] = [[pane[s] EXCEPT !.screen = c] EXCEPT !.line = l]]
  BY <1>1
<1> QED BY <1>2, <1>3, <1>4

---------------------------------------------------------------------------
\* The initial state has the declared types.
LEMMA InitTypes == Init => TypeOK
BY Constants, PaneTypes, IdleTypes
   DEF Init, TypeOK, IsTable, Ids, Sessions

\* A send that changes phase leaves the sends of its manager well typed.
LEMMA StepTypes ==
  ASSUME TypeOK, NEW m \in Managers, NEW x \in out[m],
         NEW p \in {"claimed", "pasted", "entered", "failed"}, Step(m, x, p)
  PROVE  out' \in [Managers -> SUBSET Sends]
<1>1. x \in Sends
  BY DEF TypeOK
<1>2. [x EXCEPT !.phase = p] \in Sends
  BY <1>1 DEF Sends
<1> QED BY <1>1, <1>2 DEF TypeOK, Step

\* A statement that rewrites rows keeps the table's type.
LEMMA RewriteTypes ==
  ASSUME TypeOK, Rewrites(inbox, inbox')
  PROVE  IsTable(inbox') /\ DOMAIN inbox' \subseteq 1..nextId - 1
BY RewritesTable DEF TypeOK

LEMMA OutcomeRewrites ==
  ASSUME TypeOK, NEW x PROVE Rewrites(inbox, Outcome(x))
BY MarkDeliveredRewrites, MarkDroppedRewrites DEF TypeOK, Outcome

\* A message that arrives joins the table under the next id.
LEMMA Arrivals ==
  ASSUME TypeOK, NEW d \in Mail, Send(d) \/ Relay(d) \/ TellSender(d)
  PROVE  /\ nextId \in Ids /\ nextId \notin DOMAIN inbox
         /\ Arrives(d) /\ nextId' = nextId + 1
         /\ Grows(inbox, nextId, inbox')
<1>1. Arrives(d)
  BY DEF Send, Relay, TellSender
<1>2. nextId \in Ids /\ nextId \notin DOMAIN inbox /\ nextId' = nextId + 1
  BY <1>1, Constants DEF TypeOK, Arrives, Ids
<1>3. d \in Drafts /\ IsTable(inbox)
  BY Constants DEF TypeOK
<1>4. CASE Send(d)
  BY <1>2, <1>3, <1>4, SendMessageGrows DEF Send
<1>5. CASE Relay(d)
  BY <1>2, <1>3, <1>5, EnqueueGrows DEF Relay
<1>6. CASE TellSender(d)
  BY <1>2, <1>3, <1>6, NoticeGrows DEF TellSender
<1> QED BY <1>1, <1>2, <1>4, <1>5, <1>6

\* The callers' actions keep the types.
LEMMA CallersKeepTypes ==
  ASSUME TypeOK,
         \/ \E d \in Mail : Send(d) \/ Relay(d) \/ TellSender(d) \/ WithdrawMail(d)
         \/ \E i \in Ids : WithdrawUnattested(i)
         \/ \E s \in Sessions : \/ PaneEnds(s) \/ MarkDead(s) \/ ResolveEndedRecipient(s)
                                \/ Relaunch(s)
         \/ \E old, new \in Sessions : ReplaceSession(old, new)
  PROVE  TypeOK'
<1>1. ASSUME NEW d \in Mail, Send(d) \/ Relay(d) \/ TellSender(d) PROVE TypeOK'
  <2>1. Arrives(d)
    BY <1>1, Arrivals
  <2>2. IsTable(inbox') /\ DOMAIN inbox' = DOMAIN inbox \cup {nextId}
    BY <1>1, Arrivals DEF Grows
  <2>3. nextId' \in 1..MaxMessages + 1 /\ DOMAIN inbox' \subseteq 1..nextId' - 1
    BY <2>1, <2>2, Constants DEF TypeOK, Arrives
  <2> QED BY <2>1, <2>2, <2>3 DEF TypeOK, Arrives, managerVars, history
<1>2. ASSUME NEW d \in Mail, WithdrawMail(d) PROVE TypeOK'
  <2>1. Rewrites(inbox, inbox')
    BY <1>2, WithdrawRewrites DEF TypeOK, WithdrawMail
  <2> QED BY <1>2, <2>1, RewriteTypes DEF TypeOK, WithdrawMail, managerVars, history
<1>3. ASSUME NEW s \in Sessions, PaneEnds(s) PROVE TypeOK'
  BY <1>3, PaneTypes, Constants DEF TypeOK, PaneEnds, managerVars, history
<1>4. ASSUME NEW s \in Sessions, MarkDead(s) PROVE TypeOK'
  BY <1>4 DEF TypeOK, MarkDead, managerVars, history
<1>5. ASSUME NEW s \in Sessions, ResolveEndedRecipient(s) PROVE TypeOK'
  <2>1. Rewrites(inbox, inbox')
    BY <1>5, DropEndedRewrites DEF TypeOK, ResolveEndedRecipient
  <2> QED BY <1>5, <2>1, RewriteTypes
          DEF TypeOK, ResolveEndedRecipient, managerVars, history
<1>6. ASSUME NEW s \in Sessions, Relaunch(s) PROVE TypeOK'
  BY <1>6, PaneTypes DEF TypeOK, Relaunch, managerVars, history
<1>7. ASSUME NEW old \in Sessions, NEW new \in Sessions, ReplaceSession(old, new)
      PROVE  TypeOK'
  <2>1. IsTable(inbox') /\ DOMAIN inbox' = DOMAIN inbox
    BY <1>7, ForwardMoves DEF TypeOK, ReplaceSession
  <2> QED BY <1>7, <2>1, PaneTypes DEF TypeOK, ReplaceSession, managerVars, history
<1>8. ASSUME NEW i \in Ids, WithdrawUnattested(i) PROVE TypeOK'
  <2>1. Rewrites(inbox, inbox')
    BY <1>8, MarkDroppedRewrites DEF TypeOK, WithdrawUnattested
  <2> QED BY <1>8, <2>1, RewriteTypes DEF TypeOK, WithdrawUnattested, managerVars, history
<1> QED BY <1>1, <1>2, <1>3, <1>4, <1>5, <1>6, <1>7, <1>8

\* So do the agent, the person at the pane and the clock.
LEMMA PanesKeepTypes ==
  ASSUME TypeOK,
         \/ \E s \in Sessions : \/ AgentWorks(s) \/ AgentRests(s) \/ AgentAsks(s)
                                \/ DialogAnswered(s) \/ OperatorSubmits(s)
         \/ \E i \in Ids : ClaimAges(i)
  PROVE  TypeOK'
<1>1. ASSUME NEW s \in Sessions, NEW from, NEW to \in Screens, AgentMoves(s, from, to)
      PROVE  TypeOK'
  <2>1. pane' \in [Sessions -> Pane]
    BY <1>1, PaneEdits DEF AgentMoves
  <2> QED BY <1>1, <2>1 DEF TypeOK, AgentMoves, managerVars, history
<1>2. ASSUME NEW s \in Sessions, OperatorSubmits(s) PROVE TypeOK'
  <2>1. pane' \in [Sessions -> Pane]
    BY <1>2, PaneEdits DEF OperatorSubmits, Submit, Screens
  <2> QED BY <1>2, <2>1 DEF TypeOK, OperatorSubmits, managerVars, history
<1>3. ASSUME NEW i \in Ids, ClaimAges(i) PROVE TypeOK'
  <2>1. i \in DOMAIN inbox
    BY <1>3 DEF ClaimAges, Queued
  <2>2. Rewrites(inbox, inbox')
    BY <1>3, <2>1, ClaimRewrites DEF TypeOK, ClaimAges, Claims
  <2> QED BY <1>3, <2>2, RewriteTypes DEF TypeOK, ClaimAges, managerVars, history
<1> QED BY <1>1, <1>2, <1>3
        DEF AgentWorks, AgentRests, AgentAsks, DialogAnswered, Screens

\* So does a pass.
LEMMA PassKeepsTypes ==
  ASSUME TypeOK, NEW m \in Managers,
         \/ BeginPass(m) \/ CapturePanes(m)
         \/ \E s \in Sessions : Visit(m, s)
  PROVE  TypeOK'
<1>1. ASSUME BeginPass(m) PROVE TypeOK'
  <2>1. Rewrites(inbox, inbox')
    BY <1>1, PruneRewrites DEF TypeOK, BeginPass
  <2>2. [s \in Sessions |-> HeadOf(s)] \in [Sessions -> View]
    BY HeadOfType
  <2>3. view' \in [Managers -> [Sessions -> View]]
    BY <1>1, <2>2 DEF TypeOK, BeginPass
  <2> QED BY <1>1, <2>1, <2>3, RewriteTypes DEF TypeOK, BeginPass, history
<1>2. ASSUME CapturePanes(m) PROVE TypeOK'
  <2> DEFINE read == [s \in Sessions |->
        IF view[m][s].id = 0 \/ ~pane[s].up THEN Seen
        ELSE [view[m][s] EXCEPT !.screen = pane[s].screen, !.draft = pane[s].line]]
  <2>1. ASSUME NEW s \in Sessions PROVE read[s] \in View
    <3>1. view[m][s] \in View /\ pane[s] \in Pane
      BY DEF TypeOK
    <3>2. [view[m][s] EXCEPT !.screen = pane[s].screen, !.draft = pane[s].line] \in View
      BY <3>1 DEF View, Pane
    <3> QED BY <3>2, SeenIsView
  <2>2. view' = [view EXCEPT ![m] = read]
    BY <1>2 DEF CapturePanes
  <2>3. view' \in [Managers -> [Sessions -> View]]
    <3>1. read \in [Sessions -> View]
      BY <2>1
    <3> HIDE DEF read
    <3> QED BY <2>2, <3>1 DEF TypeOK
  <2> QED BY <1>2, <2>3 DEF TypeOK, CapturePanes, history
<1>3. ASSUME NEW s \in Sessions, Visited(m, s)
      PROVE  view' \in [Managers -> [Sessions -> View]]
  BY <1>3, SeenIsView DEF TypeOK, Visited
<1>4. ASSUME NEW s \in Sessions, Visiting(m, s) PROVE view[m][s].id \in Ids
  BY <1>4, Constants DEF Visiting, TypeOK, View, Ids
<1>5. ASSUME NEW s \in Sessions, Wait(m, s) PROVE TypeOK'
  BY <1>3, <1>5 DEF TypeOK, Wait, history
<1>6. ASSUME NEW s \in Sessions, InterruptForMessage(m, s) PROVE TypeOK'
  <2>1. pane' \in [Sessions -> Pane]
    BY <1>6, PaneEdits DEF InterruptForMessage, Screens
  <2> QED BY <1>3, <1>4, <1>6, <2>1 DEF TypeOK, InterruptForMessage
<1>7. ASSUME NEW s \in Sessions, DropUnconfirmed(m, s) PROVE TypeOK'
  <2>1. Rewrites(inbox, inbox')
    BY <1>7, MarkDroppedRewrites DEF TypeOK, DropUnconfirmed, RetireUnconfirmed
  <2> QED BY <1>7, <2>1, RewriteTypes, IdleTypes DEF TypeOK, DropUnconfirmed, history
<1>8. ASSUME NEW s \in Sessions, ClaimHead(m, s) PROVE TypeOK'
  <2> DEFINE v == view[m][s]
  <2>1. v \in View /\ v.id \in Ids /\ v.id \in Unclaimed(inbox) /\ Visiting(m, s)
    BY <1>4, <1>8 DEF TypeOK, ClaimHead, Claimable
  <2>2. Rewrites(inbox, inbox')
    BY <1>8, <2>1, ClaimRewrites
       DEF TypeOK, ClaimHead, ClaimMessage, Unclaimed, Queued, Claims
  <2>3. [id |-> v.id, to |-> s, phase |-> "claimed", aside |-> v.draft] \in Sends
    BY <2>1 DEF Sends, View
  <2>4. out' \in [Managers -> SUBSET Sends]
    BY <1>8, <2>3 DEF TypeOK, ClaimHead
  <2>5. pane' \in [Sessions -> Pane]
    BY <1>8, PaneEdits DEF TypeOK, ClaimHead, Screens
  <2> QED BY <1>3, <1>8, <2>1, <2>2, <2>4, <2>5, RewriteTypes DEF TypeOK, ClaimHead, history
<1>9. ASSUME NEW s \in Sessions, LoseClaim(m, s) PROVE TypeOK'
  <2>1. view[m][s] \in View
    BY DEF TypeOK
  <2>2. pane' \in [Sessions -> Pane]
    BY <1>9, <2>1, PaneEdits DEF TypeOK, LoseClaim, Screens, View
  <2> QED BY <1>3, <1>9, <2>2 DEF TypeOK, LoseClaim, history
<1> QED BY <1>1, <1>2, <1>5, <1>6, <1>7, <1>8, <1>9 DEF Visit

\* So do the steps of a send, and a manager's end and start.
LEMMA SendsKeepTypes ==
  ASSUME TypeOK, NEW m \in Managers, Progress(m) \/ Crash(m) \/ Start(m)
  PROVE  TypeOK'
<1>1. ASSUME NEW x \in out[m], Paste(m, x) PROVE TypeOK'
  <2>1. x \in Sends
    BY DEF TypeOK
  <2>2. out' \in [Managers -> SUBSET Sends]
    BY <1>1, StepTypes DEF Paste
  <2>3. pane' \in [Sessions -> Pane]
    <3>1. x.to \in Sessions /\ {x.id} \in SUBSET Ids
      BY <2>1 DEF Sends
    <3>2. [pane EXCEPT ![x.to].line = @ \cup {x.id}] \in [Sessions -> Pane]
      BY <3>1, PaneEdits DEF Screens
    <3>3. pane' = pane \/ pane' = [pane EXCEPT ![x.to].line = @ \cup {x.id}]
      BY <1>1 DEF Paste
    <3> QED BY <3>2, <3>3 DEF TypeOK
  <2>4. pasted' \in [Ids -> [Sessions -> Nat]]
    BY <1>1, <2>1 DEF TypeOK, Paste, Sends
  <2> QED BY <1>1, <2>2, <2>3, <2>4 DEF TypeOK, Paste, history
<1>2. ASSUME NEW x \in out[m], PressEnter(m, x) PROVE TypeOK'
  <2>1. out' \in [Managers -> SUBSET Sends]
    BY <1>2, StepTypes DEF PressEnter
  <2>2. pane' \in [Sessions -> Pane]
    <3>1. x.to \in Sessions
      BY DEF TypeOK, Sends
    <3>2. pane' = pane \/ Submit(x.to)
      BY <1>2 DEF PressEnter
    <3>3. [pane EXCEPT ![x.to].screen = "work", ![x.to].line = {}] \in [Sessions -> Pane]
      BY <3>1, PaneEdits DEF Screens
    <3> QED BY <3>2, <3>3 DEF TypeOK, Submit
  <2> QED BY <1>2, <2>1, <2>2 DEF TypeOK, PressEnter, history
<1>3. ASSUME NEW x \in out[m], Settle(m, x) PROVE TypeOK'
  <2>1. x \in Sends
    BY DEF TypeOK
  <2>2. Rewrites(inbox, inbox')
    BY <1>3, OutcomeRewrites DEF Settle
  <2>3. pane' \in [Sessions -> Pane]
    BY <1>3, <2>1, PaneEdits DEF TypeOK, Settle, Screens, Sends
  <2>4. row' \in [Sessions -> {"none", "live", "dead"}]
    BY <1>3 DEF TypeOK, Settle
  <2>5. /\ out' \in [Managers -> SUBSET Sends]
        /\ sending' \in [Managers -> SUBSET Ids]
        /\ settled' \in [Managers -> SUBSET Sessions]
    BY <1>3, <2>1 DEF TypeOK, Settle, Sends
  <2> QED BY <1>3, <2>2, <2>3, <2>4, <2>5, RewriteTypes DEF TypeOK, Settle, history
<1>4. ASSUME Crash(m) PROVE TypeOK'
  BY <1>4, IdleTypes, Constants DEF TypeOK, Crash, history
<1>5. ASSUME Start(m) PROVE TypeOK'
  BY <1>5 DEF TypeOK, Start, history
<1> QED BY <1>1, <1>2, <1>3, <1>4, <1>5 DEF Progress

\* Every step of the system keeps the declared types.
LEMMA NextKeepsTypes == TypeOK /\ [Next]_vars => TypeOK'
<1> SUFFICES ASSUME TypeOK, [Next]_vars PROVE TypeOK'
  OBVIOUS
<1>1. CASE UNCHANGED vars
  BY <1>1 DEF TypeOK, vars, managerVars, history
<1>2. CASE Next
  BY <1>2, CallersKeepTypes, PanesKeepTypes, PassKeepsTypes, SendsKeepTypes DEF Next
<1> QED BY <1>1, <1>2

\* Whatever is sent, claimed, killed, relaunched or replaced, and however
\* often, the system's state keeps its declared types: in particular the
\* table holds only rows whose ids were handed out.
THEOREM TypeCorrect == Spec => []TypeOK
<1>1. Init => TypeOK
  BY InitTypes
<1>2. TypeOK /\ [Next]_vars => TypeOK'
  BY NextKeepsTypes
<1> QED BY <1>1, <1>2, PTL DEF Spec

---------------------------------------------------------------------------
(* At most once. *)

\* A step that starts no send, types nothing and makes nothing claimable: it
\* may rewrite rows, make sessions, read heads, and end or advance sends.
Quiet ==
  /\ Rewrites(inbox, inbox')
  /\ nextId' = nextId /\ pasted' = pasted
  /\ \A s \in Sessions : row'[s] = "none" => row[s] = "none"
  /\ \A m \in Managers, s \in Sessions :
       \/ view'[m][s].id = view[m][s].id
       \/ view'[m][s].id < nextId /\ (row[s] = "none" => view'[m][s].id = 0)
  /\ \A m \in Managers : \A x \in out'[m] :
       \E y \in out[m] : /\ y.id = x.id /\ y.to = x.to
                         /\ x.phase = "claimed" => x = y

\* Its sends are sends that were out before.
LEMMA QuietSends ==
  ASSUME Quiet, NEW i, NEW s, NoSend(i, s)
  PROVE  NoSend(i, s)'
BY DEF Quiet, NoSend

\* A quiet step keeps the invariant.
LEMMA QuietKeeps ==
  ASSUME TypeOK, TypeOK', DeliveryInv, Quiet
  PROVE  DeliveryInv'
<1>1. /\ DOMAIN inbox' \subseteq DOMAIN inbox
      /\ \A i \in DOMAIN inbox' : inbox'[i].to = inbox[i].to
      /\ Unclaimed(inbox') \subseteq Unclaimed(inbox)
  BY RewritesTable DEF TypeOK, Quiet
<1>2. NothingEarly'
  <2>1. ASSUME NEW i \in Ids, NEW s \in Sessions, i >= nextId \/ row'[s] = "none"
        PROVE  pasted'[i][s] = 0 /\ NoSend(i, s)'
    BY <2>1, QuietSends DEF Quiet, DeliveryInv, NothingEarly
  <2>2. ASSUME NEW m \in Managers, NEW s \in Sessions
        PROVE  /\ view'[m][s].id < nextId
               /\ row'[s] = "none" => view'[m][s].id = 0
    BY DEF Quiet, DeliveryInv, NothingEarly
  <2> QED BY <2>1, <2>2 DEF Quiet, NothingEarly
<1>3. ASSUME NEW i \in Unclaimed(inbox'), NEW s, s = inbox'[i].to
      PROVE  pasted'[i][s] = 0 /\ NoSend(i, s)'
  <2>1. i \in Unclaimed(inbox) /\ s = inbox[i].to
    BY <1>1, <1>3 DEF Unclaimed, Queued
  <2>2. pasted[i][s] = 0 /\ NoSend(i, s)
    BY <2>1 DEF DeliveryInv, ClaimIsToken
  <2> QED BY <2>2, QuietSends DEF Quiet
<1>4. ASSUME NEW m \in Managers, NEW n \in Managers, NEW x \in out'[m], NEW y \in out'[n],
             x.phase = "claimed", y.phase = "claimed", x.id = y.id, x.to = y.to,
             x.id \in DOMAIN inbox', inbox'[x.id].to = x.to
      PROVE  m = n /\ x = y /\ pasted'[x.id][x.to] = 0
  <2>1. x \in out[m] /\ y \in out[n]
    BY <1>4 DEF Quiet
  <2> QED BY <1>1, <1>4, <2>1 DEF Quiet, DeliveryInv, ClaimIsToken
<1>5. AtMostOnce'
  BY <1>1 DEF AtMostOnce, DeliveryInv, Quiet
<1>6. ClaimIsToken'
  BY <1>3, <1>4 DEF ClaimIsToken, NoSend
<1> QED BY <1>2, <1>5, <1>6 DEF DeliveryInv

\* The first states satisfy the invariant: nothing was sent.
LEMMA InitInv == Init => DeliveryInv
<1> SUFFICES ASSUME Init PROVE DeliveryInv
  OBVIOUS
<1>1. DOMAIN inbox = {}
  BY DEF Init
<1>2. \A m \in Managers, s \in Sessions : view[m][s].id = 0
  BY SeenIsView DEF Init, IdlePass
<1> QED BY <1>1, <1>2
        DEF Init, DeliveryInv, NothingEarly, ClaimIsToken, AtMostOnce, NoSend,
            Unclaimed, Queued

\* A message takes an id that is nowhere yet.
LEMMA ArrivalKeeps ==
  ASSUME TypeOK, TypeOK', DeliveryInv, NEW d \in Mail,
         Send(d) \/ Relay(d) \/ TellSender(d)
  PROVE  DeliveryInv'
<1>1. nextId \in Ids /\ nextId \notin DOMAIN inbox /\ nextId' = nextId + 1
  BY Arrivals
<1>2. /\ DOMAIN inbox' = DOMAIN inbox \cup {nextId}
      /\ \A i \in DOMAIN inbox : inbox'[i].to = inbox[i].to
      /\ Unclaimed(inbox') \subseteq Unclaimed(inbox) \cup {nextId}
  BY Arrivals DEF Grows
<1>3. \A s \in Sessions : pasted[nextId][s] = 0 /\ NoSend(nextId, s)
  BY <1>1 DEF DeliveryInv, NothingEarly, TypeOK, Ids
<1>4. UNCHANGED <<row, view, out, pasted>>
  BY Arrivals DEF Arrives, managerVars, history
<1>5. \A i \in DOMAIN inbox' : inbox'[i].to \in Sessions
  BY DEF TypeOK, IsTable, Row
<1>6. NothingEarly'
  BY <1>1, <1>4 DEF DeliveryInv, NothingEarly, NoSend, TypeOK, View, Ids
<1>7. ASSUME NEW i \in Unclaimed(inbox')
      PROVE  pasted[i][inbox'[i].to] = 0 /\ NoSend(i, inbox'[i].to)
  <2>1. CASE i = nextId
    BY <1>2, <1>3, <1>5, <2>1
  <2>2. CASE i # nextId
    BY <1>2, <1>7, <2>2 DEF DeliveryInv, ClaimIsToken, Unclaimed, Queued
  <2> QED BY <2>1, <2>2
<1>8. ASSUME NEW m \in Managers, NEW x \in out[m], x.id \in DOMAIN inbox',
             inbox'[x.id].to = x.to
      PROVE  x.id \in DOMAIN inbox /\ inbox[x.id].to = x.to
  BY <1>2, <1>3, <1>5, <1>8 DEF NoSend
<1>9. ClaimIsToken'
  <2>1. ASSUME NEW m \in Managers, NEW n \in Managers, NEW x \in out[m], NEW y \in out[n],
               x.phase = "claimed", y.phase = "claimed", x.id = y.id, x.to = y.to,
               x.id \in DOMAIN inbox', inbox'[x.id].to = x.to
        PROVE  m = n /\ x = y /\ pasted[x.id][x.to] = 0
    BY <1>8, <2>1 DEF DeliveryInv, ClaimIsToken
  <2> QED BY <1>4, <1>7, <2>1 DEF ClaimIsToken, NoSend
<1>10. AtMostOnce'
  BY <1>2, <1>3, <1>4, <1>5 DEF DeliveryInv, AtMostOnce
<1> QED BY <1>6, <1>9, <1>10 DEF DeliveryInv

\* A replacement takes a queue whose claims are cleared to a session nothing
\* was ever typed into.
LEMMA ReplaceKeeps ==
  ASSUME TypeOK, TypeOK', DeliveryInv, NEW old \in Sessions, NEW new \in Sessions,
         ReplaceSession(old, new)
  PROVE  DeliveryInv'
<1>1. /\ DOMAIN inbox' = DOMAIN inbox
      /\ \A i \in DOMAIN inbox' :
           \/ inbox'[i].to = new
           \/ /\ inbox'[i].to = inbox[i].to
              /\ i \in Unclaimed(inbox') => i \in Unclaimed(inbox)
  BY ForwardMoves DEF TypeOK, ReplaceSession
<1>2. UNCHANGED <<nextId, view, out, pasted>>
  BY DEF ReplaceSession, managerVars, history
<1>3. \A i \in Ids : pasted[i][new] = 0 /\ NoSend(i, new)
  BY DEF DeliveryInv, NothingEarly, ReplaceSession
<1>4. \A i \in DOMAIN inbox' : i \in Ids
  BY DEF TypeOK, IsTable
<1>5. \A s \in Sessions : row'[s] = "none" => row[s] = "none"
  BY DEF ReplaceSession, TypeOK
<1>6. NothingEarly'
  BY <1>2, <1>5 DEF DeliveryInv, NothingEarly, NoSend
<1>7. ASSUME NEW i \in Unclaimed(inbox')
      PROVE  pasted[i][inbox'[i].to] = 0 /\ NoSend(i, inbox'[i].to)
  <2>1. i \in DOMAIN inbox' /\ i \in Ids
    BY <1>4 DEF Unclaimed, Queued
  <2>2. CASE inbox'[i].to = new
    BY <1>3, <2>1, <2>2
  <2>3. CASE inbox'[i].to # new
    BY <1>1, <1>7, <2>1, <2>3 DEF DeliveryInv, ClaimIsToken
  <2> QED BY <2>2, <2>3
<1>8. ASSUME NEW m \in Managers, NEW x \in out[m], x.id \in DOMAIN inbox',
             inbox'[x.id].to = x.to
      PROVE  x.id \in DOMAIN inbox /\ inbox[x.id].to = x.to
  BY <1>1, <1>3, <1>4, <1>8 DEF NoSend
<1>9. ClaimIsToken'
  <2>1. ASSUME NEW m \in Managers, NEW n \in Managers, NEW x \in out[m], NEW y \in out[n],
               x.phase = "claimed", y.phase = "claimed", x.id = y.id, x.to = y.to,
               x.id \in DOMAIN inbox', inbox'[x.id].to = x.to
        PROVE  m = n /\ x = y /\ pasted[x.id][x.to] = 0
    BY <1>8, <2>1 DEF DeliveryInv, ClaimIsToken
  <2> QED BY <1>2, <1>7, <2>1 DEF ClaimIsToken, NoSend
<1>10. AtMostOnce'
  BY <1>1, <1>2, <1>3, <1>4 DEF DeliveryInv, AtMostOnce
<1> QED BY <1>6, <1>9, <1>10 DEF DeliveryInv

\* The claim is taken on a row with no send out and nothing typed.
LEMMA ClaimKeeps ==
  ASSUME TypeOK, TypeOK', DeliveryInv, NEW m \in Managers, NEW s \in Sessions,
         ClaimHead(m, s)
  PROVE  DeliveryInv'
<1> DEFINE i == view[m][s].id
           new == [id |-> i, to |-> s, phase |-> "claimed", aside |-> view[m][s].draft]
<1>1. i \in Unclaimed(inbox) /\ i \in DOMAIN inbox
  BY DEF ClaimHead, Claimable, Unclaimed, Queued
<1>2. /\ Rewrites(inbox, inbox')
      /\ i \notin Unclaimed(inbox')
  BY <1>1, ClaimRewrites DEF TypeOK, ClaimHead, ClaimMessage, Claims
<1>3. /\ DOMAIN inbox' \subseteq DOMAIN inbox
      /\ \A j \in DOMAIN inbox' : inbox'[j].to = inbox[j].to
      /\ Unclaimed(inbox') \subseteq Unclaimed(inbox) \ {i}
  BY <1>2, RewritesTable DEF TypeOK
<1>4. UNCHANGED <<nextId, row, pasted>>
  BY DEF ClaimHead, history
<1>5. \A n \in Managers : out'[n] = IF n = m THEN out[n] \cup {new} ELSE out[n]
  BY DEF ClaimHead, TypeOK
<1>6. i < nextId /\ row[s] # "none" /\ i \in Ids
  BY <1>1 DEF ClaimHead, Visiting, DeliveryInv, NothingEarly, TypeOK, IsTable
<1>7. pasted[i][inbox[i].to] = 0 /\ NoSend(i, inbox[i].to)
  BY <1>1 DEF DeliveryInv, ClaimIsToken
<1>8. new.id = i /\ new.to = s
  OBVIOUS
<1> HIDE DEF i, new
<1>9. \A j, t : NoSend(j, t) /\ ~(j = i /\ t = s) => NoSend(j, t)'
  BY <1>5, <1>8 DEF NoSend
<1>10. NothingEarly'
  <2>1. ASSUME NEW j \in Ids, NEW t \in Sessions, j >= nextId \/ row[t] = "none"
        PROVE  pasted[j][t] = 0 /\ NoSend(j, t)'
    <3>1. pasted[j][t] = 0 /\ NoSend(j, t)
      BY <2>1 DEF DeliveryInv, NothingEarly
    <3>2. ~(j = i /\ t = s)
      BY <1>6, <2>1 DEF TypeOK, Ids
    <3> QED BY <1>9, <3>1, <3>2
  <2>2. ASSUME NEW n \in Managers, NEW t \in Sessions
        PROVE  view'[n][t].id = view[n][t].id \/ view'[n][t].id = 0
    BY SeenIsView DEF ClaimHead, Visited, TypeOK
  <2>3. 0 < nextId
    BY DEF TypeOK
  <2>4. ASSUME NEW n \in Managers, NEW t \in Sessions
        PROVE  view'[n][t].id < nextId /\ (row[t] = "none" => view'[n][t].id = 0)
    BY <2>2, <2>3 DEF DeliveryInv, NothingEarly
  <2> QED BY <1>4, <2>1, <2>4 DEF NothingEarly, NoSend
<1>11. ASSUME NEW j \in Unclaimed(inbox'), NEW t, t = inbox'[j].to
       PROVE  pasted[j][t] = 0 /\ NoSend(j, t)'
  <2>1. j \in Unclaimed(inbox) /\ j # i /\ t = inbox[j].to
    BY <1>3, <1>11 DEF Unclaimed, Queued
  <2>2. pasted[j][t] = 0 /\ NoSend(j, t)
    BY <2>1 DEF DeliveryInv, ClaimIsToken
  <2> QED BY <1>9, <2>1, <2>2
<1>12. ASSUME NEW k \in Managers, NEW n \in Managers, NEW x \in out'[k], NEW y \in out'[n],
              x.phase = "claimed", y.phase = "claimed", x.id = y.id, x.to = y.to,
              x.id \in DOMAIN inbox', inbox'[x.id].to = x.to
       PROVE  k = n /\ x = y /\ pasted[x.id][x.to] = 0
  <2>1. x.id \in DOMAIN inbox /\ inbox[x.id].to = x.to
    BY <1>3, <1>12
  <2>2. CASE x.id = i
    <3>1. ASSUME NEW l \in Managers, NEW z \in out'[l], z.id = i, z.to = inbox[i].to
          PROVE  l = m /\ z = new
      BY <1>5, <1>7, <3>1 DEF NoSend
    <3> QED BY <1>7, <1>12, <2>1, <2>2, <3>1
  <2>3. CASE x.id # i
    <3>1. x \in out[k] /\ y \in out[n]
      BY <1>5, <1>8, <1>12, <2>3
    <3> QED BY <1>12, <2>1, <3>1 DEF DeliveryInv, ClaimIsToken
  <2> QED BY <2>2, <2>3
<1>13. AtMostOnce'
  BY <1>3, <1>4 DEF DeliveryInv, AtMostOnce
<1>14. ClaimIsToken'
  BY <1>4, <1>11, <1>12 DEF ClaimIsToken, NoSend
<1> QED BY <1>10, <1>13, <1>14 DEF DeliveryInv

\* A send that changes phase stays the send it was.
LEMMA StepSends ==
  ASSUME TypeOK, NEW m \in Managers, NEW x \in out[m],
         NEW p \in {"pasted", "entered", "failed"}, Step(m, x, p)
  PROVE  \A n \in Managers : \A z \in out'[n] :
           \E y \in out[n] : /\ y.id = z.id /\ y.to = z.to
                             /\ z.phase = "claimed" => z = y /\ ~(n = m /\ y = x)
<1> DEFINE z0 == [x EXCEPT !.phase = p]
<1>1. z0.id = x.id /\ z0.to = x.to /\ z0.phase = p
  BY DEF TypeOK, Sends
<1>2. \A n \in Managers : out'[n] = IF n = m THEN (out[n] \ {x}) \cup {z0} ELSE out[n]
  BY DEF TypeOK, Step
<1> HIDE DEF z0
<1> QED BY <1>1, <1>2

\* Typing spends the claim: the send was the only one yet to type its
\* message there, and nothing had been typed.
LEMMA PasteKeeps ==
  ASSUME TypeOK, TypeOK', DeliveryInv, NEW m \in Managers, NEW x \in out[m],
         Paste(m, x), pane[x.to].up
  PROVE  DeliveryInv'
<1>1. UNCHANGED <<inbox, nextId, row, view>>
  BY DEF Paste
<1>2. \A n \in Managers : \A z \in out'[n] :
        \E y \in out[n] : /\ y.id = z.id /\ y.to = z.to
                          /\ z.phase = "claimed" => z = y /\ ~(n = m /\ y = x)
  BY StepSends DEF Paste
<1>3. x.id \in Ids /\ x.to \in Sessions /\ x.phase = "claimed"
  BY DEF TypeOK, Sends, Paste
<1>4. \A i \in Ids, s \in Sessions :
        pasted'[i][s] = IF i = x.id /\ s = x.to THEN pasted[i][s] + 1 ELSE pasted[i][s]
  BY <1>3 DEF Paste, TypeOK
<1>5. \A i, s : NoSend(i, s) => NoSend(i, s)' /\ ~(i = x.id /\ s = x.to)
  BY <1>2 DEF NoSend
<1>6. \A i \in DOMAIN inbox : i \in Ids /\ inbox[i].to \in Sessions
  BY DEF TypeOK, IsTable, Row
<1>7. NothingEarly'
  <2>1. ASSUME NEW i \in Ids, NEW s \in Sessions, i >= nextId \/ row[s] = "none"
        PROVE  pasted'[i][s] = 0 /\ NoSend(i, s)'
    BY <1>4, <1>5, <2>1 DEF DeliveryInv, NothingEarly
  <2> QED BY <1>1, <2>1 DEF DeliveryInv, NothingEarly
<1>8. ASSUME NEW i \in Unclaimed(inbox), NEW s, s = inbox[i].to
      PROVE  pasted'[i][s] = 0 /\ NoSend(i, s)'
  <2>1. i \in Ids /\ s \in Sessions
    BY <1>6, <1>8 DEF Unclaimed, Queued
  <2>2. pasted[i][s] = 0 /\ NoSend(i, s)
    BY <1>8 DEF DeliveryInv, ClaimIsToken
  <2> QED BY <1>4, <1>5, <2>1, <2>2
<1>9. ASSUME NEW k \in Managers, NEW n \in Managers, NEW y \in out'[k], NEW z \in out'[n],
             y.phase = "claimed", z.phase = "claimed", y.id = z.id, y.to = z.to,
             y.id \in DOMAIN inbox, inbox[y.id].to = y.to
      PROVE  k = n /\ y = z /\ pasted'[y.id][y.to] = 0
  <2>1. y \in out[k] /\ z \in out[n] /\ ~(k = m /\ y = x)
    BY <1>2, <1>9
  <2>2. k = n /\ y = z /\ pasted[y.id][y.to] = 0
    BY <1>9, <2>1 DEF DeliveryInv, ClaimIsToken
  <2>3. ~(y.id = x.id /\ y.to = x.to)
    BY <1>3, <1>9, <2>1 DEF DeliveryInv, ClaimIsToken
  <2> QED BY <1>4, <1>6, <1>9, <2>2, <2>3
<1>10. ClaimIsToken'
  BY <1>1, <1>8, <1>9 DEF ClaimIsToken, NoSend
<1>11. ASSUME NEW i \in DOMAIN inbox PROVE pasted'[i][inbox[i].to] <= 1
  <2>1. pasted[i][inbox[i].to] <= 1
    BY DEF DeliveryInv, AtMostOnce
  <2>2. CASE i = x.id /\ inbox[i].to = x.to
    <3>1. pasted[i][x.to] = 0
      BY <1>3, <2>2 DEF DeliveryInv, ClaimIsToken
    <3> QED BY <1>3, <1>4, <2>2, <3>1
  <2>3. CASE ~(i = x.id /\ inbox[i].to = x.to)
    BY <1>4, <1>6, <2>1, <2>3
  <2> QED BY <2>2, <2>3
<1> QED BY <1>1, <1>7, <1>10, <1>11 DEF DeliveryInv, AtMostOnce

\* Everything else is quiet.
LEMMA CallersKeep ==
  ASSUME TypeOK, TypeOK', DeliveryInv,
         \/ \E d \in Mail : Send(d) \/ Relay(d) \/ TellSender(d) \/ WithdrawMail(d)
         \/ \E i \in Ids : WithdrawUnattested(i)
         \/ \E s \in Sessions : \/ PaneEnds(s) \/ MarkDead(s) \/ ResolveEndedRecipient(s)
                                \/ Relaunch(s)
         \/ \E old, new \in Sessions : ReplaceSession(old, new)
  PROVE  DeliveryInv'
<1>0. Rewrites(inbox, inbox)
  BY DEF Rewrites, Rewritten, TypeOK, IsTable
<1>1. ASSUME NEW d \in Mail, WithdrawMail(d) PROVE Quiet
  BY <1>1, WithdrawRewrites DEF TypeOK, WithdrawMail, Quiet, managerVars, history
<1>2. ASSUME NEW s \in Sessions, PaneEnds(s) PROVE Quiet
  BY <1>0, <1>2 DEF PaneEnds, Quiet, managerVars, history
<1>3. ASSUME NEW s \in Sessions, MarkDead(s) PROVE Quiet
  BY <1>0, <1>3 DEF TypeOK, MarkDead, Quiet, managerVars, history
<1>4. ASSUME NEW s \in Sessions, ResolveEndedRecipient(s) PROVE Quiet
  BY <1>4, DropEndedRewrites DEF TypeOK, ResolveEndedRecipient, Quiet, managerVars, history
<1>5. ASSUME NEW s \in Sessions, Relaunch(s) PROVE Quiet
  BY <1>0, <1>5 DEF TypeOK, Relaunch, Quiet, managerVars, history
<1>6. ASSUME NEW i \in Ids, WithdrawUnattested(i) PROVE Quiet
  BY <1>6, MarkDroppedRewrites
     DEF TypeOK, WithdrawUnattested, Quiet, managerVars, history
<1> QED BY <1>1, <1>2, <1>3, <1>4, <1>5, <1>6, QuietKeeps, ArrivalKeeps, ReplaceKeeps

LEMMA PanesKeep ==
  ASSUME TypeOK, TypeOK', DeliveryInv,
         \/ \E s \in Sessions : \/ AgentWorks(s) \/ AgentRests(s) \/ AgentAsks(s)
                                \/ DialogAnswered(s) \/ OperatorSubmits(s)
         \/ \E i \in Ids : ClaimAges(i)
  PROVE  DeliveryInv'
<1>0. Rewrites(inbox, inbox)
  BY DEF Rewrites, Rewritten, TypeOK, IsTable
<1>1. ASSUME NEW s \in Sessions, NEW from, NEW to, AgentMoves(s, from, to) PROVE Quiet
  BY <1>0, <1>1 DEF AgentMoves, Quiet, managerVars, history
<1>2. ASSUME NEW s \in Sessions, OperatorSubmits(s) PROVE Quiet
  BY <1>0, <1>2 DEF OperatorSubmits, Quiet, managerVars, history
<1>3. ASSUME NEW i \in Ids, ClaimAges(i) PROVE Quiet
  <2>1. Rewrites(inbox, inbox')
    BY <1>3, ClaimRewrites DEF TypeOK, ClaimAges, Queued, Claims
  <2> QED BY <1>3, <2>1 DEF ClaimAges, Quiet, managerVars, history
<1> QED BY <1>1, <1>2, <1>3, QuietKeeps
        DEF AgentWorks, AgentRests, AgentAsks, DialogAnswered

LEMMA PassKeeps ==
  ASSUME TypeOK, TypeOK', DeliveryInv, NEW m \in Managers,
         \/ BeginPass(m) \/ CapturePanes(m)
         \/ \E s \in Sessions : Visit(m, s)
  PROVE  DeliveryInv'
<1>0. Rewrites(inbox, inbox)
  BY DEF Rewrites, Rewritten, TypeOK, IsTable
<1>1. 0 < nextId
  BY DEF TypeOK
<1>2. ASSUME BeginPass(m) PROVE Quiet
  <2>1. Rewrites(inbox, inbox')
    BY <1>2, PruneRewrites DEF TypeOK, BeginPass
  <2>2. ASSUME NEW n \in Managers, NEW s \in Sessions
        PROVE  \/ view'[n][s].id = view[n][s].id
               \/ view'[n][s].id < nextId /\ (row[s] = "none" => view'[n][s].id = 0)
    BY <1>2, HeadOfType DEF TypeOK, BeginPass
  <2> QED BY <1>2, <2>1, <2>2 DEF BeginPass, Quiet, history
<1>3. ASSUME CapturePanes(m) PROVE Quiet
  <2>1. ASSUME NEW n \in Managers, NEW s \in Sessions
        PROVE  view'[n][s].id = view[n][s].id \/ view'[n][s].id = 0
    <3>1. view[n][s] \in View
      BY DEF TypeOK
    <3>2. [view[n][s] EXCEPT !.screen = pane[s].screen, !.draft = pane[s].line].id
            = view[n][s].id
      BY <3>1 DEF View
    <3> QED BY <1>3, <3>2, SeenIsView DEF TypeOK, CapturePanes
  <2> QED BY <1>0, <1>1, <1>3, <2>1 DEF CapturePanes, Quiet, history
<1>4. ASSUME NEW s \in Sessions, Visited(m, s)
      PROVE  \A n \in Managers, t \in Sessions :
               view'[n][t].id = view[n][t].id \/ view'[n][t].id = 0
  BY <1>4, SeenIsView DEF TypeOK, Visited
<1>5. ASSUME NEW s \in Sessions, Wait(m, s) PROVE Quiet
  BY <1>0, <1>1, <1>4, <1>5 DEF Wait, Quiet, history
<1>6. ASSUME NEW s \in Sessions, InterruptForMessage(m, s) PROVE Quiet
  BY <1>0, <1>1, <1>4, <1>6 DEF InterruptForMessage, Quiet
<1>7. ASSUME NEW s \in Sessions, DropUnconfirmed(m, s) PROVE Quiet
  <2>1. Rewrites(inbox, inbox')
    BY <1>7, MarkDroppedRewrites DEF TypeOK, DropUnconfirmed, RetireUnconfirmed
  <2>2. ASSUME NEW n \in Managers, NEW t \in Sessions
        PROVE  view'[n][t].id = view[n][t].id \/ view'[n][t].id = 0
    BY <1>7, SeenIsView DEF TypeOK, DropUnconfirmed, IdlePass
  <2> QED BY <1>1, <1>7, <2>1, <2>2 DEF DropUnconfirmed, Quiet, history
<1>8. ASSUME NEW s \in Sessions, LoseClaim(m, s) PROVE Quiet
  BY <1>0, <1>1, <1>4, <1>8 DEF LoseClaim, Quiet, history
<1> QED BY <1>2, <1>3, <1>5, <1>6, <1>7, <1>8, ClaimKeeps, QuietKeeps DEF Visit

LEMMA SendsKeep ==
  ASSUME TypeOK, TypeOK', DeliveryInv, NEW m \in Managers,
         Progress(m) \/ Crash(m) \/ Start(m)
  PROVE  DeliveryInv'
<1>0. Rewrites(inbox, inbox)
  BY DEF Rewrites, Rewritten, TypeOK, IsTable
<1>1. ASSUME NEW x \in out[m], Paste(m, x), ~pane[x.to].up PROVE Quiet
  BY <1>0, <1>1, StepSends DEF Paste, Quiet
<1>2. ASSUME NEW x \in out[m], PressEnter(m, x) PROVE Quiet
  BY <1>0, <1>2, StepSends DEF PressEnter, Quiet, history
<1>3. ASSUME NEW x \in out[m], Settle(m, x) PROVE Quiet
  <2>1. Rewrites(inbox, inbox')
    BY <1>3, OutcomeRewrites DEF Settle
  <2>2. \A n \in Managers : out'[n] \subseteq out[n]
    BY <1>3 DEF Settle, TypeOK
  <2>3. \A s \in Sessions : row'[s] = "none" => row[s] = "none"
    BY <1>3 DEF Settle, TypeOK
  <2> QED BY <1>3, <2>1, <2>2, <2>3 DEF Settle, Quiet, history
<1>4. ASSUME Crash(m) PROVE Quiet
  <2>1. \A n \in Managers : out'[n] \subseteq out[n]
    BY <1>4 DEF Crash, TypeOK
  <2>2. 0 < nextId
    BY DEF TypeOK
  <2>3. ASSUME NEW n \in Managers, NEW s \in Sessions
        PROVE  view'[n][s].id = view[n][s].id \/ view'[n][s].id = 0
    BY <1>4, SeenIsView DEF Crash, TypeOK, IdlePass
  <2> QED BY <1>0, <1>4, <2>1, <2>2, <2>3 DEF Crash, Quiet, history
<1>5. ASSUME Start(m) PROVE Quiet
  BY <1>0, <1>5 DEF Start, Quiet, history
<1> QED BY <1>1, <1>2, <1>3, <1>4, <1>5, PasteKeeps, QuietKeeps DEF Progress

\* Every step keeps what at-most-once rests on.
LEMMA NextKeepsInv == TypeOK /\ TypeOK' /\ DeliveryInv /\ [Next]_vars => DeliveryInv'
<1> SUFFICES ASSUME TypeOK, TypeOK', DeliveryInv, [Next]_vars PROVE DeliveryInv'
  OBVIOUS
<1>1. CASE UNCHANGED vars
  <2>1. Quiet
    BY <1>1 DEF vars, managerVars, history, Quiet, Rewrites, Rewritten, TypeOK, IsTable
  <2> QED BY <2>1, QuietKeeps
<1>2. CASE Next
  BY <1>2, CallersKeep, PanesKeep, PassKeeps, SendsKeep DEF Next
<1> QED BY <1>1, <1>2

\* The claim in the store is the at-most-once token, for any number of
\* managers and sessions: a message nobody has claimed was never typed to its
\* recipient, and at most one send has yet to type it.
THEOREM ClaimIsTheToken == Spec => []DeliveryInv
<1>1. Init => TypeOK /\ DeliveryInv
  BY InitTypes, InitInv
<1>2. TypeOK /\ DeliveryInv /\ [Next]_vars => TypeOK' /\ DeliveryInv'
  BY NextKeepsTypes, NextKeepsInv
<1> QED BY <1>1, <1>2, PTL DEF Spec

\* However many managers poll one store, are killed between a claim and its
\* paste and start again, and whoever withdraws, forwards or ends in between,
\* a message's text goes into its recipient's pane at most once.
THEOREM DeliveredAtMostOnce == Spec => []AtMostOnce
<1>1. DeliveryInv => AtMostOnce
  BY DEF DeliveryInv
<1> QED BY <1>1, ClaimIsTheToken, PTL
============================================================================
