--------------------------- MODULE InboxDelivery ---------------------------
(***************************************************************************)
(* How a queued message reaches a prompt.  A manager's poll pass           *)
(* (internal/ui/poller.go) reads the head of every session's queue and the *)
(* screen of its pane, claims the head in the store, and hands the paste   *)
(* to a send (internal/ui/asyncsend.go) that finishes off the pass: it     *)
(* writes the text into the pane, looks at the pane again, presses Enter   *)
(* and records the outcome (internal/tmux/tmux.go).  Meanwhile sessions    *)
(* send, supersede and withdraw, recipients end and are relaunched or      *)
(* replaced, managers are killed and started, and a second manager may     *)
(* poll the same store.                                                    *)
(*                                                                         *)
(* A pass reads rows and heads (BeginPass), then screens (CapturePanes);    *)
(* what it does with them happens later, one session at a time.            *)
(***************************************************************************)
EXTENDS InboxTable

CONSTANTS
  Managers,           \* board processes polling this store
  TypeAhead,          \* sessions whose tool queues input typed mid-turn
  ClearKeys,          \* sessions whose tool can empty its composer
  Mail,               \* what may be sent
  InitialSessions,    \* sessions that exist at the start
  SendSlots,          \* pastes one manager may have out (sendsInFlight)
  PasteOutlastsGrace, \* may a paste still be out when its claim is 30s old?
  MaxCrashes, MaxEnds \* bounds: managers killed, recipients ended

ASSUME DeliveryAssumption ==
  /\ Mail \subseteq {d \in Drafts : d.from # d.to}
  /\ InitialSessions \in 0..NSessions
  /\ SendSlots \in Nat \ {0}
  /\ PasteOutlastsGrace \in BOOLEAN
  /\ MaxCrashes \in Nat /\ MaxEnds \in Nat

VARIABLES
  inbox, nextId,   \* the table, and the id its next row gets (AUTOINCREMENT)
  row,             \* each session's row: absent, or what its status reads
  pane,            \* each session's tmux pane
  running,         \* the managers that are up
  view,            \* what a manager's pass read and has not yet acted on
  out,             \* a manager's sends between the claim and the release
  sending,         \* poller.sending: ids with a paste out
  settled,         \* poller.settledAt, since the pass captured the panes
  interrupted,     \* poller.interrupts
  crashes, ends,
  pasted,          \* history: how often a message's text went into a pane
  escapes          \* history: how often a message's interrupt keys were sent

managerVars == <<running, view, out, sending, settled, interrupted>>
history == <<pasted, escapes>>
vars == <<inbox, nextId, row, pane, managerVars, crashes, ends, history>>

Screens == {"rest", "work", "dialog"}
Pane == [up : BOOLEAN, screen : Screens, line : SUBSET Ids]
NewPane == [up |-> TRUE, screen |-> "rest", line |-> {}]
NoPane == [up |-> FALSE, screen |-> "rest", line |-> {}]

\* id 0: nothing to do for the session on this pass.
\* "unread": the head is read, the screen is not captured yet.
View == [id : 0..MaxMessages, claim : Claims, screen : Screens \cup {"unread"},
         draft : SUBSET Ids]
Seen == [id |-> 0, claim |-> "none", screen |-> "rest", draft |-> {}]

\* aside: the draft setDraftAside lifted out of the composer.
Sends == [id : Ids, to : Sessions, phase : {"claimed", "pasted", "entered", "failed"},
          aside : SUBSET Ids]

TypeOK ==
  /\ IsTable(inbox)
  /\ nextId \in 1..MaxMessages + 1
  /\ DOMAIN inbox \subseteq 1..nextId - 1
  /\ row \in [Sessions -> {"none", "live", "dead"}]
  /\ pane \in [Sessions -> Pane]
  /\ running \in SUBSET Managers
  /\ view \in [Managers -> [Sessions -> View]]
  /\ out \in [Managers -> SUBSET Sends]
  /\ sending \in [Managers -> SUBSET Ids]
  /\ settled \in [Managers -> SUBSET Sessions]
  /\ interrupted \in [Managers -> SUBSET Ids]
  /\ crashes \in 0..MaxCrashes /\ ends \in 0..MaxEnds
  /\ pasted \in [Ids -> [Sessions -> Nat]]
  /\ escapes \in [Ids -> Nat]

IdlePass == [s \in Sessions |-> Seen]

Init ==
  /\ inbox = << >> /\ nextId = 1
  /\ row = [s \in Sessions |-> IF s <= InitialSessions THEN "live" ELSE "none"]
  /\ pane = [s \in Sessions |-> IF s <= InitialSessions THEN NewPane ELSE NoPane]
  /\ running = Managers
  /\ view = [m \in Managers |-> IdlePass]
  /\ out = [m \in Managers |-> {}]
  /\ sending = [m \in Managers |-> {}]
  /\ settled = [m \in Managers |-> {}]
  /\ interrupted = [m \in Managers |-> {}]
  /\ crashes = 0 /\ ends = 0
  /\ pasted = [i \in Ids |-> [s \in Sessions |-> 0]]
  /\ escapes = [i \in Ids |-> 0]

---------------------------------------------------------------------------
(* The other processes: every one a call into the store. *)

Arrives(d) ==
  /\ nextId <= MaxMessages
  /\ d.from \in Sessions => row[d.from] # "none"
  /\ nextId' = nextId + 1
  /\ UNCHANGED <<row, pane, managerVars, crashes, ends, history>>

\* A send is refused for a pane that is not there and by the limits.
Send(d) ==
  /\ Arrives(d)
  /\ pane[d.to].up
  /\ Admitted(inbox, d)
  /\ inbox' = SendMessage(inbox, nextId, d)

\* A pass tells a parent of its child's dialog or rest.  The parent's row is
\* looked at, not its pane, and nothing counts as read.
Relay(d) ==
  /\ Arrives(d)
  /\ <<d.to, d.from>> \in Kin
  /\ row[d.to] = "live"
  /\ Admitted(inbox, d)
  /\ inbox' = Enqueue(inbox, nextId, d)

\* A sender is told that its message went with its recipient.
TellSender(d) ==
  /\ Arrives(d)
  /\ d.to \in Sessions /\ row[d.to] # "none" /\ d.subj = NoSubject /\ ~d.interrupt
  /\ \E i \in DOMAIN inbox : inbox[i].ended /\ inbox[i].to = d.from /\ inbox[i].from = d.to
  /\ inbox' = InsertNotice(inbox, nextId, d)

\* A parent's relayed answer whose attestation could not be recorded: taken
\* back by id, after it was on the queue for anyone to claim.
WithdrawUnattested(i) ==
  /\ i \in Queued(inbox)
  /\ <<inbox[i].from, inbox[i].to>> \in Kin
  /\ inbox' = MarkDropped(inbox, i)
  /\ UNCHANGED <<nextId, row, pane, managerVars, crashes, ends, history>>

\* Only an extension takes back what it sent.
WithdrawMail(d) ==
  /\ d.from \in Extensions
  /\ Withdrawable(inbox, d.to, d.from, d.subj) # {}
  /\ inbox' = Withdraw(inbox, d.to, d.from, d.subj)
  /\ UNCHANGED <<nextId, row, pane, managerVars, crashes, ends, history>>

\* The row of a pane that is gone reads dead, by a pass or by the command
\* that ended it.
PaneEnds(s) ==
  /\ pane[s].up /\ ends < MaxEnds
  /\ pane' = [pane EXCEPT ![s] = NoPane]
  /\ ends' = ends + 1
  /\ UNCHANGED <<inbox, nextId, row, managerVars, crashes, history>>

MarkDead(s) ==
  /\ row[s] = "live" /\ ~pane[s].up
  /\ row' = [row EXCEPT ![s] = "dead"]
  /\ UNCHANGED <<inbox, nextId, pane, managerVars, crashes, ends, history>>

ResolveEndedRecipient(s) ==
  /\ row[s] = "dead"
  /\ Undropped(inbox, s) # {}
  /\ inbox' = DropEnded(inbox, s)
  /\ UNCHANGED <<nextId, row, pane, managerVars, crashes, ends, history>>

Relaunch(s) ==
  /\ row[s] = "dead" /\ ~pane[s].up
  /\ pane' = [pane EXCEPT ![s] = NewPane]
  /\ row' = [row EXCEPT ![s] = "live"]
  /\ UNCHANGED <<inbox, nextId, managerVars, crashes, ends, history>>

\* The new row takes the old one's queue and the old pane is ended, all
\* inside the transaction.
ReplaceSession(old, new) ==
  /\ row[old] # "none" /\ row[new] = "none"
  /\ \A s \in Sessions : row[s] = "none" => new <= s
  /\ row' = [row EXCEPT ![old] = "dead", ![new] = "live"]
  /\ pane' = [pane EXCEPT ![old] = NoPane, ![new] = NewPane]
  /\ inbox' = Forward(inbox, old, new)
  /\ UNCHANGED <<nextId, managerVars, crashes, ends, history>>

---------------------------------------------------------------------------
(* The agent in a pane, the person at it, and the clock. *)

AgentMoves(s, from, to) ==
  /\ pane[s].up /\ pane[s].screen = from
  /\ pane' = [pane EXCEPT ![s].screen = to]
  /\ UNCHANGED <<inbox, nextId, row, managerVars, crashes, ends, history>>

AgentWorks(s) == AgentMoves(s, "rest", "work")
AgentRests(s) == AgentMoves(s, "work", "rest")
AgentAsks(s) == AgentMoves(s, "work", "dialog")
DialogAnswered(s) == AgentMoves(s, "dialog", "work")

\* Enter submits everything in the composer, whoever pressed it.
Submit(s) == pane' = [pane EXCEPT ![s].screen = "work", ![s].line = {}]

OperatorSubmits(s) ==
  /\ pane[s].up /\ pane[s].screen # "dialog" /\ pane[s].line # {}
  /\ Submit(s)
  /\ UNCHANGED <<inbox, nextId, row, managerVars, crashes, ends, history>>

SendsOf(i) == {m \in running : \E x \in out[m] : x.id = i}

\* inboxClaimGrace passes.  A paste is capped at a second, so it outlasts
\* the thirty only when something it waits on hangs.
ClaimAges(i) ==
  /\ i \in Queued(inbox) /\ inbox[i].claim = "fresh"
  /\ PasteOutlastsGrace \/ SendsOf(i) = {}
  /\ inbox' = [inbox EXCEPT ![i].claim = "stale"]
  /\ UNCHANGED <<nextId, row, pane, managerVars, crashes, ends, history>>

---------------------------------------------------------------------------
(* The pass. *)

\* What the pass reads first of a session it will visit: a live row with a
\* pane, and the head of its queue.
HasHead(s) == \E i \in Ids : IsHead(inbox, s, i)
Head(s) == CHOOSE i \in Ids : IsHead(inbox, s, i)

HeadOf(s) ==
  IF row[s] = "live" /\ pane[s].up /\ HasHead(s)
    THEN [id |-> Head(s), claim |-> inbox[Head(s)].claim, screen |-> "unread", draft |-> {}]
    ELSE Seen

\* Every three hundredth pass prunes first; which rows are past their
\* retention is the clock's choice.
BeginPass(m) ==
  /\ m \in running /\ view[m] = IdlePass
  /\ \E old \in SUBSET Settled(inbox) :
       /\ inbox' = Prune(inbox, old)
       /\ view' = [view EXCEPT ![m] = [s \in Sessions |-> HeadOf(s)]]
  /\ UNCHANGED <<nextId, row, pane, running, out, sending, settled, interrupted,
                 crashes, ends, history>>

Unread(m) == \E s \in Sessions : view[m][s].screen = "unread"

\* Then every such pane is captured, in one batch; one that cannot be read is
\* left out of the pass.  A stamp older than the capture holds nothing.
CapturePanes(m) ==
  /\ m \in running /\ Unread(m)
  /\ view' = [view EXCEPT ![m] = [s \in Sessions |->
        IF view[m][s].id = 0 \/ ~pane[s].up THEN Seen
        ELSE [view[m][s] EXCEPT !.screen = pane[s].screen, !.draft = pane[s].line]]]
  /\ settled' = [settled EXCEPT ![m] = {}]
  /\ UNCHANGED <<inbox, nextId, row, pane, running, out, sending, interrupted,
                 crashes, ends, history>>

Typeable(s, v) == v.screen = "rest" \/ (v.screen = "work" /\ s \in TypeAhead)

\* The head interrupts a turn the pass saw at work.
Interrupts(v) == /\ v.id \in DOMAIN inbox /\ inbox[v.id].interrupt
                 /\ v.screen = "work" /\ v.claim = "none"

\* A draft has stood in the composer for draftHoldLimit, so no paste of this
\* board's is still waiting for its Enter there.
Abandoned(s) == ~\E m \in running : \E x \in out[m] : x.to = s /\ x.phase = "pasted"

ReadyToSend(m, s) ==
  LET v == view[m][s] IN
  /\ s \notin settled[m]
  /\ Typeable(s, v)
  /\ v.claim = "none"
  /\ Interrupts(v) => v.id \in interrupted[m]
  /\ v.draft = {} \/ (s \in ClearKeys /\ Abandoned(s) /\ pane[s].up)
  /\ Cardinality(out[m]) < SendSlots

ReadyToInterrupt(m, s) ==
  LET v == view[m][s] IN
  /\ s \notin settled[m]
  /\ Interrupts(v) /\ v.id \notin interrupted[m]
  /\ v.draft = {} /\ pane[s].screen = "work"

\* Variant: the board's own sends are not told from a dead one's.
ReadyToDropOwnSends(m, s) ==
  /\ s \notin settled[m]
  /\ Typeable(s, view[m][s])
  /\ view[m][s].claim = "stale"

\* Variant: a claim is waited for, however old.
ReadyToDropNever(m, s) == ReadyToDropOwnSends(m, s) /\ view[m][s].id \in sending[m]

ReadyToDrop(m, s) ==
  LET v == view[m][s] IN
  /\ s \notin settled[m]
  /\ Typeable(s, v)
  /\ v.claim = "stale"
  /\ v.id \notin sending[m]

Visiting(m, s) == m \in running /\ view[m][s].id # 0 /\ ~Unread(m)
Visited(m, s) == view' = [view EXCEPT ![m][s] = Seen]

\* Nothing can be done for the session on this pass.
Wait(m, s) ==
  /\ Visiting(m, s)
  /\ ~ReadyToSend(m, s) /\ ~ReadyToInterrupt(m, s) /\ ~ReadyToDrop(m, s)
  /\ Visited(m, s)
  /\ UNCHANGED <<inbox, nextId, row, pane, running, out, sending, settled,
                 interrupted, crashes, ends, history>>

\* Escape stops the turn; the message follows on a later pass.
InterruptForMessage(m, s) ==
  LET i == view[m][s].id IN
  /\ Visiting(m, s) /\ ReadyToInterrupt(m, s)
  /\ pane' = [pane EXCEPT ![s].screen = "rest"]
  /\ interrupted' = [interrupted EXCEPT ![m] = @ \cup {i}]
  /\ escapes' = [escapes EXCEPT ![i] = @ + 1]
  /\ Visited(m, s)
  /\ UNCHANGED <<inbox, nextId, row, running, out, sending, settled, crashes,
                 ends, pasted>>

\* Variant: an unconfirmed message is given another try.
RetireByRetry(i) ==
  IF i \in Queued(inbox) THEN [inbox EXCEPT ![i].claim = "none"] ELSE inbox

RetireUnconfirmed(i) == MarkDropped(inbox, i)

\* A claim past its grace is retired rather than risked twice.  The drop is
\* an error to the pass, which ends there.
DropUnconfirmed(m, s) ==
  /\ Visiting(m, s) /\ ReadyToDrop(m, s)
  /\ inbox' = RetireUnconfirmed(view[m][s].id)
  /\ view' = [view EXCEPT ![m] = IdlePass]
  /\ UNCHANGED <<nextId, row, pane, running, out, sending, settled,
                 interrupted, crashes, ends, history>>

\* reserveSend, setDraftAside, ClaimMessage: the message is this send's.
ClaimHead(m, s) ==
  LET v == view[m][s] IN
  /\ Visiting(m, s) /\ ReadyToSend(m, s)
  /\ Claimable(inbox, v.id)
  /\ inbox' = ClaimMessage(inbox, v.id)
  /\ out' = [out EXCEPT ![m] = @ \cup
        {[id |-> v.id, to |-> s, phase |-> "claimed", aside |-> v.draft]}]
  /\ sending' = [sending EXCEPT ![m] = @ \cup {v.id}]
  /\ pane' = IF v.draft = {} THEN pane ELSE [pane EXCEPT ![s].line = {}]
  /\ Visited(m, s)
  /\ UNCHANGED <<nextId, row, running, settled, interrupted, crashes, ends, history>>

\* Somebody else claimed or retired it since the pass read it: the slot goes
\* back, the key with it, and a draft set aside is typed back.
LoseClaim(m, s) ==
  /\ Visiting(m, s) /\ ReadyToSend(m, s)
  /\ ~Claimable(inbox, view[m][s].id)
  /\ sending' = [sending EXCEPT ![m] = @ \ {view[m][s].id}]
  /\ pane' = IF view[m][s].draft = {} THEN pane
             ELSE [pane EXCEPT ![s].line = view[m][s].draft]
  /\ Visited(m, s)
  /\ UNCHANGED <<inbox, nextId, row, running, out, settled, interrupted,
                 crashes, ends, history>>

---------------------------------------------------------------------------
(* The send, off the pass. *)

Step(m, x, phase) == out' = [out EXCEPT ![m] = (@ \ {x}) \cup {[x EXCEPT !.phase = phase]}]

\* claimPane: one paste at a time in a pane, within one manager.
PaneFree(m, s) == ~\E x \in out[m] : x.to = s /\ x.phase = "pasted"

\* A dialog on screen may swallow the text.
Paste(m, x) ==
  /\ m \in running /\ x.phase = "claimed" /\ PaneFree(m, x.to)
  /\ IF pane[x.to].up
       THEN /\ \E swallowed \in {pane[x.to].screen = "dialog", FALSE} :
                 pane' = IF swallowed THEN pane
                         ELSE [pane EXCEPT ![x.to].line = @ \cup {x.id}]
            /\ pasted' = [pasted EXCEPT ![x.id][x.to] = @ + 1]
            /\ Step(m, x, "pasted")
       ELSE Step(m, x, "failed") /\ UNCHANGED <<pane, pasted>>
  /\ UNCHANGED <<inbox, nextId, row, running, view, sending, settled,
                 interrupted, crashes, ends, escapes>>

\* The pane is read once more before the Enter: a dialog holds it.
PressEnter(m, x) ==
  /\ m \in running /\ x.phase = "pasted"
  /\ IF pane[x.to].up /\ pane[x.to].screen # "dialog"
       THEN Submit(x.to) /\ Step(m, x, "entered")
       ELSE Step(m, x, "failed") /\ UNCHANGED pane
  /\ UNCHANGED <<inbox, nextId, row, running, view, sending, settled,
                 interrupted, crashes, ends, history>>

\* Variant: the error of the send is not looked at.
OutcomeUnchecked(x) == MarkDelivered(inbox, x.id)

\* Variant: a send that failed puts its message back on the queue.
OutcomeRetried(x) ==
  IF x.phase = "entered" THEN MarkDelivered(inbox, x.id) ELSE RetireByRetry(x.id)

Outcome(x) ==
  IF x.phase = "entered" THEN MarkDelivered(inbox, x.id) ELSE MarkDropped(inbox, x.id)

\* settle: the outcome goes to the store, the draft back into the composer,
\* and the slot and its key are given up.
Settle(m, x) ==
  /\ m \in running /\ x.phase \in {"entered", "failed"}
  /\ inbox' = Outcome(x)
  /\ row' = IF x.phase = "entered" /\ row[x.to] # "none"
              THEN [row EXCEPT ![x.to] = "live"] ELSE row
  /\ pane' = IF pane[x.to].up THEN [pane EXCEPT ![x.to].line = @ \cup x.aside] ELSE pane
  /\ out' = [out EXCEPT ![m] = @ \ {x}]
  /\ sending' = [sending EXCEPT ![m] = @ \ {x.id}]
  /\ settled' = [settled EXCEPT ![m] = @ \cup {x.to}]
  /\ UNCHANGED <<nextId, running, view, interrupted, crashes, ends, history>>

---------------------------------------------------------------------------
(* A manager is killed, with everything it held in memory; another starts. *)

Crash(m) ==
  /\ m \in running /\ crashes < MaxCrashes
  /\ crashes' = crashes + 1
  /\ running' = running \ {m}
  /\ view' = [view EXCEPT ![m] = IdlePass]
  /\ out' = [out EXCEPT ![m] = {}]
  /\ sending' = [sending EXCEPT ![m] = {}]
  /\ settled' = [settled EXCEPT ![m] = {}]
  /\ interrupted' = [interrupted EXCEPT ![m] = {}]
  /\ UNCHANGED <<inbox, nextId, row, pane, ends, history>>

Start(m) ==
  /\ m \notin running
  /\ running' = running \cup {m}
  /\ UNCHANGED <<inbox, nextId, row, pane, view, out, sending, settled,
                 interrupted, crashes, ends, history>>

---------------------------------------------------------------------------
Visit(m, s) == \/ Wait(m, s) \/ InterruptForMessage(m, s) \/ DropUnconfirmed(m, s)
               \/ ClaimHead(m, s) \/ LoseClaim(m, s)

Progress(m) == \E x \in out[m] : Paste(m, x) \/ PressEnter(m, x) \/ Settle(m, x)

Next ==
  \/ \E d \in Mail : Send(d) \/ Relay(d) \/ TellSender(d) \/ WithdrawMail(d)
  \/ \E i \in Ids : WithdrawUnattested(i)
  \/ \E s \in Sessions : \/ PaneEnds(s) \/ MarkDead(s) \/ ResolveEndedRecipient(s)
                         \/ Relaunch(s)
                         \/ AgentWorks(s) \/ AgentRests(s) \/ AgentAsks(s) \/ DialogAnswered(s)
                         \/ OperatorSubmits(s)
  \/ \E old, new \in Sessions : ReplaceSession(old, new)
  \/ \E i \in Ids : ClaimAges(i)
  \/ \E m \in Managers : \/ BeginPass(m) \/ CapturePanes(m) \/ Crash(m) \/ Start(m) \/ Progress(m)
                         \/ \E s \in Sessions : Visit(m, s)

Spec == Init /\ [][Next]_vars

\* The board polls on a timer, finishes the sends it has out, and is started
\* again after it is killed; time passes.  Nothing is assumed of the
\* senders, of the agents, or of when anything ends.
Fairness ==
  /\ \A m \in Managers :
       /\ WF_vars(BeginPass(m)) /\ WF_vars(CapturePanes(m))
       /\ WF_vars(Start(m)) /\ WF_vars(Progress(m))
       /\ \A s \in Sessions : WF_vars(Visit(m, s))
  /\ \A i \in Ids : WF_vars(ClaimAges(i))

FairSpec == Spec /\ Fairness

---------------------------------------------------------------------------
(* Safety. *)

\* Delivery is at most once: however many managers poll, are killed and
\* start again, a message's text is put into the pane of the session it is
\* addressed to no more than once.
AtMostOnce == \A i \in DOMAIN inbox : pasted[i][inbox[i].to] <= 1

\* Why it holds.
NoSend(i, s) == \A m \in Managers : \A x \in out[m] : ~(x.id = i /\ x.to = s)

\* An id not handed out yet is nowhere, nor is anything for a session whose
\* row is not made yet.
NothingEarly ==
  /\ \A i \in Ids, s \in Sessions :
       i >= nextId \/ row[s] = "none" => pasted[i][s] = 0 /\ NoSend(i, s)
  /\ \A m \in Managers, s \in Sessions :
       /\ view[m][s].id < nextId
       /\ row[s] = "none" => view[m][s].id = 0

\* A row anybody may claim has not been typed and has no send out; a send
\* that has not pasted yet is the only such one, and nothing was typed.
ClaimIsToken ==
  /\ \A i \in Unclaimed(inbox) :
       pasted[i][inbox[i].to] = 0 /\ NoSend(i, inbox[i].to)
  /\ \A m, n \in Managers : \A x \in out[m], y \in out[n] :
       (/\ x.phase = "claimed" /\ y.phase = "claimed"
        /\ x.id = y.id /\ x.to = y.to
        /\ x.id \in DOMAIN inbox /\ inbox[x.id].to = x.to)
         => m = n /\ x = y /\ pasted[x.id][x.to] = 0

\* The claim in the store is the at-most-once token: a message nobody has
\* claimed was never typed and has no send out, and of the sends that still
\* have to type it to its recipient there is at most one.
DeliveryInv == NothingEarly /\ ClaimIsToken /\ AtMostOnce

\* A message superseded or withdrawn while it waited never reaches its
\* recipient's pane, though a pass may have read it as the head before.
RetiredNeverTyped ==
  \A i \in DOMAIN inbox :
    (inbox[i].superseded # 0 \/ (inbox[i].dropped /\ inbox[i].claim = "none"))
      => pasted[i][inbox[i].to] = 0

\* What the table calls delivered went into the pane: the receipt a sender
\* is given is never for a paste that failed.
DeliveredWasPasted ==
  \A i \in DOMAIN inbox :
    (inbox[i].delivered /\ ~inbox[i].dropped /\ inbox[i].superseded = 0)
      => pasted[i][inbox[i].to] = 1

\* Mail is typed in the order it was queued: nothing is pasted into a pane
\* over an older message still waiting for the same session.
QueueOrder ==
  [][\A i \in Ids, s \in Sessions :
       pasted'[i][s] > pasted[i][s] =>
         \A j \in QueuedFor(inbox, s) : j >= i]_vars

\* A manager retires as unconfirmed no message whose own paste is still out,
\* however long the pane takes.
OwnSendNotAbandoned ==
  [][\A m \in Managers, s \in Sessions :
       DropUnconfirmed(m, s) => ~\E x \in out[m] : x.id = view[m][s].id]_vars

\* What two of the code's comments promise.  No run checks these: TLC refutes both,
\* and section 4 of the README names the instances.

\* A paste that fails drops only mail addressed to the pane it failed in: a
\* message a replacement has taken over is not lost with the old pane
\* (store/inbox.go, ForwardInbox).
ForwardedNotLost ==
  [][\A m \in Managers : \A x \in out[m] :
       (Settle(m, x) /\ x.phase = "failed" /\ x.id \in Queued(inbox))
         => inbox[x.id].to = x.to]_vars

\* The interrupt keys are never sent twice for one message (ui/poller.go,
\* interruptForMessage).
InterruptKeysOnce == \A i \in Ids : escapes[i] <= 1

(* Liveness. *)

Resting(s) == row[s] = "live" /\ pane[s].up /\ pane[s].screen = "rest"

\* Mail for a session that comes to rest does not wait for ever: whatever
\* was killed between a claim and its paste, each message is typed in or
\* retired.
RestingQueueDrains ==
  \A s \in ClearKeys : <>[]Resting(s) =>
    \A i \in Ids : i \in QueuedFor(inbox, s) ~> i \notin QueuedFor(inbox, s)

---------------------------------------------------------------------------
(* What the table promises, message by message: see Mailbox. *)

Phase(i) ==
  IF i >= nextId THEN "unsent"
  ELSE IF i \notin DOMAIN inbox THEN "pruned"
  ELSE IF inbox[i].superseded # 0 THEN "superseded"
  ELSE IF inbox[i].dropped THEN "dropped"
  ELSE IF inbox[i].delivered THEN "delivered"
  ELSE IF inbox[i].claim # "none" THEN "claimed"
  ELSE "queued"

Promise == INSTANCE Mailbox WITH
             phase <- [i \in Ids |-> Phase(i)],
             Handover <- InitialSessions < NSessions
PromiseSpec == Promise!Spec
===========================================================================
