# Gate Inbox: a TLA+ development

Gate Inbox is a board that runs coding agents in tmux panes.  Sessions, the
operator, extensions and the board itself write to each other's sessions
through one queue in a SQLite database, and a *manager* (the board's process)
types each queued message into its recipient's pane when that pane is at rest.
This directory models that core: the queue, its delivery, what the end of a session,
its relaunch, its filing, its hibernation or its replacement does to it, and what
goes wrong when a process is killed in between.  Around it are four protocols of
processes that share a file or a pipe: the gate channel on which a question is held
for an outside consumer, the relay between an agent's MCP client and its worker, the
queue that spaces relaunches out, and the replacement of a session that is held
until somebody commits it.

## 1. The system

State that outlives a process is `state.db` (SQLite, one writer at a time; a
statement, and a transaction, is atomic) and the tmux server.  Processes come and
go: one or more managers polling every couple of seconds, one MCP server per
session behind a relay, the `gate-inbox` command line, and hooks.  Except for the
relay and its worker, which share a pipe, they never talk to each other directly;
every interaction below is a row or a file written by one and read by another.

| Component | State | Operations | Meets | What is hard | What makes it correct |
|---|---|---|---|---|---|
| Inbox table (`store/inbox.go`) | `session_inbox` rows: recipient, sender, subject, claim, delivered, dropped, superseded, read | Enqueue, ClaimMessage, MarkDelivered, MarkDropped, Withdraw, MarkRead, ForwardInbox, PruneInbox | everyone | compare-and-sets by different processes, limits read inside the insert | a row is queued once, settled once, never comes back; a limit counts what is really waiting |
| Inbox delivery (`ui/poller.go`, `ui/asyncsend.go`, `tmux/tmux.go`) | per manager: what the pass read, sends out, slots, settle stamps, interrupts | poll pass, send off the pass, settle | table, panes | reads go stale during a pass; a send outlives the pass and may outlive its claim's grace; a manager may die at any line | each message typed at most once, in order, only while it is still wanted; a resting queue drains |
| Ended recipients (`store/recipientended.go`) | status and inbox rows | ResolveEndedRecipient, the notices to senders | passes, stop, archive, restart | a death seen by a pass races the command that caused it | a dead row's queue goes, its senders hear once, a living row's queue stays |
| Replacement (`store/replace.go`, `sessioncmd/boardreplace.go`) | session rows, held replacements | ReplaceSession, CommitReplacement, abort, orphan sweep | table, panes | a launch inside a transaction; a hold that is never committed | one seat, one session; no mail is lost with the old pane |
| Session commands (`sessioncmd`) | none of their own | send, relayed answers, stop, restart, revive, archive, park, spawn | everything | checks made before the statement they protect | what the caller is told is what happens |
| Hibernation (`store/hibernate.go`, `sessioncmd/hibernate.go`) | a set of ids in settings | hibernate, wake, settle | ended recipients | the mark is read apart from the drop | a sleeping session keeps its mail |
| Task list (`store/tasks.go`) | who has claimed which task | claim, settle; handed on or back with a session | replacement, ends | a claim outlives the session it is in the name of | whoever claimed a task is on the board |
| Gate channel (`gatechannel`) | `lease.json`; for each call `.hold`, `.claimed`, `.ended`, `.answer`, `.taken` | HoldCall, Deliver, Renew, Release, Pending | hooks, consumers, `channel deliver` | leases that run out under a holder; a rename is the only lock; a hook or a deliver killed between two files | one answer per question, from the consumer it names, and a receipt that is true |
| MCP relay (`mcprelay`) | pending and buffered requests, the worker, backoff, what was announced | client lines, worker lines, ticks | the agent's client, workers, adoption, upgrades | a worker that exits in its handshake; requests under way at an upgrade | every call answered once; the client shows the tools there are |
| Launch pacing (`launchpace`) | one JSON file under a lock | Wait, Try, TryAhead, Record, Cancel | every launcher | processes that hang or die with a slot; statuses of rows that are being relaunched | no more than the configured launches unsettled; one that goes ahead is not passed; everybody's turn comes |
| Manager lock (`singleton`) | a lock file | Acquire, takeover | managers | whom a takeover signals | at most one holder |
| Everything else | see `PROJECT.json` | | | presentation, text recognition, readers of other programs' files | |

## 2. Modules

| Module | What it is |
|---|---|
| `InboxTable` | The `session_inbox` table and every statement that writes it, one operator from table to table per statement. No variables. |
| `Mailbox` | The abstract promise about a message: queued once under a fresh id, in at most one send at a time, settled once, never changed after. |
| `InboxDelivery` | The state machine: table, rows, panes, managers with a pass and sends, senders, deaths, replacements, kills. `PromiseSpec` is `Mailbox` under the refinement mapping `Phase`. |
| `MCInboxDelivery` | Small instances for TLC: the letters that may be sent. |
| `EndedRecipient` | One session's queue, row, pane and hibernation mark while a pass and the session commands end, launch, file and wake it, each in separate writes. |
| `MCEndedRecipient` | Small instances for TLC: who writes, which commands. |
| `GateChannel` | The lease, the files of each held call, the hook that holds it and the commands that answer it, one file operation at a time. |
| `McpRelay` | One relay process, the worker behind it, the client in front of it, and the board that adopts and lets go of its pane. |
| `LaunchPace` | The queue file, the launches it admits in their steps, and what a look takes for a launch at rest. |
| `HeldReplacement` | Replacements at once and held, over session rows, panes, the record of holds and task claims; commit, abort, and the sweep at a start. |
| `MCGateChannel`, `MCMcpRelay`, `MCLaunchPace`, `MCHeldReplacement` | Small instances of these for TLC. |
| `InboxTableProofs` | What each statement keeps of a table, as lemmas. |
| `InboxDeliveryProofs` | Type correctness and at-most-once delivery, proved. |
| `InboxPromiseProofs` | Retired mail never typed, the order of typing, receipts for pastes, a manager's own sends, and the implementation of `Mailbox`, proved. |
| `EndedRecipientProofs` | Types, notices told once, no archive undone by a pass, and a hibernated session's mail, proved. |
| `GateChannelProofs` | Types, one call waiting at a time, receipts, credit, and answers that did not land, proved. |
| `McpRelayProofs` | Types, and that each call is in one place and answered once, proved. |
| `LaunchPaceProofs` | Types, the room there is, and who may not be passed, proved. |
| `HeldReplacementProofs` | Types, holders of claimed work, no work left behind, what runs until it is replaced, and what is on record, proved. |

`InboxDelivery` and `EndedRecipient` look at one program from two sides.  The first has
every step of a send and takes the end of a session as one write (`MarkDead`, made
while the pane is down) and one drop; the second takes a delivery as one step and has
every write a session's end and return are made of, stale ones included.
`HeldReplacement` opens up what is one step of `InboxDelivery`, `ReplaceSession`: there
the queue and the sends under way are at stake, here the panes, the holds and the work.
The other three are protocols of their own, which meet the queue only through the
sessions they launch and the calls they let through.

### How the model follows the code

*The table.*  A row keeps what a statement tests: recipient, sender, subject, body
(its fingerprint), `interrupt`, and of its times only what they are compared to:
`claim` is `none`, `fresh` or `stale` (older than `inboxClaimGrace`, 30 s), and
`age` is the admission window `sent_at` is in.  Rows do not age in
`InboxDelivery`, so the rate, dedupe and pair limits only ever count up there, and
with the code's caps (20, 5 and 8) they are not reached; section 6 plans a module
for them.  `Enqueue` retires what the subject supersedes and inserts, in one step,
as its transaction does; a refusal changes nothing.

*A pass.*  `refreshPass` lists the rows, scans the panes and reads the queue heads
(`BeginPass`), then captures the panes of the sessions with a head
(`CapturePanes`), then visits them one by one (`Visit`).  Between any two of
those, and between any two visits, every other process may move.  What the pass
read is `view[m]`.  `deliverInboxHead`'s early returns are the conjuncts of
`ReadyToSend`, `ReadyToInterrupt` and `ReadyToDrop`, and `Wait` is their
complement.  An error that ends the pass (`DropUnconfirmed`) empties the view.

*A send.*  `runSend` finishes in its own goroutine: `Paste`, the second look at the
pane and the Enter (`PressEnter`), and `settle` (`Settle`).  A paste into a pane
that shows a dialog may be swallowed; one that finds the pane gone fails.

*Other processes.*  `Send`, `Relay` (the board telling a parent of its child, which
tests the parent's row and not its pane), `TellSender` (a notice past every limit),
`WithdrawMail` (extensions only), `WithdrawUnattested` (a relayed answer taken back
by id), `PaneEnds`, `MarkDead`, `ResolveEndedRecipient`, `Relaunch`,
`ReplaceSession`; and the agent and the person at the pane: turns, dialogs, a
composer somebody submits.

*A kill.*  `Crash` empties everything a manager has in memory and leaves the
database and the panes.  `Start` brings it back with nothing.

*A session's end and return* (`EndedRecipient`).  A command is a series of steps
(`StopSteps`, `RestartSteps`, `HibernateSteps`, `ArchiveSteps`, `Relaunch`) in the
order its function writes to tmux and the store, and `todo[p]` is what process p has
left of it.  A pass is such a series too (`PassSteps`): the archived ids, the rows, the
panes, the restore of live archived rows, the flush of what it derived, and
`ResolveEndedRecipient` for the rows it found newly dead.  `seen[m]` is what it read.
`Flush` writes the derived status over whatever the row reads by then, because
`ApplyDerivedStates` does.  `Resolve` is the look at the hibernated set, `Drop` the
transaction, `Tell` one notice; `owed[p]` is the list of dropped messages the
process still holds.  `CutShort` ends any series anywhere: a killed process, or a
refused write where the code does nothing more.  Where it does more the model does too.
Hibernate's stop that fails, in the kill or in what follows it once the pane is gone, takes
the mark off again (`StopFails`); a settling whose wake fails at any point, its agent
perhaps up by then, forgets the mark and resolves the queue (`WakeFails`, `GivenUp`); a
pass that fails after a flush leaves its list of the dead behind (`FlushThenFail`).
`forgotten` and `asleep` are history: was the mark taken off since one was last put on, and
did hibernate end the session under one that has stayed.

*A held question* (`GateChannel`).  A hook's `at` is a line of `HoldCall`: its hold
written, the directory listed, each other call's file looked at, then the poll for an
answer.  `files[c]` says which of a call's files exist; the two renames, `.hold` to
`.claimed` by a consumer and to `.ended` by the hook, are the only lock between them.
`takeAnswer` is `ReadAnswer`, then `TakeAnswer` or `DiscardAnswer` by the token in the
answer.  `Deliver` is `DeliverBegins`, `ClaimHold`, `WriteAnswer` and the wait for the
receipt.  The lease's own operations hold its lock, and are one step each.  `hasty` is
set where a wait of `receiptWait` (3 s) ended although the other side had only its next
step to take.

*The relay* (`McpRelay`).  It is one loop, so a handler is one step, written as an
operator on the relay's record in the order of the function of the same name: `Drop`
answers what was pending and then, as an idle relay would, what was buffered;
`WorkerGone` backs off first; `Check` stops, restarts or starts the worker.  A start may
be refused, or its worker may be gone before its first line.

*A launch* (`LaunchPace`).  A look (`Pacer.try`) is one step under the file's lock:
`Kept`, `MarksKept`, then `MayStart`.  The launch it admits is `Stamp`, `End`, `Create`
and `Live`, in `restart`'s and `relaunch`'s order, and `Rested` reads the row and the
pane those are writing.  A board's own launch asks nobody and is recorded afterwards.
A pass reads a row (`PassLists`), its pane (`PassScans`) and writes what it derived over
whatever the row reads by then (`PassFlushes`), with any steps of launches in between.

*A replacement* (`HeldReplacement`).  `BoardReplace` with and without a hold, the
handle's commit and abort, `dropHeld`, and `AbortOrphanedHolds`.  The reads of a
transaction are where it opens, the panes change while it is open (`tx`), and its rows
are written where it commits: nobody else writes the store meanwhile, anybody may
look at, end or start a pane.  The commands of others are series of writes (`doing`): the
pane ended and then the row marked killed, or dead and then filed, or deleted; a revive that
read the row, waits for its turn, brings the pane up, restores the row if it had read it
archived, and marks it live.  Any of them may stop between two writes (`CommandStops`).
A claim and a settling look for their caller's row and then write without another look at
it, so `ClaimsTask` may land whenever its session has had a row; `late` remembers the claims
that landed on one that was gone or replaced.  The kill of a failed launch's pane may
fail, which the code ignores (`Undo`); `stray` remembers the pane.

### Abstractions, and why they are sound for the properties

- In `EndedRecipient` a status is `live` or `dead`, all that its properties and the
  resolving tell apart; `StatusMoves` lets a pass find one live status turned to
  another, which writes `live`.
- The hibernated set is one settings row.  A process marks and unmarks its own
  session in one step; another session's command, which reads the set and writes the
  whole of it back, is `NeighbourCommand` and `WriteBack`.
- `pace` admits one launch of the session at a time: `launchpace` keeps launches a gap
  apart (at least 5 s) and does not look at another launch of the same id, so this is the
  assumption that a launch takes less than the gap.  `LaunchOutlastsGap = TRUE` drops it.
- Checks made in a row with nothing written between them are one step
  (`hibernateBlocker`, the row and pane `WakeHibernated` looks at, `deliverable`).
- Park and unpark are not commands of `EndedRecipient`: they stop and relaunch with
  the same steps and no promise about the mail.
- One look-and-Enter, and one settle, is one step each.  The window between the
  look and the Enter is milliseconds and nothing checked reads state inside it;
  settle's three statements are each independent of what others write.
- Screens are `rest`, `work`, `dialog`: the status engine's verdict is
  whatever the pane shows when captured.
- A composer (`line`) holds the board's own pastes; a draft a dead manager left is
  one.  What a person has part-typed is held off by the same guard (`draft = {}`),
  and is not a separate value.
- Prune may take any settled row at any pass: retention is a clock's choice.
- Timers fire when they like, under two named assumptions.  `Abandoned`: a draft
  that has stood for `draftHoldLimit` (2 min) is not a paste of this board's still
  waiting for its Enter.  `PasteOutlastsGrace`: whether a paste may still be out
  when its claim is 30 s old (the hold caps it at one second, so it takes a hung
  tmux).  The crash run allows it.  With it, a second manager
  may retire a send that then goes through, so the runs with two managers and with
  a replacement do not.
- Sessions are numbered by creation.  Who is whose parent (`Kin`) is fixed.
- `GateChannel`: answers fit the questions they are for (`validate` refuses others
  before anything is written), and `Pending`, which only reads, is left out.  Tokens are
  numbers in the order they were minted.
- `McpRelay`: a request is a call or a list of the tools; a tool set is the worker's
  version.  The client lists the tools when told that they changed, as the protocol has it.
- `LaunchPace`: time is counted in ticks, and the gap the host's load asks for is any of
  `MinGap..MaxGap` at each look.  A file that cannot be read or locked admits everything
  (`try` fails open) and a clock set back empties the queue: both are left out, as is
  memory pressure, which refuses without a look.  For a board's launch `Record` runs beside the status
  write; here it follows it.
- `LaunchPace`: a pass has each row in hand by itself, at most `MaxPasses` of them at once,
  and keeps of a status whether it is dead.
- `HeldReplacement`: fresh ids are taken in order, as any naming of them would do.  The board's
  own passes write a status in one step here, right or stale (`PassFlushes`).  A row is live or
  dead; where it is filed is its parent.  The order of the list, groups, roles,
  reservations, mail, and the assignment and dependencies of tasks are left out.
- Not in the delivery model: the offline outbox, capacity banners, delivery holds,
  the operator's quiet time, snippet recipients and opencode's second Enter.
  Each only makes `deliverInboxHead` return early (or repeats an Enter), so
  every behaviour with them is one of the model's with `Wait` in their place, except
  for liveness, which is claimed only when none of them holds.

## 3. Runs

All but those marked *violation* finish with no error; deadlock is checked in all but `gate`
and `seats`.

`InboxDelivery`: at most 2 sessions, 1 or 2 messages, one send slot.  One slot is the
tightest case for reservation, and two messages are the least that have an order, a
supersession or a send that races another.  The state is large per message, and
what a third one adds, a longer queue behind the same head, the proofs cover.

| Run | Instance | Shows |
|---|---|---|
| `crash` | 1 session, 2 messages, one may interrupt, one kill, slow pastes, fairness | a manager never retires its own send; mail for a resting session is typed or retired; the table implements `Mailbox` across a kill at any line |
| `two_managers` | 1 session, 2 messages, 2 managers, an extension that corrects and withdraws | one claim, one paste; nothing retired while it waited is typed; order |
| `ends` | parent and child writing to each other, one takes input mid-turn, a pane ends at any moment | at most once, honest receipts and the promise through deaths, drops, notices and relaunches, with one slot shared by two panes |
| `replace` | a replacement takes the seat at any moment, an extension corrects and withdraws | the table still implements `Mailbox`: a message handed over is sent by one send at a time and settled once |

`EndedRecipient`: one session.  Two commands at once, and two or three begun in all,
are enough for each to meet the other between any two of its steps; one pane that ends
by itself, or one failure, is enough to come between any two.  `commands` leaves out
`restart`, a stop and a revival in one, which `deaths` has; and `deaths` leaves out
failures, archive and hibernate, with which its property does not hold (section 4).
`hibernate` has what puts a session to sleep and what wakes it, twice over, with a failure
of any stop, wake or write; it is a safety property, so its boards and its callers may be
taken as symmetric.

| Run | Instance | Shows |
|---|---|---|
| `commands` | all other commands, 2 callers, 2 begun, 1 pass, 1 settler, 1 failure, fairness | notices once; a pass never undoes a fresh archive; mail wakes; the row comes to read what the pane is; no agent stays up under an archived row |
| `hibernate` | hibernate, sends that wake, relayed mail, 2 managers, 1 settler, 2 callers, 3 begun, 1 failure, boards and callers symmetric | a sleeping session's mail is not dropped while its mark stands, by what passes saw of its end or by a wake or stop that fails |
| `deaths` | stop, send, relay, restart, 3 begun, 1 exit, fairness | without failures, a death resolves the queue and every sender hears |
| `restart` | *violation* | finding 1 |

The four protocols.  Each is symmetric in what there are two of, and two of it is what
it takes to race.  `gate`: a second consumer for a lease that changes hands, a second
call for `anotherHeld`, a second answer for the claim; three of the four processes may
start, three changes of the lease are a take, a lapse and another's take, and one
process is killed or starved.  `relay`: one call under way and one behind it; two
moves of the pane take it away and give it back as another row; three faults, one more
than the backoff has levels.  `pace`: three callers, in three plans that mix the four
ways to ask and have two callers meet at one session, in one the board's own launch among them;
with a limit of one unsettled launch and two for those ahead, so that a third is
refused; the waits are the shortest that differ, and a pass has one row in hand at a time,
since what matters is its write to the row of the launch it read before.  `seats`: two replacements, so that
the second may be of the same session or of the first's fresh one; two faults are a
failure and the crash that follows it; one act is a command in all its writes, and a
claim or its settling may land at any time besides.  `gate` and `seats` may stop: every call is over,
every id used.

| Run | Instance | Shows |
|---|---|---|
| `gate` | 2 calls, 2 consumers, 2 answers, 3 processes, 1 fault, fairness | a receipt is true, the answer is its consumer's, one call waits, an answer that claimed the hold is used, and every held question is answered or drawn |
| `relay` | 2 calls, 2 rows, 2 moves, 1 upgrade, 3 faults, fairness | each call is in one place and is answered once; the tools the client shows settle on those of the worker there is |
| `pace` | 3 callers, 3 sessions, 1 row in a pass, 1 fault, fairness | never more launches unsettled than the limit, as far as rows and looks can tell, none ahead passed, every waiter admitted |
| `seats` | 1 session, on the board or filed, 2 replacements, 1 task, 1 act, 2 faults, fairness | claimed work has a holder and moves with its seat; a held session is on record; the old one runs until it is replaced; a start settles what a killed board left |

Every property has a mutant of the code under which the same run refutes it
(`PROJECT.json`); the mutated definitions stand beside the originals, marked
*Variant*, and nothing else uses them.

**Fairness** (`crash`).  Weak fairness on each manager's pass steps and visits, on the
progress of its sends, on its being started again, and on a claim's ageing.  The
pass is on a ticker and visits every session; each wait inside a send is capped
(`settle`'s look at the pane, the paste echo); starting again is the operator's
doing, assumed only in that the board is not left off for ever; time passes.  Nothing
is assumed of senders, agents or of when sessions end, and the claim itself is made
only for a session that stays at rest and whose tool can clear its composer.

**Fairness** (`commands`, `deaths`).  Weak fairness on
beginning a pass and on settling, which the board does on a ticker, and on the steps of
whatever series a process is in, until `CutShort` ends it.  Nothing is assumed of
commands being given, of panes ending or of `Deliver`.

**Fairness** (`gate`).  Weak fairness on the steps of hooks and delivers and on
deadlines: processes run and clocks advance.  Nothing makes a consumer answer, renew or
release.

**Fairness** (`relay`).  Weak fairness on the relay's loop, its ticker, the client's
listing and a living worker's answers.  Nothing makes the board or the operator move, and
their moves are finitely many, since no loop can settle for a row that keeps changing.

**Fairness** (`pace`).  Weak fairness on time and on the looks of waiters and the steps
of launches.  An agent need not come to rest, a sweep need not look again.

**Fairness** (`seats`).  Weak fairness on a killed board being started and on the steps
of its sweep.

In the last four one weak fairness condition covers the steps of several processes.  In
each, every process has finitely many steps before it waits on another, so none of
them can starve the rest; the joint condition is the weaker assumption.

## 4. Findings

1. *A restart can lose its queue* (the run `restart`).  A pass that scanned while the restart
   had the pane down derives dead, writes it over the live row and then finds the row
   dead, as `ResolveEndedRecipient` asks.  The guard that `ui/poller.go:1175-1177` relies
   on reads what the pass itself wrote; `docs/usage.md:457` says a restart keeps the queue.

What follows is seen with a change to a configuration and has no run of its own.  The
first three are stated as properties.

2. *A message handed to a replacement can be lost with the old pane.*  `ForwardedNotLost`
   fails in the instance of `replace` with `ClearKeys = {1}`, `Mail <- Plain` and
   `PasteOutlastsGrace = TRUE`.  A send settles by id.  If the replacement moves the row,
   clears its claim and ends the old pane while a send is out, the failed paste marks the
   row dropped under its new owner.  `store/inbox.go:484-487` moves claimed rows
   precisely so that no report is lost.
3. *Interrupt keys can be sent twice.*  `InterruptKeysOnce` fails in the instance of
   `crash` with `Mail <- Urgent` and one message.  `poller.interrupts` is memory
   only; a manager restarted while the message waits sends Escape again, against
   `ui/poller.go:2040`.
4. *A session just hibernated can be forgotten.*  `StoppedUnderMark` fails in the instance
   of `hibernate` with one manager, one caller, the command `hibernate` and no failure.
   Between the mark and the row's dead status `HibernatedToSettle` takes it for one that came
   back, and forgets it before its pane goes; `sessioncmd/hibernate.go:197-199` puts the mark
   in first so that a pass never reads the row as ended.  A send in between wakes it
   and takes the mark off too (`:302`).  So may another session's command:
   `addToIDSet` and `removeFromIDSet` read the whole set and write the whole of it
   (`store/park.go:114-134`), and two sessions' marks can overwrite each other.  And a
   stop that fails once the pane is gone, in clearing the status file or recording
   the end, takes the mark off by design (`:222-225`), with the row still live.  Then a pass
   that listed the row live and sees the pane missing drops the queue, and one that lists
   it dead leaves it queued with nothing to wake the session.  `HibernatedKeepsMail`
   leaves these out (`forgotten`), and with them a resolution that had looked for the mark
   before there was one and drops after the stop.  A wake that fails after its agent is up
   (`:254-268`) forgets the mark and resolves the queue, of which the store drops
   nothing unless the row reads dead, as it does until the relaunch has written it live.
5. *A queue can be filed with its session.*  `DeathResolves` fails with the commands `send`
   and `archive` and one exit.  `file` resolves the queue of a session it finds running.
   One whose pane ended before a pass saw it is filed with its mail still queued, and
   passes skip filed rows; `docs/usage.md:457` says such mail is retired.
6. *What a failure leaves of a death.*  `deaths` with `MaxFaults = 1`: a process killed
   between the commit of a drop and its notices (`store/recipientended.go:95`) leaves
   senders untold for good; and a child whose dead row is flushed before its parent is told
   keeps its queue when the parent's is full, because the pass fails before the child is
   on the list to resolve (`ui/poller.go:1140-1156`) and the next pass finds no change.
   Without any failure, and outside the premise of `DeathResolves`: a send that looked at the
   pane before a stop (`sessioncmd/session.go:1286`) and queues its message after the stop's
   resolution leaves it queued under a row that reads dead, which no later pass
   resolves, until the session is launched again.
7. *A replacement that fails late has ended the old session.*  `sessioncmd/boardreplace.go:29-31`
   says that a failure anywhere leaves the old session running as it was.  The old pane is
   ended inside the transaction: a commit that fails, or a board killed before it,
   rolls the rows back and leaves the agent gone.  `OldRunsOn` leaves out exactly that
   (`swapped` forgets the pane in `Write` and `Crash`).
8. *Two in one seat.*  Two holds on one session may both commit, the second taking a seat
   with nothing left in it; and a session revived between `takeSeat`'s look at its pane and the
   transaction runs on beside its successor, since the pane is ended only if it was seen.
   Nor is a hold's abort safe against its own session's revival between the kill of
   the pane and the delete of the row, which leaves an agent without a row (`woken` in
   `HeldOnRecord`).  A launch killed between its pane and its row leaves a pane
   that nothing records, unless it was held.  And when a held launch fails after its pane is
   up and the kill that takes the pane back fails as well, its error is ignored and the
   deferred `ClearHold` runs all the same (`boardreplace.go:70-76`, `91-92`): a fresh agent
   runs with no row and no record, and no start finds it (`stray` in `HeldOnRecord`).
9. *A launch being made is taken for one at rest.*  `relaunchRested` answers yes for a row
   that reads dead, and a restart's row reads dead between its end and its launch, as a
   revival's does until it is up.  A look by another process in between drops its
   entry, and the next launch is admitted after the gap alone, against
   `launchpace/launchpace.go:10-13`.  So it is with a launch long made: a pass that listed the
   row live and scanned while the restart had its pane down writes dead over the live
   row (finding 1), and until the next pass a look takes the busy young launch for one
   at rest.  `RoomKept` is stated for launches nobody looked at while they were made or
   while their rows read dead, and whose pane nobody else had taken before they were
   recorded (`early`).  And a look for a session takes that session's entries and marks
   away whoever made them: a routine `Try` removes the mark of a `TryAhead` that still waits, against
   `launchpace.go:206-209`.
10. *A dialog that is not on screen.*  `Deliver` says of an answer it takes back that the
    dialog stays on screen.  If the wait ends between the hook's read of `.answer` and its
    `.taken`, the hook has used the answer and the consumer is told that it did not
    land; the `.taken` is left behind.  `UndeliveredIsDrawn` is stated for waits that
    outlast those two steps (`hasty`).

11. *A claim can land on a session that is gone.*  `ClaimTask` looks for its caller and then
    claims with an `UPDATE` that looks at the task alone (`sessioncmd/task.go:420-442`,
    `store/tasks.go:110-117`).  One that waits for the transaction that replaces, files or
    deletes its session lands after it: the task is in progress in the name of a
    session that will not finish it, and nothing hands it on or back until that session, if
    it has a row, is ended again.  `ClaimsHaveHolders` and `NoWorkLeftBehind`
    leave those claims out (`late`).

One more is seen in the delivery model and has no property of its own: `SendAttested`
queues the message, then records the attestation, and on failure drops the message by id
(`WithdrawUnattested`).  A send that has claimed it is not stopped, and the caller is
told that it was withdrawn.

## 5. Proofs

Every safety property a passing run checks is the statement of a theorem here, for all
values of the constants; each invariant below was model-checked before it was proved.

`EndedRecipientProofs`, for every value of the constants that satisfies
`RecipientAssumption` (the three kinds of process are apart; each letter has a sender).

- `NoticesOnce`: `Spec => []NoticesAccounted`.  Inductive with the types of `mail`, `told`
  and `owed` beside it.  Only what is queued is dropped, so nobody owes a notice of it
  yet; what a notice names leaves the one list it is on.
- `NoArchiveUndone`: `Spec => RestoredOnlyIfRun`.  The invariant is `MendInv`.  An agent
  up under an archived row was launched under it or outlived the archive (`FiledRan`,
  first half).  A pass reads the archived ids before the panes, so an agent it saw,
  under a filing that still stands, was up after that filing (second half); that needs
  the order of a pass as an invariant, which `ViewsOld` states: no pane read is held
  at a point of the series before the scan, and no filing read is of the future.
- `RecipientTyped`: `Spec => []TypeOK`.  What is not obvious is the bound on `filings`: each
  archive that has still to file the row is a call made and not yet counted, so the filings
  and those archives together are at most the calls (`CallInv`).
- `SleeperKeepsMail`: `Spec => HibernatedKeepsMail`, with every command, any number of
  settlers and whatever fails.  `SleepInv`: whoever is about to stop a session for its sleep
  finds it marked, unless the mark was taken off since one was put on; and a session
  that was stopped under its mark is marked as long as it sleeps, with nobody past the
  look at the mark.  The stop of a hibernation and a drop are each the first step of a series
  or follow the look that allows them at once, which is what `Orderly` says of every series.
  So whoever resolves the queue of a sleeping session looks at the mark, and finds it.

`InboxTableProofs` and `InboxDeliveryProofs`, for every value of the constants that
satisfies `InboxAssumption` and `DeliveryAssumption` (sizes are naturals, the operator
and extensions are not sessions, nobody writes to themselves).

- `TypeCorrect`: `Spec => []TypeOK`.
- `ClaimIsTheToken`: `Spec => []DeliveryInv`.
- `DeliveredAtMostOnce`: `Spec => []AtMostOnce`.

*Argument.*  At-most-once is not inductive: nothing in it stops a second send that is
already out from pasting.  `ClaimIsToken` says why there is none.  A row whose claim is
empty has never been typed to its recipient and has no send out for it, so the
compare-and-set that takes the claim starts the only one; and of the sends that have
still to paste to a row's present recipient there is at most one, with nothing typed.
Replacement is the delicate step, because it empties claims: it is sound only
because the new recipient's row did not exist, so nothing can have been typed or be
on its way there.  `NothingEarly` is that fact, for ids not yet handed out and for
sessions not yet made.  `DeliveryInv` is the conjunction.  The per-action work rests
on one relation on tables, `Rewrites` (rows stay with their recipients and no claim is
given up), which every statement satisfies except the three that add a row (`Grows`)
and `Forward`; and most actions are `Quiet`: they rewrite the table and neither paste,
nor start a send, nor make a row.

`InboxPromiseProofs`, under the same assumptions.

- `RetiredStaysUntyped`: `Spec => []RetiredNeverTyped`.  `RetiredInv` widens the first
  half of `ClaimIsToken` from the rows still queued to every row without a claim, settled
  ones too (`Waits`): a statement that settles a row leaves its claim as it is, and only
  `Forward` clears one.
- `DeliveredIsPasted`: `InitialSessions = NSessions /\ Spec => []DeliveredWasPasted`.
  Where no session is made nothing is replaced, and what a pass read or a send holds is
  addressed to the session it was read for (`AtHome`).  The assumption is needed: a send
  settles by id, so one to a replaced session's pane marks delivered a row that is by then
  addressed to the new one, where it was never typed.
- `TypedInOrder`: `Spec => QueueOrder`, with replacements or without.  `Ordered`: what a pass
  read as a session's head was the oldest message waiting for that session and is so
  still, and so is what is out to it.  Ids grow, statements only take from a queue what
  they `Moves`, and a queue handed on goes to a session for which nothing was read or sent.
- `OwnSendsKept`: `InitialSessions = NSessions /\ Spec => OwnSendNotAbandoned`.  A manager
  keeps the ids of its sends in `sending` until they settle, one send for each
  (`OwnSends`), and what a pass read of a message that is out is that it was claimed.  The
  assumption is needed: in the instance of `replace` with `Mail <- Plain`, one message,
  `SendSlots = 2` and `PasteOutlastsGrace = TRUE` the property fails.  A message handed
  on loses its claim while its first send is out, the same manager begins a second
  under the same id, and the first to settle takes the id from `sending` for both.
- `KeepsThePromise`: `Spec => PromiseSpec`, with replacements or without.  `Stands` is the
  refinement mapping row by row; each statement `Moves` some rows to where they stand next,
  adds one (`Joins`) or hands a queue on, and `Kinds` sorts the steps of `Next` by which of
  these they do.  Without replacement `AtHome` and `ClaimIsToken` make what a send
  delivers a claimed row.

`GateChannelProofs`, for any calls, consumers and deliveries under `ChannelAssumption`
(`None` names none of them, the bounds are naturals).

- `ChannelTyped`: `Spec => []TypeOK`.
- `OneWaitsAlways`: `Spec => []OneWaits`.  Two calls may both have a hold: each writes
  its own before it looks for another's, so of two in force one has yet to look at the
  other's or will, having looked, draw its dialog.  That is `OneGivesWay`.
- `ReceiptsTruthful`: `Spec => []ReceiptTruthful`.  The rename of `.hold` lets one
  delivery through and gives the call an owner for good (`OneOwner`), so the answer the
  hook reads is that delivery's, and the receipt follows what it took (`Receipts`).
- `CreditsRight`: `Spec => []CreditedRight`.  A token stands for one consumer wherever it
  is kept: in the lease, with its consumer, in a hold or in an answer (`OneHolder`, over
  the set `Grants` of all of them); so an answer with the hold's token is from the consumer
  the hold was shown to (`Credited`).
- `UndeliveredDrawn`: `Spec => []UndeliveredIsDrawn`.  A hold can be claimed only
  while its hook may still read an answer, or was killed (`HoldsClaimable`); from the claim
  to the report, an answer is on its way, has been taken, or meets a hook that is past
  taking any (`Lands`).  `hasty`, a wait cut short between the hook's read and its
  receipt, is left out by the property (finding 10) and so by the invariant.

`McpRelayProofs`, for any number of calls, rows, moves, upgrades and faults under
`RelayAssumption`.

- `RelayTyped`: `Spec => []TypeOK`.
- `CallsInOnePlace`: `Spec => []CallsAccounted`.  The relay's handlers are operators on
  one record (`Now`), each made of smaller ones, so the argument goes by operators
  rather than by actions: each keeps the record `Sound` and `Settles` what it was given,
  which is that every call the relay had, or was handed, is answered once or still
  had.  `Sound` says why: calls are buffered only during a handshake, a pending one is
  with a living worker, on its way in or out, and in a handshake the worker has nothing but
  the greeting, so that a worker's exit finds every call in `buffered` or `pending`.
  `Ledger` then joins the relay's side to the client's.

`LaunchPaceProofs`, for any callers, sessions and limits under `PaceAssumption` (the waits
and limits are positive, the gap's bounds in order, `MaxInFlight` not above `AheadInFlight`,
as the constants of `launchpace.go` are).

- `PaceTyped`: `Spec => []TypeOK`.
- `NotPassed`: `Spec => AheadFirst`, because a mark outlives what its caller was
  promised (`MarkStands`).
- `RoomAlways`: `Spec => RoomKept`, whatever passes write.  A launch that is still waited
  on has an entry of its own on file, at least as young as it is (`Filed`), and its
  pane does not look rested once it is made (`Shown`).  A look drops such an entry only if
  its row reads dead, or for another launch of the same session, and either makes the launch
  `early`.  So a look keeps an entry for each of the launches the property counts, and counting
  callers is counting entries: the room a look sees is the room there is.

`HeldReplacementProofs`, for any sessions, replacements and tasks under
`ReplacementAssumption` (old and fresh sessions are apart, and neither is the root).

- `ReplacementTyped`: `Spec => []TypeOK`, with `Targets`: what has begun, or is on record,
  knows what it replaces.
- `ClaimsHeld`: `Spec => []ClaimsHaveHolders`, for claims that were not `late` (finding 11).
  A claim moves only in the transaction that moves the seat, and the fresh session is on
  the board and not archived by then; `Steady` says so of every step of it, the unwinding of
  a failed one and a crash included.  Whatever takes a row off the board, of the commands of
  others the same write that archives or deletes it, hands the claims back in that write.
- `OldRunsOnHolds`: `Spec => []OldRunsOn`, and `NoWorkIsLeftBehind`:
  `Spec => []NoWorkLeftBehind`.  Both rest on `Seats`: a session whose pane a replacement has
  ended either is the target of the transaction that is at its last step, or is
  off the board for good, or succeeded, and has no claims but late ones.  A commit that fails
  or is interrupted is left out (finding 7).
- `HeldOnRecordHolds`: `Spec => []HeldOnRecord`.  `Recorded` follows each hold from its record
  through the pane and the row to the removal of the record, an abort and a sweep
  included: where the record is removed the session is out, or has its row and is
  filed elsewhere than under the session it would replace.  A pane that a failed launch
  could not end, or that somebody revived, is left out (finding 8).  `Lineage` is what a row's
  place rests on: replacements go one way and never come round, so no session is ever
  filed under itself.

Only model-checked: the liveness properties (`RestingQueueDrains`, `HoldEnds`, `CallsAnswered`,
`ToolsSettle`, `WaitersAdmitted`, `OrphansAborted`, `MailWakes`, `RowCatchesUp`,
`NoneRunsFiled`, `DeathResolves`, `SendersHear`), which are out of the proof system's
reach.  `RestartKeepsQueue` is false (finding 1), as is `StoppedUnderMark` (finding 4).  Outside
their premises, `DeliveredWasPasted` and `OwnSendNotAbandoned` fail, as said above.

## 6. Plan

What is left, in order of importance.

1. `InboxAdmission`: the five limits with ageing windows and small caps, refused
   inserts that undo their retirement, and what `MarkRead` says of rows nobody saw.
2. Abstract specifications for the gate channel and the relay (a call is asked once and
   answered once), to be shown implemented as `Mailbox` is.
3. `EndedRecipient`: park and unpark.
4. The manager lock's takeover: whom it signals and which pane it closes.

## 7. Not modelled

The manager lock (`singleton`): that one process holds it is the kernel's `flock`; whom a
takeover signals and which pane it closes is the program's own, and nothing modelled
here depends on it, since the delivery model runs two managers at once.  In the
modelled components: the admission limits of the inbox (rows do not age, so the caps of
20, 5 and 8 are not reached and nothing is claimed of them), park and unpark, spawn, the
ordering and grouping of rows, and the parts of the poller that derive statuses, preview
panes, relay pending inputs and recover from usage limits.

Presentation (`ui` outside the poller), text recognition (`status`, `dialog`, `asks`,
`codexq`), readers of other programs' files (`convo`, `search`, `opencode`), outside
services (`forge`, `jev`, `netwatch`), configuration, diagnostics and packaging.
They decide nothing about the queue; where one of them feeds a decision (a screen's
status, a draft in a composer) the models leave the answer open.
