--------------------------- MODULE EndedRecipient ---------------------------
(***************************************************************************)
(* What becomes of one session's queue when the session ends.  A pass of   *)
(* the board (internal/ui/poller.go) and the session commands              *)
(* (internal/sessioncmd) each end, launch, file and wake sessions in a      *)
(* series of separate writes to the store and to tmux; nothing holds them  *)
(* apart.  `todo[p]' is the rest of the series process p is in, and every  *)
(* other process may move between two of its steps.                        *)
(*                                                                         *)
(* How a message is typed is InboxDelivery's subject: here it is one step. *)
(***************************************************************************)
EXTENDS Naturals, Sequences, FiniteSets

CONSTANTS
  Managers,      \* boards, each with one poll pass at a time
  Settlers,      \* a board's goroutine that settles the hibernated set
  Callers,       \* processes that run a session command
  Letters,       \* what may be sent to the session
  SentBy,        \* each letter's sender
  Silent,        \* senders who are told nothing: the operator, extensions,
                 \* sessions archived or gone
  Commands,      \* the commands callers run in this instance
  LaunchOutlastsGap,    \* may a launch take longer than launchpace's gap?
  StatusMoves,          \* may a pass find one live status turned to another?
  MaxCalls, MaxExits, MaxFaults   \* bounds: commands run, panes that end by
                                  \* themselves, steps that fail or are killed

Procs == Managers \cup Settlers \cup Callers
Senders == {SentBy[l] : l \in Letters}

ASSUME RecipientAssumption ==
  /\ Managers \cap (Settlers \cup Callers) = {} /\ Settlers \cap Callers = {}
  /\ SentBy \in [Letters -> Senders]
  /\ LaunchOutlastsGap \in BOOLEAN /\ StatusMoves \in BOOLEAN
  /\ MaxCalls \in Nat /\ MaxExits \in Nat /\ MaxFaults \in Nat

VARIABLES
  status, archived, \* the session's row
  hibernated,       \* is its id in the settings row hibernated_sessions?
  pane,             \* is its pane up?
  mail,             \* where each letter is
  told,             \* in how many notices to its sender each letter is named
  todo,             \* the steps each process has still to make
  seen,             \* what each manager's pass read
  copy,             \* the hibernated set as a caller read it
  owed,             \* dropped letters whose notice a process has still to write
  calls, exits, faults,
  forgotten,        \* history: the mark was taken off since one was last put on
  asleep,           \* history: hibernate ended it, and since then its mark was
                    \* left on and no agent launched
  filings, ranFiled \* history: times archived; has it run since the last one?

row == <<status, archived>>
letters == <<mail, told, owed>>
bounds == <<calls, exits, faults>>
filing == <<filings, ranFiled>>
sleep == <<forgotten, asleep>>
history == <<sleep, filing>>
vars == <<row, hibernated, pane, letters, todo, seen, copy, bounds, history>>

Statuses == {"live", "dead"}
Steps == {"filed", "list", "scan", "mend", "flush", "resolve", "drop", "tell",
          "mark", "unmark", "forget", "writeback", "kill", "doze", "dozed", "dead", "pace",
          "create", "restore", "live", "file", "wake", "look", "post"}
Seen == [filed : BOOLEAN, filing : 0..MaxCalls, archived : BOOLEAN,
         status : Statuses, pane : BOOLEAN]
Nothing == [filed |-> FALSE, filing |-> 0, archived |-> FALSE,
            status |-> "live", pane |-> FALSE]

Init ==
  /\ status = "live" /\ archived = FALSE /\ hibernated = FALSE /\ pane = TRUE
  /\ mail = [l \in Letters |-> "unsent"] /\ told = [l \in Letters |-> 0]
  /\ todo = [p \in Procs |-> <<>>] /\ seen = [m \in Managers |-> Nothing]
  /\ copy = [c \in Callers |-> FALSE] /\ owed = [p \in Procs |-> {}]
  /\ calls = 0 /\ exits = 0 /\ faults = 0
  /\ forgotten = FALSE /\ asleep = FALSE
  /\ filings = 0 /\ ranFiled = FALSE

Idle(p) == todo[p] = <<>>
At(p, step) == ~Idle(p) /\ Head(todo[p]) = step
Go(p, steps) == todo' = [todo EXCEPT ![p] = steps]
After(p) == Tail(todo[p])
StillTo(p, step) == \E i \in 1..Len(todo[p]) : todo[p][i] = step

QueuedLetters == {l \in Letters : mail[l] = "queued"}

-----------------------------------------------------------------------------
(* The series of steps each command and each pass is made of. *)

\* Variant: the panes are scanned before the archived ids are read.
PassStepsPanesFirst == <<"list", "scan", "filed", "mend", "flush">>
PassSteps == <<"filed", "list", "scan", "mend", "flush">>
\* relaunch; restoreRelaunched looks at the row as the command read it.
Relaunch == <<"create">> \o (IF archived THEN <<"restore">> ELSE <<>>)
            \o <<"live", "unmark">>
\* Variant: a kill leaves the queue to the next pass.
StopStepsUnresolved == <<"unmark", "kill", "dead">>
StopSteps == <<"unmark", "kill", "dead", "resolve">>
RestartSteps == <<"pace", "kill", "dead">> \o Relaunch
\* Variant: the session is marked once its agent is gone.
HibernateStepsMarkLast == <<"doze", "mark", "dozed">>
HibernateSteps == <<"mark", "doze", "dozed">>
ArchiveSteps ==
  (IF pane THEN <<"kill", "dead", "resolve">> ELSE <<>>) \o <<"unmark", "file">>

Call(c, command, steps) ==
  /\ command \in Commands /\ Idle(c) /\ calls < MaxCalls
  /\ calls' = calls + 1 /\ Go(c, steps)
  /\ UNCHANGED <<row, hibernated, pane, letters, seen, exits, faults, history>>

\* Sessions.Kill
Stop(c) == Call(c, "stop", StopSteps) /\ UNCHANGED copy
\* An account switch or a grant restarts a running session.
Restart(c) == pane /\ Call(c, "restart", RestartSteps) /\ UNCHANGED copy
Revive(c) == ~pane /\ Call(c, "revive", <<"pace">> \o Relaunch) /\ UNCHANGED copy
Archive(c) == Call(c, "archive", ArchiveSteps) /\ UNCHANGED copy
Restore(c) == archived /\ Call(c, "archive", <<"restore">>) /\ UNCHANGED copy
\* hibernateBlocker: at rest, running, and nothing waiting for it.
Hibernate(c) ==
  /\ ~archived /\ status = "live" /\ pane /\ QueuedLetters = {}
  /\ Call(c, "hibernate", HibernateSteps) /\ UNCHANGED copy

\* Sessions.Send wakes a hibernated session, whoever sends (wakeForSend).
SendWakes(c) ==
  /\ hibernated /\ ~archived
  /\ Call(c, "send", (IF pane THEN <<"unmark">> ELSE <<"pace">> \o Relaunch)
                     \o <<"look", "post">>)
  /\ UNCHANGED copy
\* Its tracker's send brings back a child that is filed or gone (restoreForSend).
SendRestores(c) ==
  /\ ~hibernated \/ archived
  /\ ~pane \/ archived
  /\ Call(c, "send", (IF pane THEN <<>> ELSE <<"pace">> \o Relaunch)
                     \o (IF archived THEN <<"restore">> ELSE <<>>)
                     \o <<"look", "post">>)
  /\ UNCHANGED copy
Send(c) ==
  /\ ~hibernated \/ archived
  /\ Call(c, "send", <<"look", "post">>) /\ UNCHANGED copy
\* enqueueChildRest and its kin look at the row and not at the pane.
Relay(c) ==
  /\ status = "live" /\ ~archived
  /\ Call(c, "relay", <<"post">>) /\ UNCHANGED copy

\* The same command for another session rewrites the whole set (park.go).
NeighbourCommand(c) ==
  /\ Call(c, "neighbour", <<"writeback">>)
  /\ copy' = [copy EXCEPT ![c] = hibernated]

\* Variant: mail is not looked at.
DueByRow == hibernated /\ (status = "live" \/ archived)
\* HibernatedToSettle, asked on every poll: what in the set needs something done.
Due == hibernated /\ (status = "live" \/ archived \/ QueuedLetters # {})
Settle(s) ==
  /\ Idle(s) /\ Due /\ Go(s, <<"wake">>)
  /\ UNCHANGED <<row, hibernated, pane, letters, seen, copy, bounds, history>>

BeginPass(m) ==
  /\ Idle(m) /\ Go(m, PassSteps)
  /\ UNCHANGED <<row, hibernated, pane, letters, seen, copy, bounds, history>>

-----------------------------------------------------------------------------
(* Writes to the row and the set. *)

Dead(p) ==
  /\ At(p, "dead") \/ At(p, "dozed")
  /\ status' = "dead" /\ Go(p, After(p))
  /\ UNCHANGED <<archived, hibernated, pane, letters, seen, copy, bounds, history>>
Live(p) ==
  /\ At(p, "live") /\ status' = "live" /\ Go(p, After(p))
  /\ UNCHANGED <<archived, hibernated, pane, letters, seen, copy, bounds, history>>
File(p) ==
  /\ At(p, "file") /\ archived' = TRUE /\ Go(p, After(p))
  /\ filings' = filings + 1 /\ ranFiled' = pane
  /\ UNCHANGED <<status, hibernated, pane, letters, seen, copy, bounds, sleep>>
RestoreRow(p) ==
  /\ At(p, "restore") /\ archived' = FALSE /\ Go(p, After(p))
  /\ UNCHANGED <<status, hibernated, pane, letters, seen, copy, bounds, history>>
Mark(p) ==
  /\ At(p, "mark") /\ hibernated' = TRUE /\ Go(p, After(p))
  /\ forgotten' = FALSE
  /\ UNCHANGED <<row, pane, letters, seen, copy, bounds, asleep, filing>>
\* RemoveHibernated, of a command and of the board that settles the set
Unmark(p) ==
  /\ At(p, "unmark") \/ At(p, "forget")
  /\ hibernated' = FALSE /\ Go(p, After(p))
  /\ forgotten' = TRUE /\ asleep' = FALSE
  /\ UNCHANGED <<row, pane, letters, seen, copy, bounds, filing>>
WriteBack(c) ==
  /\ At(c, "writeback") /\ hibernated' = copy[c] /\ Go(c, After(c))
  /\ forgotten' = (forgotten \/ ~copy[c]) /\ asleep' = (asleep /\ copy[c])
  /\ UNCHANGED <<row, pane, letters, seen, copy, bounds, filing>>

(* The pane. *)

Kill(p) ==
  /\ At(p, "kill") /\ pane' = FALSE /\ Go(p, After(p))
  /\ UNCHANGED <<row, hibernated, letters, seen, copy, bounds, history>>
\* hibernateStop's kill.  Who is past its look at the mark may still drop the
\* queue of a session stopped after that (ResolveEndedRecipient).
Doze(p) ==
  /\ At(p, "doze") /\ pane' = FALSE /\ Go(p, After(p))
  /\ asleep' = (asleep \/ (pane /\ ~forgotten /\ \A q \in Procs : ~At(q, "drop")))
  /\ UNCHANGED <<row, hibernated, letters, seen, copy, bounds, forgotten, filing>>
\* The kill, or what follows it once the pane is gone, fails: the mark comes off.
StopFails(p) ==
  /\ At(p, "doze") \/ At(p, "dozed")
  /\ faults < MaxFaults /\ faults' = faults + 1
  /\ Go(p, <<"unmark">>)
  /\ UNCHANGED <<row, hibernated, pane, letters, seen, copy, calls, exits, history>>

\* Between admission and the row's new status; the pacer skips a launch of the
\* same session, so only its gap keeps the next one out.
Launching(q) == StillTo(q, "live") /\ ~StillTo(q, "pace")
Pace(p) ==
  /\ At(p, "pace")
  /\ LaunchOutlastsGap \/ \A q \in Procs \ {p} : ~Launching(q)
  /\ Go(p, After(p))
  /\ UNCHANGED <<row, hibernated, pane, letters, seen, copy, bounds, history>>
Create(p) ==
  /\ At(p, "create") /\ ~pane
  /\ pane' = TRUE /\ Go(p, After(p))
  /\ asleep' = FALSE /\ ranFiled' = (ranFiled \/ archived)
  /\ UNCHANGED <<row, hibernated, letters, seen, copy, bounds, forgotten, filings>>
GivenUp == <<"forget", "resolve">>
\* A launch that fails ends the command; a settler gives the session up.
CreateFails(p) ==
  /\ At(p, "create")
  /\ \/ pane /\ UNCHANGED faults
     \/ faults < MaxFaults /\ faults' = faults + 1
  /\ Go(p, IF p \in Settlers THEN GivenUp ELSE <<>>)
  /\ UNCHANGED <<row, hibernated, pane, letters, seen, copy, calls, exits, history>>

\* WakeHibernated with one row of the set: forget it, or launch it.
Wake(s) ==
  /\ At(s, "wake")
  /\ Go(s, IF archived \/ status = "live" THEN <<"forget">>
           ELSE IF pane THEN <<"unmark">> ELSE <<"pace">> \o Relaunch)
  /\ UNCHANGED <<row, hibernated, pane, letters, seen, copy, bounds, history>>
\* A wake that fails anywhere, its agent perhaps up by then, gives the session up.
WakeFails(s) ==
  /\ \E step \in {"pace", "restore", "live", "unmark"} : At(s, step)
  /\ faults < MaxFaults /\ faults' = faults + 1
  /\ Go(s, GivenUp)
  /\ UNCHANGED <<row, hibernated, pane, letters, seen, copy, calls, exits, history>>

-----------------------------------------------------------------------------
(* Mail. *)

\* runtime.deliverable: a refused send ends the call.
Look(c) ==
  /\ At(c, "look")
  /\ Go(c, IF archived \/ ~pane THEN <<>> ELSE After(c))
  /\ UNCHANGED <<row, hibernated, pane, letters, seen, copy, bounds, history>>
Post(c) ==
  /\ At(c, "post") /\ Go(c, After(c))
  /\ \/ \E l \in Letters : mail[l] = "unsent" /\ mail' = [mail EXCEPT ![l] = "queued"]
     \/ (\A l \in Letters : mail[l] # "unsent") /\ UNCHANGED mail
  /\ UNCHANGED <<row, hibernated, pane, told, owed, seen, copy, bounds, history>>

\* ResolveEndedRecipient looks for the mark before its transaction.
Resolve(p) ==
  /\ At(p, "resolve")
  /\ Go(p, (IF hibernated THEN <<>> ELSE <<"drop">>) \o After(p))
  /\ UNCHANGED <<row, hibernated, pane, letters, seen, copy, bounds, history>>

\* Variant: the rows are selected by delivered_at alone.
WaitingOrDropped(l) == mail[l] \in {"queued", "dropped"}
Waiting(l) == mail[l] = "queued"
\* The transaction: nothing unless the row reads dead.
Drop(p) ==
  /\ At(p, "drop")
  /\ LET gone == IF status = "dead" THEN {l \in Letters : Waiting(l)} ELSE {}
         news == {l \in gone : SentBy[l] \notin Silent}
     IN /\ mail' = [l \in Letters |-> IF l \in gone THEN "dropped" ELSE mail[l]]
        /\ owed' = [owed EXCEPT ![p] = news]
        /\ Go(p, (IF news = {} THEN <<>> ELSE <<"tell">>) \o After(p))
  /\ UNCHANGED <<row, hibernated, pane, told, seen, copy, bounds, history>>

\* One notice to one sender, an insert of its own.
OwedTo(p, s) == {l \in owed[p] : SentBy[l] = s}
\* Variant: the first notice ends the loop.
LeftToTellNone(p, s) == owed[p] \cap {}
LeftToTell(p, s) == owed[p] \ OwedTo(p, s)
Tell(p) ==
  /\ At(p, "tell")
  /\ \E s \in Senders :
       /\ OwedTo(p, s) # {}
       /\ told' = [l \in Letters |-> told[l] + IF l \in OwedTo(p, s) THEN 1 ELSE 0]
       /\ owed' = [owed EXCEPT ![p] = LeftToTell(p, s)]
       /\ Go(p, IF LeftToTell(p, s) = {} THEN After(p) ELSE todo[p])
  /\ UNCHANGED <<row, hibernated, pane, mail, seen, copy, bounds, history>>

-----------------------------------------------------------------------------
(* A poll pass. *)

\* ArchivedIDs, before the rows and before the panes.
ReadFiled(m) ==
  /\ At(m, "filed") /\ Go(m, After(m))
  /\ seen' = [seen EXCEPT ![m].filed = archived, ![m].filing = filings]
  /\ UNCHANGED <<row, hibernated, pane, letters, copy, bounds, history>>
ListSessions(m) ==
  /\ At(m, "list") /\ Go(m, After(m))
  /\ seen' = [seen EXCEPT ![m].archived = archived, ![m].status = status]
  /\ UNCHANGED <<row, hibernated, pane, letters, copy, bounds, history>>
ScanPanes(m) ==
  /\ At(m, "scan") /\ Go(m, After(m))
  /\ seen' = [seen EXCEPT ![m].pane = pane]
  /\ UNCHANGED <<row, hibernated, pane, letters, copy, bounds, history>>

\* Variant: only rows on the active list.
MendsListed(m) == seen[m].filed /\ seen[m].pane /\ ~seen[m].archived
\* restoreLiveArchived, and the second listing after it
Mends(m) == seen[m].filed /\ seen[m].pane
RestoreLiveArchived(m) ==
  /\ At(m, "mend") /\ Mends(m) /\ archived' = FALSE
  /\ Go(m, <<"list">> \o After(m))
  /\ UNCHANGED <<status, hibernated, pane, letters, seen, copy, bounds, history>>
NothingToMend(m) ==
  /\ At(m, "mend") /\ ~Mends(m) /\ Go(m, After(m))
  /\ UNCHANGED <<row, hibernated, pane, letters, seen, copy, bounds, history>>

\* deliverInboxHead and the send it starts, as one step.
Deliver(m) ==
  /\ At(m, "flush") /\ seen[m].pane /\ ~seen[m].archived /\ pane
  /\ \E l \in QueuedLetters : mail' = [mail EXCEPT ![l] = "typed"]
  /\ UNCHANGED <<row, hibernated, pane, told, owed, todo, seen, copy, bounds, history>>

\* Variant: a row that reads dead is left so.
DerivedOnce(m) == IF seen[m].pane /\ seen[m].status = "live" THEN "live" ELSE "dead"
\* Variant: a missing pane is written as the empty status.
DerivedEmpty(m) == IF seen[m].pane THEN "live" ELSE ""
\* The status the pass derives, written over whatever the row reads by now,
\* and only when it is not what the pass listed.
Derived(m) == IF seen[m].pane THEN "live" ELSE "dead"
Moved(m) == Derived(m) # seen[m].status
EndPass(m, steps) ==
  /\ Go(m, steps)
  /\ seen' = [seen EXCEPT ![m] = Nothing]
Flush(m) ==
  /\ At(m, "flush") /\ ~seen[m].archived
  /\ \/ Moved(m)
     \/ StatusMoves /\ seen[m].status = "live" /\ seen[m].pane
  /\ status' = Derived(m)
  /\ EndPass(m, IF Derived(m) = "dead" THEN <<"resolve">> ELSE <<>>)
  /\ UNCHANGED <<archived, hibernated, pane, letters, copy, bounds, history>>
\* A child's row is flushed before its parent is told of its rest; a parent whose
\* queue is full fails the pass there, with the row dead and the queue not resolved.
FlushThenFail(m) ==
  /\ At(m, "flush") /\ ~seen[m].archived /\ Moved(m) /\ faults < MaxFaults
  /\ status' = Derived(m) /\ faults' = faults + 1
  /\ EndPass(m, <<>>)
  /\ UNCHANGED <<archived, hibernated, pane, letters, copy, calls, exits, history>>
NothingToFlush(m) ==
  /\ At(m, "flush")
  /\ seen[m].archived \/ ~Moved(m)
  /\ EndPass(m, <<>>)
  /\ UNCHANGED <<row, hibernated, pane, letters, copy, bounds, history>>

-----------------------------------------------------------------------------
AgentExits ==
  /\ pane /\ exits < MaxExits
  /\ pane' = FALSE /\ exits' = exits + 1
  /\ UNCHANGED <<row, hibernated, letters, todo, seen, copy, calls, faults, history>>

\* A process is killed, or a write that is the last thing its code tries fails.
CutShort(p) ==
  /\ ~Idle(p) /\ faults < MaxFaults /\ faults' = faults + 1
  /\ Go(p, <<>>) /\ owed' = [owed EXCEPT ![p] = {}]
  /\ seen' = [m \in Managers |-> IF m = p THEN Nothing ELSE seen[m]]
  /\ UNCHANGED <<row, hibernated, pane, mail, told, copy, calls, exits, history>>

Begin(c) ==
  \/ Stop(c) \/ Restart(c) \/ Revive(c) \/ Archive(c) \/ Restore(c) \/ Hibernate(c)
  \/ SendWakes(c) \/ SendRestores(c) \/ Send(c) \/ Relay(c) \/ NeighbourCommand(c)
Pass(m) ==
  \/ ReadFiled(m) \/ ListSessions(m) \/ ScanPanes(m) \/ RestoreLiveArchived(m)
  \/ NothingToMend(m) \/ Flush(m) \/ FlushThenFail(m) \/ NothingToFlush(m)
Step(p) ==
  \/ Dead(p) \/ Live(p) \/ File(p) \/ RestoreRow(p) \/ Mark(p) \/ Unmark(p)
  \/ Kill(p) \/ Doze(p) \/ StopFails(p) \/ Pace(p) \/ Create(p) \/ CreateFails(p)
  \/ Resolve(p) \/ Drop(p) \/ Tell(p)

Next ==
  \/ \E c \in Callers : Begin(c) \/ WriteBack(c) \/ Look(c) \/ Post(c)
  \/ \E s \in Settlers : Settle(s) \/ Wake(s) \/ WakeFails(s)
  \/ \E m \in Managers : BeginPass(m) \/ Pass(m) \/ Deliver(m)
  \/ \E p \in Procs : Step(p) \/ CutShort(p)
  \/ AgentExits

Spec == Init /\ [][Next]_vars

\* Passes and settling are on a ticker; what has begun goes on.
Fairness ==
  /\ \A m \in Managers : WF_vars(BeginPass(m)) /\ WF_vars(Pass(m) \/ Step(m))
  /\ \A s \in Settlers : WF_vars(Settle(s)) /\ WF_vars(Wake(s) \/ Step(s))
  /\ \A c \in Callers : WF_vars(WriteBack(c) \/ Look(c) \/ Post(c) \/ Step(c))
FairSpec == Spec /\ Fairness
-----------------------------------------------------------------------------
(* Properties. *)

TypeOK ==
  /\ status \in Statuses /\ archived \in BOOLEAN /\ hibernated \in BOOLEAN
  /\ pane \in BOOLEAN
  /\ mail \in [Letters -> {"unsent", "queued", "typed", "dropped"}]
  /\ told \in [Letters -> Nat]
  /\ todo \in [Procs -> Seq(Steps)]
  /\ seen \in [Managers -> Seen]
  /\ copy \in [Callers -> BOOLEAN]
  /\ owed \in [Procs -> SUBSET Letters]
  /\ calls \in 0..MaxCalls /\ exits \in 0..MaxExits /\ faults \in 0..MaxFaults
  /\ forgotten \in BOOLEAN /\ asleep \in BOOLEAN
  /\ filings \in 0..MaxCalls /\ ranFiled \in BOOLEAN

\* A sender is told of a letter at most once, and only of one that will never be
\* typed in, however many passes and commands resolve the queue: the notice of a
\* dropped letter is written, or one process owes it, never both and never two.
NoticesAccounted ==
  \A l \in Letters :
    /\ told[l] \in {0, 1}
    /\ told[l] = 1 => mail[l] = "dropped"
    /\ \A p \in Procs : l \in owed[p] =>
         /\ mail[l] = "dropped" /\ told[l] = 0 /\ SentBy[l] \notin Silent
         /\ \A q \in Procs \ {p} : l \notin owed[q]

\* A pass that finds an archived row's pane up never undoes an archive that has
\* only just ended it: under the filing it read, an agent has run (poller.go, the
\* order of ArchivedIDs and ScanPanes).
Mended(m) == todo'[m] # todo[m] /\ archived /\ ~archived'
RestoredOnlyIfRun ==
  [][\A m \in Managers : Mended(m) /\ seen[m].filing = filings => ranFiled]_vars

\* A session that hibernate has stopped keeps its queue for as long as nothing
\* takes its mark off or launches it (hibernate.go: the mark goes in before the
\* stop), whatever passes saw of its end, wakes and stops that fail included.
\* Left out (README, section 4): a mark taken off before the stop, and a
\* resolution that was past its look at the mark when the stop came.
HibernatedKeepsMail ==
  [][asleep /\ asleep' => \A l \in QueuedLetters : mail'[l] # "dropped"]_vars

\* What hibernate stops is marked when its pane goes.  No run checks this:
\* hibernate.go's comment has it, and TLC refutes it (README, section 4).
StoppedUnderMark ==
  [][\A c \in Callers : At(c, "doze") /\ pane /\ ~pane' /\ todo'[c] # todo[c]
       => hibernated]_vars

\* A letter that a restart's agent is to read is not dropped (recipientended.go).
Restarting == \E c \in Callers : StillTo(c, "create") \/ StillTo(c, "live")
RestartKeepsQueue ==
  [][pane \/ Restarting => \A l \in QueuedLetters : mail'[l] # "dropped"]_vars

\* Every sender a dropped letter had hears of it (recipientended.go).
SenderHears(l) == mail[l] = "dropped" /\ SentBy[l] \notin Silent ~> told[l] = 1
SendersHear == \A l \in Letters : SenderHears(l)

\* A letter still queued when its recipient's pane goes, with the row not yet
\* saying so, does not stay queued unless the session comes back or sleeps.
DeathResolves ==
  \A l \in Letters : mail[l] = "queued" /\ ~pane /\ status = "live"
    ~> mail[l] # "queued" \/ pane \/ hibernated

\* Mail for a hibernated session does not wait for ever under its mark.
MailWakes ==
  \A l \in Letters : mail[l] = "queued" /\ hibernated
    ~> mail[l] # "queued" \/ pane \/ ~hibernated

\* Whatever stale statuses are written, the row comes to say what the pane is.
RowCatchesUp ==
  /\ pane /\ status = "dead" ~> ~pane \/ status = "live"
  /\ ~pane /\ status = "live" ~> pane \/ status = "dead" \/ archived

\* No agent runs unseen under an archived row (park.go, restoreRelaunched).
NoneRunsFiled == archived /\ pane ~> ~archived \/ ~pane
=============================================================================
