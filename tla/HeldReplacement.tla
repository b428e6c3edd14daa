-------------------------- MODULE HeldReplacement --------------------------
(***************************************************************************)
(* Replacing a session with a fresh one (sessioncmd/boardreplace.go,         *)
(* store/replace.go): at once, or held until an extension commits or aborts  *)
(* it, the fresh session running under the old one meanwhile.  The rows and   *)
(* the panes are two places: a pane is started and ended inside the           *)
(* transaction that writes the rows, but no rollback brings a pane back.      *)
(* Holds are on record, and a board that starts aborts those that a killed    *)
(* one left.  What a session has of the task list moves with its seat.        *)
(***************************************************************************)
EXTENDS Naturals, FiniteSets

CONSTANTS
  Olds, Fresh,      \* sessions on the board; ids replacements mint, in order
  Tasks,
  None, Root,       \* no session; the top of the list
  MaxActs, MaxFaults \* bounds: what agents and the operator do to sessions;
                     \* crashes, and steps that fail

Sessions == Olds \cup Fresh
ASSUME ReplacementAssumption ==
  /\ Fresh \subseteq Nat /\ Olds \cap Fresh = {} /\ {None, Root} \cap Sessions = {} /\ None # Root
  /\ MaxActs \in Nat /\ MaxFaults \in Nat

VARIABLES
  row,      \* the sessions table
  held,     \* replace_holds: for each fresh session the one it is to replace
  owner,    \* who has claimed each task
  pane,     \* the sessions whose agents run
  board,    \* is the board up, down, or at the sweep of its start?
  at,       \* where the replacement that minted each fresh id is
  target,   \* the session it replaces
  hold,     \* is the swap to wait for the extension?
  saw,      \* did it find that one's pane up?
  tx,       \* the replacement whose transaction is open
  doing,    \* the writes that commands on sessions have still to make
  filed,    \* the sessions that have had a row
  swapped,  \* history: sessions whose pane a replacement ended
  woken,    \* history: sessions somebody has brought up again
  stray,    \* history: sessions that a failed launch could not end
  late,     \* history: tasks whose claim landed on a session off the board or replaced
  acts, faults

store == <<row, held, owner, late>>
swap == <<target, hold, saw>>
others == <<doing, filed>>
history == <<swapped, woken, stray>>
bounds == <<acts, faults>>
vars == <<store, pane, board, at, swap, tx, others, history, bounds>>

Absent == [there |-> FALSE, live |-> FALSE, archived |-> FALSE, parent |-> Root,
           by |-> None]
\* Some of the sessions have been filed away.
Init ==
  /\ \E away \in SUBSET Olds :
       /\ row = [s \in Sessions |->
                   CASE s \in away -> [Absent EXCEPT !.there = TRUE, !.archived = TRUE]
                     [] s \in Olds \ away -> [Absent EXCEPT !.there = TRUE, !.live = TRUE]
                     [] OTHER -> Absent]
       /\ pane = Olds \ away
  /\ held = [f \in Fresh |-> None] /\ owner = [t \in Tasks |-> None]
  /\ board = "up"
  /\ at = [f \in Fresh |-> "idle"] /\ target = [f \in Fresh |-> None]
  /\ hold = [f \in Fresh |-> FALSE]
  /\ saw = [f \in Fresh |-> FALSE] /\ tx = None
  /\ doing = {} /\ filed = Olds /\ late = {}
  /\ swapped = {} /\ woken = {} /\ stray = {} /\ acts = 0 /\ faults = 0

Go(f, place) == at' = [at EXCEPT ![f] = place]
At(f, places) == at[f] \in places
Fault == faults < MaxFaults /\ faults' = faults + 1 /\ UNCHANGED acts
Listed(s) == row[s].there /\ ~row[s].archived
\* What the store does to s's claims: hand them on, or back.
Claims(s, to) == [t \in Tasks |-> IF owner[t] = s THEN to ELSE owner[t]]
\* Variant: they stay claimed.
KeepsClaims(s) == owner
HandBack(s) == Claims(s, None)
GivesBack(s) == owner' = HandBack(s) /\ late' = {t \in late : owner[t] # s}
\* purgeSessionRefs and the row.
Purge(s) ==
  /\ row' = [row EXCEPT ![s] = Absent] /\ GivesBack(s)
  /\ held' = [f \in Fresh |-> IF f = s THEN None ELSE held[f]]

-----------------------------------------------------------------------------
(* BoardReplace. *)

Begin(f, s, waits) ==
  /\ board = "up" /\ at[f] = "idle" /\ s # f /\ Listed(s)
  /\ \A g \in Fresh : g < f => at[g] # "idle"
  /\ target' = [target EXCEPT ![f] = s] /\ hold' = [hold EXCEPT ![f] = waits]
  /\ Go(f, IF waits THEN "record" ELSE "look")
  /\ UNCHANGED <<store, pane, board, saw, tx, history, bounds, others>>
\* takeSeat looks at the old pane before the transaction.
LookAtOld(f) ==
  /\ at[f] = "look" /\ saw' = [saw EXCEPT ![f] = target[f] \in pane]
  /\ Go(f, IF hold[f] THEN "open" ELSE "begin")
  /\ UNCHANGED <<store, pane, board, target, hold, tx, history, bounds, others>>

\* Variant: the record is made when the fresh session is up.
RecordLater(f) == UNCHANGED held
Record(f) == held' = [held EXCEPT ![f] = target[f]]
RecordHold(f) ==
  /\ at[f] = "record" /\ tx = None
  /\ \/ Record(f) /\ Go(f, "begin") /\ UNCHANGED bounds
     \/ Fault /\ Go(f, "done") /\ UNCHANGED held
  /\ UNCHANGED <<row, owner, late, pane, board, swap, tx, history, others>>

\* A launch that failed, its pane ended if it was started, drops its record.
Failed(f) == IF hold[f] THEN "unrecord" ELSE "done"
\* Inside the transaction of a replacement at once.
\* Variant: the old pane is ended before the fresh one is started.
EndsFirst == <<"retire", "create", "write">>
CallbackOrder == <<"create", "retire", "write">>
After(place) == CallbackOrder[1 + CHOOSE i \in 1..2 : CallbackOrder[i] = place]
\* The transactions that file a fresh session.  Their reads come first, then the
\* panes change, and the rows are written when they commit.
OpenLaunch(f) ==
  /\ at[f] = "begin" /\ tx = None
  /\ IF row[target[f]].there
     THEN tx' = f /\ Go(f, IF hold[f] THEN "create" ELSE CallbackOrder[1])
     ELSE UNCHANGED tx /\ Go(f, Failed(f))
  /\ UNCHANGED <<store, pane, board, swap, history, bounds, others>>
Create(f) ==
  /\ at[f] = "create"
  /\ \/ /\ pane' = pane \cup {f}
        /\ Go(f, IF hold[f] THEN "file" ELSE After("create")) /\ UNCHANGED <<tx, bounds>>
     \/ Fault /\ tx' = None /\ Go(f, Failed(f)) /\ UNCHANGED pane
  /\ UNCHANGED <<store, board, swap, history, others>>
FileLeaf(f) ==
  /\ at[f] = "file" /\ tx' = None
  /\ \/ /\ row' = [row EXCEPT ![f] = [Absent EXCEPT !.there = TRUE, !.live = TRUE,
                                                    !.parent = target[f]]]
        /\ filed' = filed \cup {f} /\ Go(f, "held") /\ UNCHANGED bounds
     \/ Fault /\ Go(f, "undo") /\ UNCHANGED <<row, filed>>
  /\ UNCHANGED <<held, owner, late, pane, board, swap, history, doing>>

\* A commit that fails leaves the handle held; a launch takes its pane back.
RolledBack(f) == IF hold[f] THEN "held" ELSE "undo"
\* retire: the old pane is ended, if it was seen.  An adopted one cannot be.
Ended(f) == IF saw[f] THEN {target[f]} \cap pane ELSE {}
Retire(f) ==
  /\ at[f] = "retire"
  /\ \/ /\ pane' = pane \ Ended(f) /\ swapped' = swapped \cup Ended(f)
        /\ Go(f, IF hold[f] THEN "write" ELSE After("retire")) /\ UNCHANGED <<tx, bounds>>
     \/ /\ Fault /\ tx' = None /\ Go(f, RolledBack(f))
        /\ UNCHANGED <<pane, swapped>>
  /\ saw' = [saw EXCEPT ![f] = FALSE]
  /\ UNCHANGED <<store, board, target, hold, woken, stray, others>>
\* takeSeat's writes, with the new row or the end of the hold.
\* Variant: the claims stay behind.
ClaimsStay(f) == owner
ClaimsMoved(f) == Claims(target[f], f)
\* Variant: the two ids change places in the statement.
SuccessorSwapped(f) == target[f]
Successor(f) == f
TakeSeat(f) ==
  LET s == target[f] IN
  /\ row' = [row EXCEPT ![s].live = FALSE, ![s].by = Successor(f),
                        ![f].there = TRUE, ![f].parent = row[s].parent,
                        ![f].live = ~hold[f] \/ @]
  /\ held' = [held EXCEPT ![f] = None] /\ owner' = ClaimsMoved(f)
  /\ late' = {t \in late : owner[t] # s}
Write(f) ==
  /\ at[f] = "write" /\ tx' = None
  /\ \/ /\ TakeSeat(f) /\ filed' = filed \cup {f} /\ Go(f, "done")
        /\ UNCHANGED <<swapped, bounds>>
     \/ /\ Fault /\ Go(f, RolledBack(f))
        /\ swapped' = swapped \ {target[f]} /\ UNCHANGED <<store, filed>>
  /\ UNCHANGED <<pane, board, swap, woken, stray, doing>>

\* The error of this kill is ignored, and what follows it is done all the same.
Undo(f) ==
  /\ at[f] = "undo" /\ Go(f, Failed(f))
  /\ \/ pane' = pane \ {f} /\ UNCHANGED <<stray, bounds>>
     \/ f \in pane /\ Fault /\ stray' = stray \cup {f} /\ UNCHANGED pane
  /\ UNCHANGED <<store, board, swap, tx, swapped, woken, others>>
Unrecord(f) ==
  /\ at[f] = "unrecord" /\ tx = None
  /\ \/ Go(f, "done") /\ held' = [held EXCEPT ![f] = None] /\ UNCHANGED bounds
     \/ Fault /\ Go(f, "failed") /\ UNCHANGED held
  /\ UNCHANGED <<row, owner, late, pane, board, swap, tx, history, others>>

-----------------------------------------------------------------------------
(* The handle: BoardCommitReplace and BoardAbortReplace, one at a time.  Each  *)
(* refusal and each error leaves it held.                                      *)

CommitBegins(f) ==
  /\ at[f] = "held" /\ Listed(target[f]) /\ Go(f, "look")
  /\ UNCHANGED <<store, pane, board, swap, tx, history, bounds, others>>
MayTake(f) == Listed(f) /\ row[f].parent = target[f] /\ row[f].live /\ f \in pane
OpenCommit(f) ==
  /\ at[f] = "open" /\ tx = None
  /\ IF MayTake(f) /\ row[target[f]].there
     THEN tx' = f /\ Go(f, "retire") ELSE UNCHANGED tx /\ Go(f, "held")
  /\ UNCHANGED <<store, pane, board, swap, history, bounds, others>>

Nested(f) == row[f].there /\ row[f].parent = target[f]
AbortBegins(f) ==
  /\ at[f] = "held" /\ Nested(f) /\ Go(f, "abort kill")
  /\ UNCHANGED <<store, pane, board, swap, tx, history, bounds, others>>
\* dropHeld, for an abort and for the sweep: a kill that fails ends it.
KillHeld(f) ==
  /\ At(f, {"abort kill", "sweep kill", "sweep bare"})
  /\ \/ /\ pane' = pane \ {f} /\ UNCHANGED bounds
        /\ Go(f, CASE at[f] = "abort kill" -> "abort delete"
                   [] at[f] = "sweep kill" -> "sweep delete" [] OTHER -> "unrecord")
     \/ /\ f \in pane /\ Fault /\ UNCHANGED pane
        /\ Go(f, IF at[f] = "abort kill" THEN "held" ELSE "failed")
  /\ UNCHANGED <<store, board, swap, tx, history, others>>
DeleteHeld(f) ==
  /\ At(f, {"abort delete", "sweep delete"}) /\ tx = None
  /\ \/ row[f].there /\ Purge(f) /\ Go(f, "done") /\ UNCHANGED bounds
     \/ /\ IF row[f].there THEN Fault ELSE UNCHANGED bounds
        /\ Go(f, IF at[f] = "abort delete" THEN "held" ELSE "failed") /\ UNCHANGED store
  /\ UNCHANGED <<pane, board, swap, tx, history, others>>

-----------------------------------------------------------------------------
(* The board is killed, and starts: AbortOrphanedHolds. *)

Crash ==
  /\ board # "down" /\ Fault
  /\ board' = "down" /\ tx' = None /\ saw' = [f \in Fresh |-> FALSE]
  /\ at' = [f \in Fresh |-> IF At(f, {"idle", "done"}) THEN at[f] ELSE "lost"]
  /\ swapped' = swapped \ {target[f] : f \in {g \in Fresh : at[g] = "write"}}
  /\ UNCHANGED <<store, pane, target, hold, woken, stray, others>>
\* Variant: only a hold whose fresh session has a row is an orphan.
OrphansFiled == {f \in Fresh : held[f] # None /\ row[f].there}
Orphans == {f \in Fresh : held[f] # None}
Start ==
  /\ board = "down" /\ board' = "sweep"
  /\ at' = [f \in Fresh |-> IF f \in Orphans THEN "orphan" ELSE at[f]]
  /\ UNCHANGED <<store, pane, swap, tx, history, bounds, others>>
Sweeping == {"sweep kill", "sweep bare", "sweep delete", "unrecord"}
SweepLooks(f) ==
  /\ board = "sweep" /\ at[f] = "orphan" /\ \A g \in Fresh : ~At(g, Sweeping)
  /\ \/ /\ Go(f, CASE ~row[f].there -> "sweep bare" [] Nested(f) -> "sweep kill"
                   [] OTHER -> "unrecord")
        /\ UNCHANGED bounds
     \/ Fault /\ Go(f, "failed")
  /\ UNCHANGED <<store, pane, board, swap, tx, history, others>>
Opens ==
  /\ board = "sweep" /\ \A f \in Fresh : ~At(f, Sweeping \cup {"orphan"})
  /\ board' = "up"
  /\ UNCHANGED <<store, pane, at, swap, tx, history, bounds, others>>

-----------------------------------------------------------------------------
(* Agents, the operator, other commands, and the board's passes. *)

Act == acts < MaxActs /\ acts' = acts + 1 /\ UNCHANGED faults
Exits(s) ==
  /\ s \in pane /\ Act /\ pane' = pane \ {s}
  /\ UNCHANGED <<store, board, at, swap, tx, history, others>>

\* A command on a session is a series of writes, each a step of its own.
Then(s, step, next) == doing' = (doing \ {<<s, step>>}) \cup {<<s, n>> : n \in next}
\* Kill, an archive, and a delete end the pane first, if it is up.
EndsPane(s, step) ==
  /\ row[s].there /\ Act /\ pane' = pane \ {s} /\ doing' = doing \cup {<<s, step>>}
  /\ UNCHANGED <<store, board, at, swap, tx, filed, history>>
Ends(s) ==
  \/ EndsPane(s, "kill") \/ EndsPane(s, "delete")
  \/ EndsPane(s, IF s \in pane THEN "dead" ELSE "archive")
\* Their writes, whatever has been done to the session since.
Writes(s, step, next) ==
  /\ <<s, step>> \in doing /\ tx = None /\ row[s].there /\ Then(s, step, next)
  /\ UNCHANGED <<pane, board, at, swap, tx, filed, history, bounds>>
\* MarkKilled: the claims go back with the row.
MarkKilled(s) ==
  /\ Writes(s, "kill", {}) /\ row' = [row EXCEPT ![s].live = FALSE]
  /\ GivesBack(s) /\ UNCHANGED held
MarkDead(s) ==
  /\ Writes(s, "dead", {"archive"}) /\ row' = [row EXCEPT ![s].live = FALSE]
  /\ UNCHANGED <<held, owner, late>>
FileAway(s) ==
  /\ Writes(s, "archive", {}) /\ row' = [row EXCEPT ![s].archived = TRUE]
  /\ GivesBack(s) /\ UNCHANGED held
Delete(s) == Writes(s, "delete", {}) /\ Purge(s)

\* A revive or a wake reads the row, waits for its turn, and brings the pane up; a
\* row that read archived is restored, and then the row says that the agent runs.
Revives(s) ==
  /\ row[s].there /\ s \notin pane /\ Act
  /\ doing' = doing \cup {<<s, IF row[s].archived THEN "launchFiled" ELSE "launch">>}
  /\ UNCHANGED <<store, pane, board, at, swap, tx, filed, history>>
ComesUp(s) ==
  /\ s \notin pane
  /\ \/ <<s, "launch">> \in doing /\ Then(s, "launch", {"live"})
     \/ <<s, "launchFiled">> \in doing /\ Then(s, "launchFiled", {"restore"})
  /\ pane' = pane \cup {s} /\ swapped' = swapped \ {s} /\ woken' = woken \cup {s}
  /\ UNCHANGED <<store, board, at, swap, tx, filed, stray, bounds>>
Restore(s) ==
  /\ Writes(s, "restore", {"live"}) /\ row' = [row EXCEPT ![s].archived = FALSE]
  /\ UNCHANGED <<held, owner, late>>
MarkLive(s) ==
  /\ Writes(s, "live", {}) /\ row' = [row EXCEPT ![s].live = TRUE]
  /\ UNCHANGED <<held, owner, late>>
\* An error, or a process that is killed: the rest is not done.
CommandStops(s, step) ==
  /\ <<s, step>> \in doing /\ Then(s, step, {})
  /\ IF row[s].there /\ (step \in {"launch", "launchFiled"} => s \notin pane)
     THEN Fault ELSE UNCHANGED bounds
  /\ UNCHANGED <<store, pane, board, at, swap, tx, filed, history>>

FilesElsewhere(f) ==
  /\ row[f].there /\ row[f].parent # Root /\ tx = None /\ Act
  /\ row' = [row EXCEPT ![f].parent = Root]
  /\ UNCHANGED <<held, owner, late, pane, board, at, swap, tx, history, others>>
\* A pass writes what it saw of the pane: what that is now, or what it was.
PassFlushes(s) ==
  /\ board = "up" /\ Listed(s) /\ tx = None
  /\ row' = [row EXCEPT ![s].live = ~@]
  /\ IF row[s].live # (s \in pane) THEN UNCHANGED bounds ELSE Act
  /\ UNCHANGED <<held, owner, late, pane, board, at, swap, tx, history, others>>

\* ClaimTask and settleTask look for the caller's row, archived or not, and then
\* write; the write looks at the task alone.  So one may land at any time once its
\* session has had a row, whatever has become of the session since.
Gone(s) == ~Listed(s) \/ s \in swapped
ClaimsTask(t, s) ==
  /\ s \in filed /\ tx = None /\ owner[t] = None
  /\ owner' = [owner EXCEPT ![t] = s]
  /\ late' = IF Gone(s) THEN late \cup {t} ELSE late
  /\ UNCHANGED <<row, held, pane, board, at, swap, tx, history, bounds, others>>
SettlesTask(t) ==
  /\ owner[t] # None /\ tx = None
  /\ owner' = [owner EXCEPT ![t] = None] /\ late' = late \ {t}
  /\ UNCHANGED <<row, held, pane, board, at, swap, tx, history, bounds, others>>

CommandSteps ==
  {"kill", "dead", "archive", "delete", "launch", "launchFiled", "restore", "live"}
SweepStep(f) == SweepLooks(f) \/ KillHeld(f) \/ DeleteHeld(f) \/ Unrecord(f)
ReplaceStep(f) ==
  \/ LookAtOld(f) \/ RecordHold(f) \/ OpenLaunch(f) \/ Create(f) \/ FileLeaf(f)
  \/ Retire(f) \/ Write(f) \/ Undo(f) \/ OpenCommit(f)
Next ==
  \/ \E f \in Fresh : \/ \E s \in Sessions, waits \in BOOLEAN : Begin(f, s, waits)
                      \/ CommitBegins(f) \/ AbortBegins(f)
                      \/ ReplaceStep(f) \/ SweepStep(f) \/ FilesElsewhere(f)
  \/ Crash \/ Start \/ Opens
  \/ \E s \in Sessions : \/ Exits(s) \/ Ends(s) \/ MarkKilled(s) \/ MarkDead(s)
                         \/ FileAway(s) \/ Delete(s) \/ Revives(s) \/ ComesUp(s)
                         \/ Restore(s) \/ MarkLive(s) \/ PassFlushes(s)
                         \/ \E step \in CommandSteps : CommandStops(s, step)
  \/ \E t \in Tasks : SettlesTask(t) \/ \E s \in Sessions : ClaimsTask(t, s)
Spec == Init /\ [][Next]_vars

\* A board that was killed is started again, and its sweep goes on to its end.
Fairness == WF_vars(Start \/ Opens \/ \E f \in Fresh : SweepStep(f))
FairSpec == Spec /\ Fairness

-----------------------------------------------------------------------------
(* Properties. *)

Places == {"idle", "record", "look", "begin", "create", "file", "retire", "write",
           "undo", "unrecord", "done", "held", "open", "abort kill", "abort delete",
           "lost", "orphan", "sweep kill", "sweep bare", "sweep delete", "failed"}
Rows == [there : BOOLEAN, live : BOOLEAN, archived : BOOLEAN,
         parent : Sessions \cup {Root}, by : Fresh \cup {None}]
TypeOK ==
  /\ row \in [Sessions -> Rows]
  /\ held \in [Fresh -> Sessions \cup {None}] /\ owner \in [Tasks -> Sessions \cup {None}]
  /\ pane \subseteq Sessions /\ board \in {"up", "down", "sweep"}
  /\ at \in [Fresh -> Places] /\ target \in [Fresh -> Sessions \cup {None}]
  /\ hold \in [Fresh -> BOOLEAN] /\ saw \in [Fresh -> BOOLEAN] /\ tx \in Fresh \cup {None}
  /\ doing \subseteq Sessions \X CommandSteps
  /\ filed \cup swapped \cup woken \cup stray \subseteq Sessions
  /\ late \subseteq Tasks /\ acts \in 0..MaxActs /\ faults \in 0..MaxFaults

\* Work is never left with a session that cannot finish it: who has claimed a
\* task has a row, on the board, through swaps, aborts, the sweep and the commands
\* that end sessions alike (takeSeat, purgeSessionRefs, giveBackTasks).  Nothing looks
\* for claims again, so one that lands when its session is gone stays: those are
\* left out (README, section 4).
InTime(t) == owner[t] # None /\ t \notin late
ClaimsHaveHolders == \A t \in Tasks : InTime(t) => Listed(owner[t])

\* The session that was replaced left none of its work behind: none of it waits
\* on a row that reads dead while its successor runs (takeSeat), but for a claim that
\* waited for the swap and landed after it.
NoWorkLeftBehind ==
  \A t \in Tasks : InTime(t) /\ owner[t] \notin pane =>
    owner[t] \notin swapped \/ tx # None

\* A fresh session that runs under a hold, neither in its seat nor filed
\* elsewhere, is on record from before its pane is started until it is gone, so
\* the start after a crash finds it (RecordHold).  One whose launch failed and could
\* not be taken back is left out: its record is cleared (README, section 4).
HeldOnRecord ==
  \A f \in Fresh : hold[f] /\ f \in pane \ (woken \cup stray) /\ (row[f].there => Nested(f)) =>
    held[f] = target[f]

\* A replacement that is refused, that fails before its rows are written, or is
\* taken back leaves the old session running: a pane it ended is that of a session
\* it has taken the seat of (BoardReplace, BoardCommitReplace).  What a failed or
\* interrupted commit of the transaction ends is left out: see Write and Crash.
OldRunsOn ==
  \A s \in swapped : row[s].by # None \/ (tx # None /\ target[tx] = s) \/ ~row[s].there

\* Every hold that a killed board left is settled by the next before any extension
\* starts, unless a step of its sweep fails (AbortOrphanedHolds).
OrphansAborted ==
  <>[](board = "up" /\ \A f \in Fresh : at[f] = "lost" => held[f] = None)
=============================================================================
