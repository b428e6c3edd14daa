------------------------ MODULE HeldReplacementProofs ------------------------
(***************************************************************************)
(* HeldReplacement proved for any number of sessions, replacements and tasks: *)
(* its types; that a task which is claimed in time is claimed by a session on *)
(* the board; that no such work waits on a session that has been replaced;     *)
(* that a replacement which does not come off leaves the old session running;  *)
(* and that a held session is on record.  Claims that land late, a commit that *)
(* is cut short and a launch that cannot be taken back are what the properties *)
(* leave out.                                                                   *)
(***************************************************************************)
EXTENDS HeldReplacement, TLAPS

\* A replacement that has begun has a session to replace, and none is on record
\* before it has begun.
Targets ==
  \A f \in Fresh : IF at[f] = "idle" THEN held[f] = None ELSE target[f] \in Sessions
Typed == TypeOK /\ Targets

LEMMA Order ==
  /\ CallbackOrder[1] = "create" /\ After("create") = "retire"
  /\ After("retire") = "write"
<1>1. /\ CallbackOrder[1] = "create" /\ CallbackOrder[2] = "retire"
      /\ CallbackOrder[3] = "write"
  BY DEF CallbackOrder
<1>2. \A i \in 1..2 : (CallbackOrder[i] = "create" <=> i = 1)
                     /\ (CallbackOrder[i] = "retire" <=> i = 2)
  BY <1>1
<1>3. (CHOOSE i \in 1..2 : CallbackOrder[i] = "create") = 1
  BY <1>2
<1>4. (CHOOSE i \in 1..2 : CallbackOrder[i] = "retire") = 2
  BY <1>2
<1> QED
  BY <1>1, <1>3, <1>4 DEF After

\* The rows there are at first: some of them filed away, and those without a pane.
LEMMA RowsAtFirst ==
  ASSUME Init
  PROVE  /\ row \in [Sessions -> Rows] /\ pane \subseteq Olds
         /\ \A s \in Sessions : row[s].parent = Root /\ (row[s].there <=> s \in Olds)
         /\ \A s \in Sessions : row[s].archived => s \in Olds
<1> DEFINE Running == [Absent EXCEPT !.there = TRUE, !.live = TRUE]
           Away == [Absent EXCEPT !.there = TRUE, !.archived = TRUE]
<1>1. PICK away \in SUBSET Olds :
        /\ row = [s \in Sessions |-> CASE s \in away -> Away [] s \in Olds \ away -> Running
                                         [] OTHER -> Absent]
        /\ pane = Olds \ away
  BY DEF Init
<1>2. Absent \in Rows /\ Running \in Rows /\ Away \in Rows
  BY DEF Absent, Rows
<1>3. /\ Absent.parent = Root /\ Running.parent = Root /\ Away.parent = Root
      /\ ~Absent.there /\ Running.there /\ Away.there
      /\ ~Absent.archived /\ ~Running.archived
  BY DEF Absent
<1> HIDE DEF Running, Away
<1>4. \A s \in Sessions : row[s] = IF s \in away THEN Away
                                   ELSE IF s \in Olds THEN Running ELSE Absent
  BY <1>1
<1>5. row \in [Sessions -> Rows]
  <2>1. row = [s \in Sessions |-> row[s]]
    BY <1>1
  <2> QED
    BY <2>1, <1>4, <1>2
<1> QED
  BY <1>1, <1>3, <1>4, <1>5

LEMMA InitTyped == Init => Typed
<1> SUFFICES ASSUME Init PROVE Typed
  OBVIOUS
<1>1. row \in [Sessions -> Rows] /\ pane \subseteq Sessions
  BY RowsAtFirst DEF Sessions
<1>2. "idle" \in Places
  BY DEF Places
<1>3. at \in [Fresh -> Places] /\ Targets
  BY <1>2 DEF Init, Targets
<1>4. /\ held \in [Fresh -> Sessions \cup {None}] /\ owner \in [Tasks -> Sessions \cup {None}]
      /\ target \in [Fresh -> Sessions \cup {None}] /\ hold \in [Fresh -> BOOLEAN]
      /\ saw \in [Fresh -> BOOLEAN]
  BY DEF Init
<1>5. /\ board \in {"up", "down", "sweep"} /\ tx \in Fresh \cup {None}
      /\ doing \subseteq Sessions \X CommandSteps /\ late \subseteq Tasks
      /\ filed \cup swapped \cup woken \cup stray \subseteq Sessions
      /\ acts \in 0..MaxActs /\ faults \in 0..MaxFaults
  BY ReplacementAssumption DEF Init, Sessions
<1> QED
  BY <1>1, <1>3, <1>4, <1>5 DEF Typed, TypeOK

-----------------------------------------------------------------------------
(* Types. *)

LEMMA BoundsTyped ==
  ASSUME TypeOK, Fault \/ Act \/ UNCHANGED bounds
  PROVE  acts' \in 0..MaxActs /\ faults' \in 0..MaxFaults
BY ReplacementAssumption DEF TypeOK, Fault, Act, bounds

LEMMA ClaimsTyped ==
  ASSUME TypeOK, NEW s, NEW to \in Sessions \cup {None}
  PROVE  Claims(s, to) \in [Tasks -> Sessions \cup {None}]
BY DEF TypeOK, Claims

LEMMA GivesBackTyped ==
  ASSUME TypeOK, NEW s, GivesBack(s)
  PROVE  /\ owner' \in [Tasks -> Sessions \cup {None}] /\ late' \subseteq Tasks
         /\ \A t \in Tasks : owner'[t] = IF owner[t] = s THEN None ELSE owner[t]
         /\ late' = {t \in late : owner[t] # s}
BY ClaimsTyped DEF TypeOK, GivesBack, HandBack, Claims

LEMMA FieldsTyped ==
  ASSUME NEW r \in [Sessions -> Rows], NEW s \in Sessions
  PROVE  /\ \A b \in BOOLEAN : /\ [r EXCEPT ![s].live = b] \in [Sessions -> Rows]
                               /\ [r EXCEPT ![s].there = b] \in [Sessions -> Rows]
                               /\ [r EXCEPT ![s].archived = b] \in [Sessions -> Rows]
         /\ \A p \in Sessions \cup {Root} : [r EXCEPT ![s].parent = p] \in [Sessions -> Rows]
         /\ \A f \in Fresh : [r EXCEPT ![s].by = f] \in [Sessions -> Rows]
<1>1. \A b \in BOOLEAN : /\ [r[s] EXCEPT !.live = b] \in Rows
                         /\ [r[s] EXCEPT !.there = b] \in Rows
                         /\ [r[s] EXCEPT !.archived = b] \in Rows
  BY DEF Rows
<1>2. /\ \A p \in Sessions \cup {Root} : [r[s] EXCEPT !.parent = p] \in Rows
      /\ \A f \in Fresh : [r[s] EXCEPT !.by = f] \in Rows
  BY DEF Rows
<1> QED
  BY <1>1, <1>2

LEMMA PurgeTyped ==
  ASSUME TypeOK, NEW s \in Sessions, Purge(s)
  PROVE  /\ row' \in [Sessions -> Rows] /\ owner' \in [Tasks -> Sessions \cup {None}]
         /\ held' \in [Fresh -> Sessions \cup {None}] /\ late' \subseteq Tasks
         /\ \A f \in Fresh : held'[f] # None => held[f] # None
<1>1. Absent \in Rows
  BY DEF Absent, Rows
<1>2. owner' \in [Tasks -> Sessions \cup {None}] /\ late' \subseteq Tasks
  BY GivesBackTyped DEF Purge
<1> QED
  BY <1>1, <1>2 DEF Purge, TypeOK

\* A replacement's step takes it to another place, and leaves what it replaces alone.
Steps(f) == /\ at[f] # "idle" /\ \E place \in Places \ {"idle"} : Go(f, place)
            /\ UNCHANGED <<board, target, hold, doing>>
RowsTyped ==
  /\ row' \in [Sessions -> Rows] /\ owner' \in [Tasks -> Sessions \cup {None}]
  /\ held' \in [Fresh -> Sessions \cup {None}] /\ late' \subseteq Tasks

LEMMA StepTyped ==
  ASSUME Typed, NEW f \in Fresh, Steps(f), RowsTyped, Fault \/ UNCHANGED bounds,
         \A g \in Fresh \ {f} : held'[g] # None => held[g] # None,
         pane' \subseteq Sessions, saw' \in [Fresh -> BOOLEAN], tx' \in Fresh \cup {None},
         swapped' \subseteq Sessions, woken' = woken, stray' \subseteq Sessions,
         filed' \subseteq Sessions
  PROVE  Typed'
<1>1. acts' \in 0..MaxActs /\ faults' \in 0..MaxFaults
  BY BoundsTyped DEF Typed
<1>2. PICK place \in Places \ {"idle"} : Go(f, place)
  BY DEF Steps
<1>3. at'[f] # "idle" /\ at' \in [Fresh -> Places] /\ \A g \in Fresh \ {f} : at'[g] = at[g]
  BY <1>2 DEF Go, Typed, TypeOK
<1>4. target' = target /\ hold' = hold /\ board' = board /\ target[f] \in Sessions
  BY DEF Steps, Typed, Targets
<1>5. Targets'
  BY <1>3, <1>4 DEF Typed, Targets
<1>6. /\ doing' \subseteq Sessions \X CommandSteps
      /\ filed' \cup swapped' \cup woken' \cup stray' \subseteq Sessions
  BY DEF Steps, Typed, TypeOK
<1> QED
  BY <1>1, <1>3, <1>4, <1>5, <1>6 DEF RowsTyped, Typed, TypeOK

LEMMA Moves ==
  ASSUME Typed, NEW f \in Fresh,
         \/ LookAtOld(f) \/ RecordHold(f) \/ OpenLaunch(f) \/ Create(f) \/ FileLeaf(f)
         \/ Retire(f) \/ Write(f) \/ Undo(f) \/ Unrecord(f) \/ CommitBegins(f)
         \/ OpenCommit(f) \/ AbortBegins(f) \/ KillHeld(f) \/ DeleteHeld(f) \/ SweepLooks(f)
  PROVE  Steps(f) /\ (Fault \/ UNCHANGED bounds) /\ f \in Sessions /\ target[f] \in Sessions
<1>1. at[f] # "idle" /\ UNCHANGED <<board, target, hold, doing>> /\ (Fault \/ UNCHANGED bounds)
  BY DEF LookAtOld, RecordHold, OpenLaunch, Create, FileLeaf, Retire, Write, Undo, Unrecord,
         CommitBegins, OpenCommit, AbortBegins, KillHeld, DeleteHeld, SweepLooks, At, swap, others
<1>2. \A place \in Places \ {"idle"} : Go(f, place) => \E p \in Places \ {"idle"} : Go(f, p)
  OBVIOUS
<1>3. {Failed(f), RolledBack(f), CallbackOrder[1], After("create"), After("retire")}
        \subseteq Places \ {"idle"}
  BY Order DEF Failed, RolledBack, Places
<1>4. {"record", "look", "begin", "create", "file", "retire", "write", "undo", "unrecord",
       "done", "held", "open", "abort kill", "abort delete", "sweep kill", "sweep bare",
       "sweep delete", "failed"} \subseteq Places \ {"idle"}
  BY DEF Places
<1>5. \E place \in Places \ {"idle"} : Go(f, place)
  <2>1. CASE LookAtOld(f) \/ RecordHold(f) \/ OpenLaunch(f)
    BY <2>1, <1>3, <1>4 DEF LookAtOld, RecordHold, OpenLaunch
  <2>2. CASE Create(f) \/ FileLeaf(f) \/ Retire(f)
    BY <2>2, <1>3, <1>4 DEF Create, FileLeaf, Retire
  <2>3. CASE Write(f) \/ Undo(f) \/ Unrecord(f)
    BY <2>3, <1>3, <1>4 DEF Write, Undo, Unrecord
  <2>4. CASE CommitBegins(f) \/ OpenCommit(f) \/ AbortBegins(f)
    BY <2>4, <1>4 DEF CommitBegins, OpenCommit, AbortBegins
  <2>5. CASE KillHeld(f)
    BY <2>5, <1>4 DEF KillHeld
  <2>6. CASE DeleteHeld(f)
    BY <2>6, <1>4 DEF DeleteHeld
  <2>7. CASE SweepLooks(f)
    BY <2>7, <1>4 DEF SweepLooks
  <2> QED
    BY <2>1, <2>2, <2>3, <2>4, <2>5, <2>6, <2>7
<1> QED
  BY <1>1, <1>5 DEF Steps, Typed, Targets, Sessions

\* The steps that write no row.
LEMMA PaneStepTyped ==
  ASSUME Typed, NEW f \in Fresh,
         \/ LookAtOld(f) \/ RecordHold(f) \/ OpenLaunch(f) \/ Create(f) \/ Retire(f)
         \/ Undo(f) \/ Unrecord(f) \/ CommitBegins(f) \/ OpenCommit(f) \/ AbortBegins(f)
         \/ KillHeld(f) \/ SweepLooks(f)
  PROVE  Typed'
<1>1. Steps(f) /\ (Fault \/ UNCHANGED bounds) /\ f \in Sessions /\ target[f] \in Sessions
  BY Moves
<1>2. RowsTyped /\ \A g \in Fresh \ {f} : held'[g] # None => held[g] # None
  <2>1. row' = row /\ owner' = owner /\ late' = late
    BY DEF LookAtOld, RecordHold, OpenLaunch, Create, Retire, Undo, Unrecord, CommitBegins,
           OpenCommit, AbortBegins, KillHeld, SweepLooks, store
  <2>2. held' = held \/ held' = [held EXCEPT ![f] = target[f]] \/ held' = [held EXCEPT ![f] = None]
    BY DEF LookAtOld, RecordHold, Record, OpenLaunch, Create, Retire, Undo, Unrecord,
           CommitBegins, OpenCommit, AbortBegins, KillHeld, SweepLooks, store
  <2> QED
    BY <1>1, <2>1, <2>2 DEF RowsTyped, Typed, TypeOK
<1>3. pane' \in {pane, pane \cup {f}, pane \ {f}, pane \ Ended(f)}
  BY DEF LookAtOld, RecordHold, OpenLaunch, Create, Retire, Undo, Unrecord,
         CommitBegins, OpenCommit, AbortBegins, KillHeld, SweepLooks
<1>4. \/ saw' = saw \/ saw' = [saw EXCEPT ![f] = target[f] \in pane]
      \/ saw' = [saw EXCEPT ![f] = FALSE]
  BY DEF LookAtOld, RecordHold, OpenLaunch, Create, Retire, Undo, Unrecord,
         CommitBegins, OpenCommit, AbortBegins, KillHeld, SweepLooks, swap
<1>5. tx' \in {tx, f, None}
  BY DEF LookAtOld, RecordHold, OpenLaunch, Create, Retire, Undo, Unrecord,
         CommitBegins, OpenCommit, AbortBegins, KillHeld, SweepLooks
<1>6. /\ swapped' \in {swapped, swapped \cup Ended(f)} /\ woken' = woken
      /\ stray' \in {stray, stray \cup {f}} /\ filed' = filed
  BY DEF LookAtOld, RecordHold, OpenLaunch, Create, Retire, Undo, Unrecord,
         CommitBegins, OpenCommit, AbortBegins, KillHeld, SweepLooks, history, others
<1>7. Ended(f) \subseteq Sessions
  BY <1>1 DEF Ended
<1> QED
  <2>1. /\ pane' \subseteq Sessions /\ swapped' \subseteq Sessions /\ woken' = woken
        /\ stray' \subseteq Sessions /\ filed' \subseteq Sessions
    BY <1>1, <1>3, <1>6, <1>7 DEF Typed, TypeOK
  <2>2. (target[f] \in pane) \in BOOLEAN
    OBVIOUS
  <2>3. saw' \in [Fresh -> BOOLEAN] /\ tx' \in Fresh \cup {None}
    BY <1>4, <1>5, <2>2 DEF Typed, TypeOK
  <2> QED
    BY <1>1, <1>2, <2>1, <2>3, StepTyped

\* The steps of a replacement that write rows.
LEMMA RowStepTyped ==
  ASSUME Typed, NEW f \in Fresh, FileLeaf(f) \/ Write(f) \/ DeleteHeld(f)
  PROVE  Typed'
<1>1. Steps(f) /\ (Fault \/ UNCHANGED bounds) /\ f \in Sessions /\ target[f] \in Sessions
  BY Moves
<1>2. RowsTyped /\ \A g \in Fresh \ {f} : held'[g] # None => held[g] # None
  <2>1. CASE UNCHANGED store
    BY <2>1 DEF store, RowsTyped, Typed, TypeOK
  <2>2. CASE FileLeaf(f)
    <3>1. [Absent EXCEPT !.there = TRUE, !.live = TRUE, !.parent = target[f]] \in Rows
      BY <1>1 DEF Absent, Rows
    <3> QED
      BY <2>2, <3>1 DEF FileLeaf, RowsTyped, Typed, TypeOK
  <2>3. CASE TakeSeat(f)
    <3>1. owner' \in [Tasks -> Sessions \cup {None}] /\ late' \subseteq Tasks
      BY <1>1, <2>3, ClaimsTyped DEF TakeSeat, ClaimsMoved, Typed, TypeOK
    <3> DEFINE r1 == [row EXCEPT ![target[f]].live = FALSE]
               r2 == [r1 EXCEPT ![target[f]].by = f]
               r3 == [r2 EXCEPT ![f].there = TRUE]
               r4 == [r3 EXCEPT ![f].parent = row[target[f]].parent]
    <3>3. r1 \in [Sessions -> Rows] /\ row[target[f]].parent \in Sessions \cup {Root}
      BY <1>1, FieldsTyped DEF Typed, TypeOK, Rows
    <3>4. r2 \in [Sessions -> Rows]
      BY <1>1, <3>3, FieldsTyped
    <3>5. r3 \in [Sessions -> Rows]
      BY <1>1, <3>4, FieldsTyped
    <3>6. r4 \in [Sessions -> Rows]
      BY <1>1, <3>3, <3>5, FieldsTyped
    <3>7. (~hold[f] \/ row[f].live) \in BOOLEAN
      OBVIOUS
    <3>8. \A b \in BOOLEAN : [r4 EXCEPT ![f].live = b] \in [Sessions -> Rows]
      BY <1>1, <3>6, FieldsTyped
    <3>2. row' \in [Sessions -> Rows]
      BY <2>3, <3>7, <3>8 DEF TakeSeat, Successor
    <3> QED
      BY <2>3, <3>1, <3>2 DEF TakeSeat, RowsTyped, Typed, TypeOK
  <2>4. CASE Purge(f)
    BY <1>1, <2>4, PurgeTyped DEF RowsTyped, Typed
  <2> QED
    BY <2>1, <2>2, <2>3, <2>4 DEF Write, DeleteHeld
<1>3. pane' = pane /\ saw' = saw /\ tx' \in {tx, None}
  BY DEF FileLeaf, Write, DeleteHeld, swap
<1>4. /\ swapped' \subseteq swapped /\ woken' = woken /\ stray' = stray
      /\ filed' \in {filed, filed \cup {f}}
  BY DEF FileLeaf, Write, DeleteHeld, history, others
<1> QED
  BY <1>1, <1>2, <1>3, <1>4, StepTyped DEF Typed, TypeOK

LEMMA BeginTyped ==
  ASSUME Typed, NEW f \in Fresh, NEW s \in Sessions, NEW waits \in BOOLEAN, Begin(f, s, waits)
  PROVE  Typed'
<1>1. {"record", "look"} \subseteq Places
  BY DEF Places
<1>2. at' \in [Fresh -> Places] /\ target' \in [Fresh -> Sessions \cup {None}]
      /\ hold' \in [Fresh -> BOOLEAN]
  BY <1>1 DEF Begin, Go, Typed, TypeOK
<1>3. Targets'
  BY DEF Begin, Go, Typed, TypeOK, Targets, store
<1> QED
  BY <1>2, <1>3 DEF Begin, Typed, TypeOK, store, history, bounds, others

LEMMA BoardTyped ==
  ASSUME Typed, Crash \/ Start \/ Opens
  PROVE  Typed'
<1>1. CASE Crash
  <2>1. Targets'
    BY <1>1 DEF Crash, Typed, Targets, At, store, swap
  <2> QED
    <3>1. at' \in [Fresh -> Places]
      <4>1. "lost" \in Places
        BY DEF Places
      <4> QED
        BY <1>1, <4>1 DEF Crash, Typed, TypeOK
    <3>2. acts' \in 0..MaxActs /\ faults' \in 0..MaxFaults
      BY <1>1, BoundsTyped DEF Crash, Typed
    <3> QED
      BY <1>1, <2>1, <3>1, <3>2 DEF Crash, Typed, TypeOK, store, others
<1>2. CASE Start
  <2>1. Targets'
    BY <1>2 DEF Start, Typed, Targets, Orphans, store, swap
  <2> QED
    BY <1>2, <2>1 DEF Start, Orphans, Typed, TypeOK, Places, store, swap, history, bounds, others
<1>3. CASE Opens
  BY <1>3 DEF Opens, Typed, TypeOK, Targets, store, swap, history, bounds, others
<1> QED
  BY <1>1, <1>2, <1>3

\* Nobody but a replacement's own steps touches where it is, nor its session.
Apart == UNCHANGED <<at, target, hold, tx, board>>
Command(s) ==
  \/ Ends(s) \/ MarkKilled(s) \/ MarkDead(s) \/ FileAway(s) \/ Delete(s) \/ Revives(s)
  \/ ComesUp(s) \/ Restore(s) \/ MarkLive(s)
  \/ \E step \in CommandSteps : CommandStops(s, step)
Other(s) ==
  \/ Exits(s) \/ Command(s) \/ PassFlushes(s) \/ FilesElsewhere(s)
  \/ \E t \in Tasks : SettlesTask(t) \/ ClaimsTask(t, s)

LEMMA OthersApart == ASSUME NEW s \in Sessions, Other(s) PROVE Apart /\ UNCHANGED <<saw, stray, filed>>
<1>1. CASE Ends(s)
  BY <1>1 DEF Ends, EndsPane, Apart, swap, history
<1>2. CASE MarkKilled(s) \/ MarkDead(s) \/ FileAway(s) \/ Delete(s) \/ Restore(s) \/ MarkLive(s)
  BY <1>2 DEF MarkKilled, MarkDead, FileAway, Delete, Restore, MarkLive, Writes, Apart, swap, history
<1>3. CASE Revives(s) \/ ComesUp(s) \/ \E step \in CommandSteps : CommandStops(s, step)
  BY <1>3 DEF Revives, ComesUp, CommandStops, Apart, swap, history
<1>4. CASE Exits(s) \/ PassFlushes(s) \/ FilesElsewhere(s)
  BY <1>4 DEF Exits, PassFlushes, FilesElsewhere, Apart, swap, history, others
<1>5. CASE \E t \in Tasks : SettlesTask(t) \/ ClaimsTask(t, s)
  BY <1>5 DEF SettlesTask, ClaimsTask, Apart, swap, history, others
<1> QED
  BY <1>1, <1>2, <1>3, <1>4, <1>5 DEF Other, Command

\* What a command on a session writes, and what becomes of its other writes.
LEMMA CommandWrites ==
  ASSUME Typed, NEW s \in Sessions,
         \/ MarkKilled(s) \/ MarkDead(s) \/ FileAway(s) \/ Restore(s) \/ MarkLive(s)
  PROVE  /\ tx = None /\ row[s].there /\ UNCHANGED <<pane, held, swapped, woken, bounds>>
         /\ row' \in [Sessions -> Rows] /\ \A x \in Sessions \ {s} : row'[x] = row[x]
         /\ row'[s].there = row[s].there /\ row'[s].by = row[s].by
         /\ row'[s].parent = row[s].parent
         /\ \/ UNCHANGED <<owner, late>> /\ (row'[s].archived => row[s].archived)
            \/ GivesBack(s)
<1>1. row \in [Sessions -> Rows]
  BY DEF Typed, TypeOK
<1>2. /\ tx = None /\ row[s].there /\ UNCHANGED <<pane, held, swapped, woken, bounds>>
  BY DEF MarkKilled, MarkDead, FileAway, Restore, MarkLive, Writes, history
<1>3. /\ \E b \in BOOLEAN : \/ row' = [row EXCEPT ![s].live = b]
                            \/ row' = [row EXCEPT ![s].archived = b]
      /\ \/ /\ UNCHANGED <<owner, late>>
            /\ \/ \E b \in BOOLEAN : row' = [row EXCEPT ![s].live = b]
               \/ row' = [row EXCEPT ![s].archived = FALSE]
         \/ GivesBack(s)
  BY DEF MarkKilled, MarkDead, FileAway, Restore, MarkLive
<1>4. ASSUME NEW b \in BOOLEAN,
             row' = [row EXCEPT ![s].live = b] \/ row' = [row EXCEPT ![s].archived = b]
      PROVE  /\ row' \in [Sessions -> Rows] /\ \A x \in Sessions \ {s} : row'[x] = row[x]
             /\ row'[s].there = row[s].there /\ row'[s].by = row[s].by
             /\ row'[s].parent = row[s].parent
  <2>1. row' \in [Sessions -> Rows]
    <3>1. /\ [row EXCEPT ![s].live = b] \in [Sessions -> Rows]
          /\ [row EXCEPT ![s].archived = b] \in [Sessions -> Rows]
      BY <1>1, FieldsTyped
    <3> QED
      BY <1>4, <3>1
  <2>2. \A x \in Sessions \ {s} : row'[x] = row[x]
    BY <1>1, <1>4
  <2>3. row'[s] = [row[s] EXCEPT !.live = b] \/ row'[s] = [row[s] EXCEPT !.archived = b]
    BY <1>1, <1>4
  <2>4. row[s] \in Rows
    BY <1>1
  <2>5. /\ row'[s].there = row[s].there /\ row'[s].by = row[s].by
        /\ row'[s].parent = row[s].parent
    BY <2>3, <2>4 DEF Rows
  <2> QED
    BY <2>1, <2>2, <2>5
<1>5. ASSUME \/ \E b \in BOOLEAN : row' = [row EXCEPT ![s].live = b]
             \/ row' = [row EXCEPT ![s].archived = FALSE]
      PROVE  row'[s].archived => row[s].archived
  BY <1>1, <1>5 DEF Rows
<1> QED
  BY <1>2, <1>3, <1>4, <1>5

LEMMA ThenTyped ==
  ASSUME TypeOK, NEW s \in Sessions, NEW step, NEW next \in SUBSET CommandSteps,
         Then(s, step, next)
  PROVE  /\ doing' \subseteq Sessions \X CommandSteps
         /\ \A x \in Sessions \ {s}, k \in CommandSteps : <<x, k>> \in doing' => <<x, k>> \in doing
         /\ \A k \in CommandSteps : <<s, k>> \in doing' => <<s, k>> \in doing \/ k \in next
BY DEF TypeOK, Then

LEMMA DoingTyped ==
  ASSUME TypeOK, NEW s \in Sessions, Other(s)
  PROVE  /\ doing' \subseteq Sessions \X CommandSteps
         /\ \A x \in Sessions \ {s}, k \in CommandSteps : <<x, k>> \in doing' => <<x, k>> \in doing
         /\ <<s, "delete">> \in doing' => <<s, "delete">> \in doing \/ s \notin pane'
         /\ \A k \in CommandSteps :
              <<s, k>> \in doing' => row[s].there \/ \E j \in CommandSteps : <<s, j>> \in doing
<1>0. /\ {"archive"} \in SUBSET CommandSteps /\ {"live"} \in SUBSET CommandSteps
      /\ {"restore"} \in SUBSET CommandSteps /\ {} \in SUBSET CommandSteps
      /\ {"kill", "dead", "archive", "delete", "launch", "launchFiled"} \subseteq CommandSteps
      /\ "delete" \in CommandSteps
  BY DEF CommandSteps
<1>1. ASSUME NEW step \in CommandSteps, NEW next \in SUBSET CommandSteps, Then(s, step, next),
             <<s, step>> \in doing, "delete" \notin next
      PROVE  /\ doing' \subseteq Sessions \X CommandSteps
             /\ \A x \in Sessions \ {s}, k \in CommandSteps : <<x, k>> \in doing' => <<x, k>> \in doing
             /\ <<s, "delete">> \in doing' => <<s, "delete">> \in doing
             /\ \E j \in CommandSteps : <<s, j>> \in doing
  BY <1>0, <1>1, ThenTyped
<1>2. CASE MarkKilled(s) \/ MarkDead(s) \/ FileAway(s) \/ Delete(s) \/ Restore(s) \/ MarkLive(s)
  <2>1. \E step \in CommandSteps : \E next \in {{}, {"archive"}, {"live"}} :
          Then(s, step, next) /\ <<s, step>> \in doing
    BY <1>2 DEF MarkKilled, MarkDead, FileAway, Delete, Restore, MarkLive, Writes, CommandSteps
  <2> QED
    BY <1>0, <1>1, <2>1
<1>3. CASE ComesUp(s) \/ \E step \in CommandSteps : CommandStops(s, step)
  <2>1. \E step \in CommandSteps : \E next \in {{}, {"restore"}, {"live"}} :
          Then(s, step, next) /\ <<s, step>> \in doing
    BY <1>3 DEF ComesUp, CommandStops, CommandSteps
  <2> QED
    BY <1>0, <1>1, <2>1
<1>4. CASE Ends(s) \/ Revives(s)
  <2>1. /\ row[s].there
        /\ \E k \in {"kill", "dead", "archive", "delete", "launch", "launchFiled"} :
             doing' = doing \cup {<<s, k>>} /\ (k = "delete" => s \notin pane')
    BY <1>4 DEF Ends, EndsPane, Revives
  <2> QED
    BY <1>0, <2>1 DEF TypeOK
<1>5. CASE Exits(s) \/ PassFlushes(s) \/ FilesElsewhere(s)
           \/ \E t \in Tasks : SettlesTask(t) \/ ClaimsTask(t, s)
  <2>1. doing' = doing
    BY <1>5 DEF Exits, PassFlushes, FilesElsewhere, SettlesTask, ClaimsTask, others
  <2> QED
    BY <2>1 DEF TypeOK
<1> QED
  BY <1>2, <1>3, <1>4, <1>5 DEF Other, Command

LEMMA OthersTyped ==
  ASSUME Typed, NEW s \in Sessions, Other(s)
  PROVE  Typed'
<1>1. /\ Apart /\ UNCHANGED <<saw, stray, filed>> /\ doing' \subseteq Sessions \X CommandSteps
  BY OthersApart, DoingTyped DEF Typed
<1>2. ASSUME RowsTyped, pane' \subseteq pane \cup {s}, swapped' \subseteq swapped,
             woken' \subseteq woken \cup {s}, Fault \/ Act \/ UNCHANGED bounds,
             \A g \in Fresh : held'[g] # None => held[g] # None
      PROVE  Typed'
  <2>1. acts' \in 0..MaxActs /\ faults' \in 0..MaxFaults
    BY <1>2, BoundsTyped DEF Typed
  <2>2. Targets'
    BY <1>1, <1>2 DEF Apart, Typed, Targets
  <2>3. TypeOK'
    BY <1>1, <1>2, <2>1 DEF Apart, RowsTyped, Typed, TypeOK
  <2> QED
    BY <2>2, <2>3 DEF Typed
<1>3. UNCHANGED store => RowsTyped /\ held' = held
  BY DEF store, RowsTyped, Typed, TypeOK
<1>4. CASE Exits(s) \/ Ends(s) \/ Revives(s)
  BY <1>2, <1>3, <1>4 DEF Exits, Ends, EndsPane, Revives, history
<1>5. CASE ComesUp(s) \/ \E step \in CommandSteps : CommandStops(s, step)
  BY <1>2, <1>3, <1>5 DEF ComesUp, CommandStops, history
<1>6. CASE MarkKilled(s) \/ MarkDead(s) \/ FileAway(s) \/ Restore(s) \/ MarkLive(s)
  BY <1>2, <1>6, CommandWrites, GivesBackTyped DEF RowsTyped, Typed, TypeOK
<1>7. CASE Delete(s)
  BY <1>2, <1>7, PurgeTyped DEF Delete, Writes, history, RowsTyped, Typed
<1>8. CASE PassFlushes(s) \/ FilesElsewhere(s)
  <2>1. row \in [Sessions -> Rows] /\ row[s].live \in BOOLEAN
    BY DEF Typed, TypeOK, Rows
  <2>2. row' \in [Sessions -> Rows]
    <3>1. \A b \in BOOLEAN : [row EXCEPT ![s].live = b] \in [Sessions -> Rows]
      BY <2>1, FieldsTyped
    <3>2. [row EXCEPT ![s].parent = Root] \in [Sessions -> Rows]
      BY <2>1, FieldsTyped
    <3>3. \/ row' = [row EXCEPT ![s].live = ~row[s].live]
          \/ row' = [row EXCEPT ![s].parent = Root]
      BY <1>8 DEF PassFlushes, FilesElsewhere
    <3>4. (~row[s].live) \in BOOLEAN
      OBVIOUS
    <3> QED
      BY <3>1, <3>2, <3>3, <3>4
  <2> QED
    BY <1>2, <1>8, <2>2 DEF PassFlushes, FilesElsewhere, history, RowsTyped, Typed, TypeOK
<1>9. CASE \E t \in Tasks : SettlesTask(t) \/ ClaimsTask(t, s)
  <2>1. owner' \in [Tasks -> Sessions \cup {None}] /\ late' \subseteq Tasks
    BY <1>9 DEF SettlesTask, ClaimsTask, Typed, TypeOK
  <2> QED
    BY <1>2, <1>9, <2>1 DEF SettlesTask, ClaimsTask, history, RowsTyped, Typed, TypeOK
<1> QED
  BY <1>4, <1>5, <1>6, <1>7, <1>8, <1>9 DEF Other, Command

\* The steps of Next, as the proofs take them.
LEMMA Split ==
  ASSUME Typed, [Next]_vars
  PROVE  \/ \E f \in Fresh, s \in Sessions, waits \in BOOLEAN : Begin(f, s, waits)
         \/ \E f \in Fresh : \/ CommitBegins(f) \/ AbortBegins(f) \/ ReplaceStep(f)
                             \/ SweepStep(f)
         \/ Crash \/ Start \/ Opens
         \/ \E s \in Sessions : Other(s)
         \/ UNCHANGED vars
<1>1. Fresh \subseteq Sessions
  BY DEF Sessions
<1>2. ASSUME NEW t \in Tasks, SettlesTask(t) PROVE \E s \in Sessions : Other(s)
  BY <1>2 DEF SettlesTask, Typed, TypeOK, Other
<1> QED
  BY <1>1, <1>2 DEF Next, Other, Command

LEMMA NextTyped ==
  ASSUME Typed, [Next]_vars
  PROVE  Typed'
<1>1. CASE \E f \in Fresh, s \in Sessions, waits \in BOOLEAN : Begin(f, s, waits)
  BY <1>1, BeginTyped
<1>2. CASE \E f \in Fresh : CommitBegins(f) \/ AbortBegins(f) \/ ReplaceStep(f) \/ SweepStep(f)
  BY <1>2, PaneStepTyped, RowStepTyped DEF ReplaceStep, SweepStep
<1>3. CASE Crash \/ Start \/ Opens
  BY <1>3, BoardTyped
<1>4. CASE \E s \in Sessions : Other(s)
  BY <1>4, OthersTyped
<1>5. CASE UNCHANGED vars
  BY <1>5 DEF vars, store, swap, history, bounds, others, Typed, TypeOK, Targets
<1> QED
  BY <1>1, <1>2, <1>3, <1>4, <1>5, Split

\* Rows, panes and records keep their types, through whatever fails or is killed
\* between the panes' changes and the rows' (boardreplace.go, replace.go).
THEOREM ReplacementTyped == Spec => []TypeOK
<1>1. Typed => TypeOK
  BY DEF Typed
<1> QED
  BY <1>1, InitTyped, NextTyped, PTL DEF Spec

-----------------------------------------------------------------------------
(* Claims have holders. *)

\* What keeps a claim that was in time on the board: a row that is not there is not
\* filed away, a fresh session has none before it is filed, and between the look at
\* its row and the swap its transaction keeps all others out.
Unfiled(f) ==
  at[f] \in {"idle", "record", "begin", "create"} \/ (at[f] = "look" /\ ~hold[f])
InTx == {"create", "file", "retire", "write"}
OfHandle == {"record", "file", "held", "open", "abort kill", "abort delete"}
Steady ==
  /\ \A s \in Sessions : ~row[s].there => ~row[s].archived
  /\ \A f \in Fresh : /\ Unfiled(f) => ~row[f].there
                      /\ at[f] \in InTx => tx = f
                      /\ at[f] \in {"retire", "write"} => ~row[f].archived
                      /\ at[f] \in OfHandle => hold[f]
Held == Steady /\ ClaimsHaveHolders

LEMMA HeldInit == Init => Held
<1> SUFFICES ASSUME Init PROVE Held
  OBVIOUS
<1>1. \A s \in Sessions : (~row[s].there => ~row[s].archived) /\ (s \in Fresh => ~row[s].there)
  BY RowsAtFirst, ReplacementAssumption
<1>2. \A f \in Fresh : f \in Sessions /\ at[f] = "idle"
  BY DEF Init, Sessions
<1>3. \A t \in Tasks : owner[t] = None
  BY DEF Init
<1> QED
  BY <1>1, <1>2, <1>3 DEF Held, Steady, ClaimsHaveHolders, InTime, InTx, OfHandle

\* A replacement's step that writes no row, no claim.
LEMMA StepHeld ==
  ASSUME Typed, Held, NEW f \in Fresh, Steps(f), row' = row, owner' = owner, late' = late,
         Unfiled(f)' => ~row[f].there,
         at'[f] \in InTx => tx' = f,
         tx' # tx => tx = None \/ tx = f,
         at'[f] \in {"retire", "write"} => ~row[f].archived,
         at'[f] \in OfHandle => hold[f]
  PROVE  Held'
<1>1. PICK place \in Places : Go(f, place)
  BY DEF Steps
<1>2. \A g \in Fresh \ {f} : at'[g] = at[g] /\ hold'[g] = hold[g] /\ g \in Sessions
  BY <1>1 DEF Steps, Go, Typed, TypeOK, Sessions
<1>3. \A s \in Sessions : ~row'[s].there => ~row'[s].archived
  BY DEF Held, Steady
<1>4. \A g \in Fresh \ {f} : at[g] \in InTx => tx' = g
  BY ReplacementAssumption DEF Held, Steady, Sessions
<1>5. \A g \in Fresh \ {f} : /\ Unfiled(g)' => ~row'[g].there
                             /\ at'[g] \in InTx => tx' = g
                             /\ at'[g] \in {"retire", "write"} => ~row'[g].archived
                             /\ at'[g] \in OfHandle => hold'[g]
  BY <1>2, <1>4 DEF Held, Steady, Unfiled
<1> QED
  BY <1>3, <1>5 DEF Held, Steady, ClaimsHaveHolders, InTime, Listed, Steps

LEMMA PaneStepHeld ==
  ASSUME Typed, Held, NEW f \in Fresh,
         \/ LookAtOld(f) \/ RecordHold(f) \/ OpenLaunch(f) \/ Create(f) \/ Retire(f)
         \/ Undo(f) \/ Unrecord(f) \/ CommitBegins(f) \/ OpenCommit(f) \/ AbortBegins(f)
         \/ KillHeld(f) \/ SweepLooks(f)
  PROVE  Held'
<1>1. Steps(f) /\ f \in Sessions
  BY Moves
<1>2. /\ at \in [Fresh -> Places] /\ hold' = hold
      /\ Unfiled(f) => ~row[f].there
      /\ at[f] \in InTx => tx = f
      /\ at[f] \in {"retire", "write"} => ~row[f].archived
      /\ ~row[f].there => ~row[f].archived
      /\ at[f] \in OfHandle => hold[f]
  BY <1>1 DEF Typed, TypeOK, Held, Steady, Steps
<1>3. CASE LookAtOld(f)
  BY <1>1, <1>2, <1>3, StepHeld DEF LookAtOld, Go, Unfiled, InTx, OfHandle, store
<1>4. CASE RecordHold(f)
  BY <1>1, <1>2, <1>4, StepHeld DEF RecordHold, Go, Unfiled, InTx, OfHandle
<1>5. CASE OpenLaunch(f)
  BY <1>1, <1>2, <1>5, Order, StepHeld DEF OpenLaunch, Failed, Go, Unfiled, InTx, OfHandle, store
<1>6. CASE Create(f)
  BY <1>1, <1>2, <1>6, Order, StepHeld DEF Create, Failed, Go, Unfiled, InTx, OfHandle, store
<1>7. CASE Retire(f)
  BY <1>1, <1>2, <1>7, Order, StepHeld DEF Retire, RolledBack, Ended, Go, Unfiled, InTx, OfHandle, store
<1>8. CASE Undo(f) \/ KillHeld(f)
  BY <1>1, <1>2, <1>8, StepHeld DEF Undo, KillHeld, Failed, At, Go, Unfiled, InTx, OfHandle, store
<1>9. CASE Unrecord(f) \/ SweepLooks(f)
  BY <1>1, <1>2, <1>9, StepHeld DEF Unrecord, SweepLooks, Go, Unfiled, InTx, OfHandle, store
<1>10. CASE CommitBegins(f)
  BY <1>1, <1>2, <1>10, StepHeld DEF CommitBegins, Go, Unfiled, InTx, OfHandle, store
<1>11. CASE OpenCommit(f)
  BY <1>1, <1>2, <1>11, StepHeld DEF OpenCommit, MayTake, Listed, Go, Unfiled, InTx, OfHandle, store
<1>12. CASE AbortBegins(f)
  BY <1>1, <1>2, <1>12, StepHeld DEF AbortBegins, Go, Unfiled, InTx, OfHandle, store
<1> QED
  BY <1>3, <1>4, <1>5, <1>6, <1>7, <1>8, <1>9, <1>10, <1>11, <1>12

\* A row filed, the seat taken, a held session removed.
LEMMA RowsHeld ==
  ASSUME Typed, Held, NEW f \in Fresh, Steps(f),
         at'[f] \in {"done", "held", "undo", "failed"}, at'[f] = "held" => hold[f],
         tx' # tx => tx = None \/ tx = f,
         \A s \in Sessions \ {f} : /\ row'[s].there = row[s].there
                                   /\ row'[s].archived = row[s].archived,
         ~row'[f].archived,
         row'[f].there \/ \A t \in Tasks : owner'[t] # f,
         \A t \in Tasks : InTime(t)' => \/ owner'[t] = f
                                        \/ owner'[t] = owner[t] /\ InTime(t)
  PROVE  Held'
<1>1. PICK place \in Places : Go(f, place)
  BY DEF Steps
<1>2. \A g \in Fresh \ {f} : at'[g] = at[g] /\ hold'[g] = hold[g] /\ g \in Sessions
  BY <1>1 DEF Steps, Go, Typed, TypeOK, Sessions
<1>3. \A s \in Sessions : ~row'[s].there => ~row'[s].archived
  BY DEF Held, Steady
<1>4. \A g \in Fresh \ {f} : at[g] \in InTx => tx' = g
  BY ReplacementAssumption DEF Held, Steady, Sessions
<1>5. \A g \in Fresh \ {f} : /\ Unfiled(g)' => ~row'[g].there
                             /\ at'[g] \in InTx => tx' = g
                             /\ at'[g] \in {"retire", "write"} => ~row'[g].archived
                             /\ at'[g] \in OfHandle => hold'[g]
  BY <1>2, <1>4 DEF Held, Steady, Unfiled
<1>6. ~Unfiled(f)' /\ at'[f] \notin InTx /\ (at'[f] \in OfHandle => hold'[f])
  BY DEF Unfiled, InTx, OfHandle, Steps
<1>7. ClaimsHaveHolders'
  <2> SUFFICES ASSUME NEW t \in Tasks, InTime(t)' PROVE Listed(owner[t])'
    BY DEF ClaimsHaveHolders
  <2>1. CASE owner'[t] = f
    BY <2>1 DEF Listed
  <2>2. CASE owner'[t] = owner[t] /\ InTime(t)
    <3>1. Listed(owner[t]) /\ owner[t] \in Sessions
      BY <2>2 DEF Held, ClaimsHaveHolders, InTime, Typed, TypeOK
    <3> QED
      BY <2>1, <2>2, <3>1 DEF Listed
  <2> QED
    BY <2>1, <2>2
<1> QED
  BY <1>3, <1>5, <1>6, <1>7 DEF Held, Steady, InTx

LEMMA FileLeafHeld ==
  ASSUME Typed, Held, NEW f \in Fresh, FileLeaf(f)
  PROVE  Held'
<1>1. Steps(f) /\ f \in Sessions
  BY Moves
<1>2. at \in [Fresh -> Places] /\ row \in [Sessions -> Rows] /\ tx = f /\ hold[f]
  BY DEF FileLeaf, Typed, TypeOK, Held, Steady, InTx, OfHandle
<1>3. CASE UNCHANGED row
  BY <1>1, <1>2, <1>3, StepHeld DEF FileLeaf, Go, Unfiled, InTx, OfHandle
<1>4. CASE row' = [row EXCEPT ![f] = [Absent EXCEPT !.there = TRUE, !.live = TRUE,
                                                    !.parent = target[f]]]
  <2>1. row'[f].there /\ ~row'[f].archived
    BY <1>1, <1>2, <1>4 DEF Absent
  <2>2. \A s \in Sessions \ {f} : row'[s] = row[s]
    BY <1>2, <1>4
  <2>3. \A t \in Tasks : InTime(t)' => owner'[t] = owner[t] /\ InTime(t)
    BY <1>4 DEF FileLeaf, InTime
  <2>4. at'[f] \in {"held", "undo"}
    BY <1>2 DEF FileLeaf, Go
  <2> QED
    BY <1>1, <1>2, <2>1, <2>2, <2>3, <2>4, RowsHeld DEF FileLeaf
<1> QED
  BY <1>3, <1>4 DEF FileLeaf

LEMMA WriteHeld ==
  ASSUME Typed, Held, NEW f \in Fresh, Write(f)
  PROVE  Held'
<1>1. Steps(f) /\ f \in Sessions /\ target[f] \in Sessions
  BY Moves
<1>2. /\ at \in [Fresh -> Places] /\ row \in [Sessions -> Rows] /\ tx = f
      /\ ~row[f].archived /\ owner \in [Tasks -> Sessions \cup {None}]
  BY DEF Write, Typed, TypeOK, Held, Steady, InTx
<1>3. CASE UNCHANGED store
  BY <1>1, <1>2, <1>3, StepHeld DEF Write, RolledBack, Go, Unfiled, InTx, OfHandle, store
<1>4. CASE TakeSeat(f) /\ Go(f, "done")
  <2>1. row'[f].there /\ ~row'[f].archived
    BY <1>1, <1>2, <1>4 DEF TakeSeat, Rows
  <2>2. \A s \in Sessions \ {f} : /\ row'[s].there = row[s].there
                                  /\ row'[s].archived = row[s].archived
    BY <1>1, <1>2, <1>4 DEF TakeSeat, Rows
  <2>3. \A t \in Tasks : owner'[t] = IF owner[t] = target[f] THEN f ELSE owner[t]
    BY <1>4 DEF TakeSeat, ClaimsMoved, Claims
  <2>5. \A t \in Tasks : InTime(t)' => owner'[t] = f \/ (owner'[t] = owner[t] /\ InTime(t))
    <3>1. late' = {t \in late : owner[t] # target[f]}
      BY <1>4 DEF TakeSeat
    <3> QED
      BY <2>3, <3>1 DEF InTime
  <2>6. at'[f] = "done"
    BY <1>2, <1>4 DEF Go
  <2> QED
    BY <1>1, <1>2, <2>1, <2>2, <2>5, <2>6, RowsHeld DEF Write
<1> QED
  BY <1>3, <1>4 DEF Write

\* Claims that go back are nobody's; the others are as they were.
LEMMA GivesBackHeld ==
  ASSUME Typed, NEW s \in Sessions, GivesBack(s)
  PROVE  /\ \A t \in Tasks : owner'[t] # s
         /\ \A t \in Tasks : InTime(t)' => owner'[t] = owner[t] /\ InTime(t)
<1>1. None # s
  BY ReplacementAssumption
<1>2. /\ \A t \in Tasks : owner'[t] = IF owner[t] = s THEN None ELSE owner[t]
      /\ late' = {t \in late : owner[t] # s}
  BY GivesBackTyped DEF Typed
<1> QED
  BY <1>1, <1>2 DEF InTime

\* A row that goes hands its claims back first.
LEMMA PurgeHeld ==
  ASSUME Typed, NEW s \in Sessions, Purge(s)
  PROVE  /\ ~row'[s].there /\ ~row'[s].archived /\ \A x \in Sessions \ {s} : row'[x] = row[x]
         /\ \A t \in Tasks : owner'[t] # s
         /\ \A t \in Tasks : InTime(t)' => owner'[t] = owner[t] /\ InTime(t)
<1>1. /\ ~row'[s].there /\ ~row'[s].archived /\ \A x \in Sessions \ {s} : row'[x] = row[x]
  BY DEF Purge, Absent, Typed, TypeOK
<1> QED
  BY <1>1, GivesBackHeld DEF Purge

LEMMA DeleteHeldHeld ==
  ASSUME Typed, Held, NEW f \in Fresh, DeleteHeld(f)
  PROVE  Held'
<1>1. Steps(f) /\ f \in Sessions
  BY Moves
<1>2. at \in [Fresh -> Places] /\ (at[f] \in OfHandle => hold[f])
  BY DEF Typed, TypeOK, Held, Steady
<1>3. CASE Purge(f) /\ Go(f, "done")
  <2>1. at'[f] = "done"
    BY <1>2, <1>3 DEF Go
  <2>2. \A s \in Sessions \ {f} : row'[s].there = row[s].there /\ row'[s].archived = row[s].archived
    BY <1>1, <1>3, PurgeHeld
  <2>3. ~row'[f].archived
    BY <1>1, <1>3, PurgeHeld
  <2>4. /\ \A t \in Tasks : owner'[t] # f
        /\ \A t \in Tasks : InTime(t)' => owner'[t] = owner[t] /\ InTime(t)
    BY <1>1, <1>3, PurgeHeld
  <2> QED
    BY <1>1, <2>1, <2>2, <2>3, <2>4, RowsHeld DEF DeleteHeld
<1>4. CASE UNCHANGED store /\ Go(f, IF at[f] = "abort delete" THEN "held" ELSE "failed")
  BY <1>1, <1>2, <1>4, StepHeld DEF DeleteHeld, Go, Unfiled, InTx, OfHandle, store
<1> QED
  BY <1>3, <1>4 DEF DeleteHeld

LEMMA BeginHeld ==
  ASSUME Typed, Held, NEW f \in Fresh, NEW s \in Sessions, NEW waits \in BOOLEAN, Begin(f, s, waits)
  PROVE  Held'
<1>1. \A g \in Fresh \ {f} : at'[g] = at[g] /\ hold'[g] = hold[g]
  BY DEF Begin, Go, Typed, TypeOK
<1>2. /\ at'[f] = (IF waits THEN "record" ELSE "look") /\ hold'[f] = waits
      /\ ~row[f].there
  BY DEF Begin, Go, Typed, TypeOK, Held, Steady, Unfiled
<1>3. row' = row /\ owner' = owner /\ late' = late /\ tx' = tx
  BY DEF Begin, store
<1>4. Steady'
  BY <1>1, <1>2, <1>3 DEF Held, Steady, Unfiled, InTx, OfHandle
<1> QED
  BY <1>3, <1>4 DEF Held, ClaimsHaveHolders, InTime, Listed

LEMMA BoardHeld ==
  ASSUME Typed, Held, Crash \/ Start \/ Opens
  PROVE  Held'
<1>1. row' = row /\ owner' = owner /\ late' = late /\ hold' = hold
  BY DEF Crash, Start, Opens, store, swap
<1>2. CASE Crash
  <2>1. \A f \in Fresh : (at'[f] = at[f] /\ at[f] \in {"idle", "done"}) \/ at'[f] = "lost"
    BY <1>2 DEF Crash, At
  <2> QED
    BY <1>1, <2>1 DEF Held, Steady, Unfiled, InTx, OfHandle, ClaimsHaveHolders, InTime, Listed
<1>3. CASE Start
  <2>1. \A f \in Fresh : at'[f] \in {at[f], "orphan"} /\ tx' = tx
    BY <1>3 DEF Start
  <2> QED
    BY <1>1, <2>1 DEF Held, Steady, Unfiled, InTx, OfHandle, ClaimsHaveHolders, InTime, Listed
<1>4. CASE Opens
  BY <1>1, <1>4 DEF Opens, Held, Steady, Unfiled, ClaimsHaveHolders, InTime, Listed
<1> QED
  BY <1>2, <1>3, <1>4

\* Others touch rows only where no transaction is open.
LEMMA OthersHeld ==
  ASSUME Typed, Held, NEW s \in Sessions, Other(s)
  PROVE  Held'
<1>1. Apart
  BY OthersApart
<1>2. /\ row \in [Sessions -> Rows] /\ owner \in [Tasks -> Sessions \cup {None}]
      /\ Fresh \subseteq Sessions /\ None \notin Sessions /\ s \notin {None}
  BY ReplacementAssumption DEF Typed, TypeOK, Sessions
<1>3. ASSUME \A x \in Sessions \ {s} : /\ row'[x].there = row[x].there
                                       /\ row'[x].archived = row[x].archived,
             row'[s].there => row[s].there, ~row'[s].there => ~row'[s].archived,
             (tx = None /\ row[s].there) \/ row'[s].archived = row[s].archived
      PROVE  Steady'
  <2>1. \A f \in Fresh : tx = None => at[f] \notin InTx
    BY <1>2 DEF Held, Steady
  <2> QED
    BY <1>1, <1>2, <1>3, <2>1 DEF Apart, Held, Steady, Unfiled, InTx
<1>4. ASSUME NEW t \in Tasks, InTime(t) PROVE owner[t] \in Sessions /\ Listed(owner[t])
  BY <1>2, <1>4 DEF Held, ClaimsHaveHolders, InTime
<1>5. CASE UNCHANGED store
  BY <1>1, <1>3, <1>4, <1>5
  DEF Apart, Held, Steady, Unfiled, ClaimsHaveHolders, InTime, Listed, store
<1>6. CASE MarkKilled(s) \/ MarkDead(s) \/ FileAway(s) \/ Restore(s) \/ MarkLive(s)
  <2>1. /\ tx = None /\ row[s].there /\ row'[s].there
        /\ \A x \in Sessions \ {s} : row'[x] = row[x]
        /\ \/ UNCHANGED <<owner, late>> /\ (row'[s].archived => row[s].archived)
           \/ GivesBack(s)
    BY <1>6, CommandWrites
  <2>2. Steady'
    BY <1>3, <2>1
  <2>3. ASSUME NEW t \in Tasks, InTime(t)' PROVE Listed(owner[t])'
    <3>1. CASE UNCHANGED <<owner, late>> /\ (row'[s].archived => row[s].archived)
      BY <1>4, <2>1, <2>3, <3>1 DEF InTime, Listed
    <3>2. CASE GivesBack(s)
      <4>1. owner'[t] = owner[t] /\ InTime(t) /\ owner[t] # s
        BY <2>3, <3>2, GivesBackHeld
      <4> QED
        BY <1>4, <2>1, <4>1 DEF Listed
    <3> QED
      BY <2>1, <3>1, <3>2
  <2> QED
    BY <2>2, <2>3 DEF Held, ClaimsHaveHolders
<1>7. CASE Delete(s)
  <2>1. /\ \A x \in Sessions \ {s} : row'[x] = row[x]
        /\ \A t \in Tasks : owner'[t] # s
        /\ \A t \in Tasks : InTime(t)' => owner'[t] = owner[t] /\ InTime(t)
        /\ tx = None /\ row[s].there /\ ~row'[s].there /\ ~row'[s].archived
    BY <1>7, PurgeHeld DEF Delete, Writes
  <2>2. Steady'
    BY <1>3, <2>1
  <2>3. ASSUME NEW t \in Tasks, InTime(t)' PROVE Listed(owner[t])'
    <3>1. owner'[t] = owner[t] /\ InTime(t) /\ owner[t] # s
      BY <2>1, <2>3
    <3> QED
      BY <1>4, <2>1, <3>1 DEF Listed
  <2> QED
    BY <2>2, <2>3 DEF Held, ClaimsHaveHolders
<1>8. CASE PassFlushes(s) \/ FilesElsewhere(s)
  <2>1. \A x \in Sessions : row'[x].there = row[x].there /\ row'[x].archived = row[x].archived
    BY <1>2, <1>8 DEF PassFlushes, FilesElsewhere, Rows
  <2>2. owner' = owner /\ late' = late
    BY <1>8 DEF PassFlushes, FilesElsewhere
  <2>3. Steady'
    BY <1>3, <2>1 DEF Held, Steady
  <2>4. ClaimsHaveHolders'
    BY <1>4, <2>1, <2>2 DEF ClaimsHaveHolders, InTime, Listed
  <2> QED
    BY <2>3, <2>4 DEF Held
<1>9. CASE \E t \in Tasks : SettlesTask(t) \/ ClaimsTask(t, s)
  <2>1. row' = row
    BY <1>9 DEF SettlesTask, ClaimsTask
  <2>2. Steady'
    BY <1>3, <2>1 DEF Held, Steady
  <2>3. \A t \in Tasks : InTime(t)' => \/ owner'[t] = owner[t] /\ InTime(t)
                                       \/ owner'[t] = s /\ Listed(s)
    <3>1. ASSUME NEW u \in Tasks, SettlesTask(u)
          PROVE  owner' = [owner EXCEPT ![u] = None] /\ late' = late \ {u}
      BY <3>1 DEF SettlesTask
    <3>2. ASSUME NEW u \in Tasks, ClaimsTask(u, s)
          PROVE  /\ owner' = [owner EXCEPT ![u] = s]
                 /\ \/ late' = late \cup {u}
                    \/ late' = late /\ Listed(s)
      BY <3>2 DEF ClaimsTask, Gone
    <3> QED
      BY <1>2, <1>9, <3>1, <3>2 DEF InTime
  <2>4. ClaimsHaveHolders'
    BY <1>4, <2>1, <2>3 DEF ClaimsHaveHolders, Listed
  <2> QED
    BY <2>2, <2>4 DEF Held
<1>10. CASE Exits(s) \/ Ends(s) \/ Revives(s) \/ ComesUp(s)
            \/ \E step \in CommandSteps : CommandStops(s, step)
  BY <1>5, <1>10 DEF Exits, Ends, EndsPane, Revives, ComesUp, CommandStops
<1> QED
  BY <1>6, <1>7, <1>8, <1>9, <1>10 DEF Other, Command

LEMMA NextHeld ==
  ASSUME Typed, Held, [Next]_vars
  PROVE  Held'
<1>1. CASE \E f \in Fresh, s \in Sessions, waits \in BOOLEAN : Begin(f, s, waits)
  BY <1>1, BeginHeld
<1>2. CASE \E f \in Fresh : CommitBegins(f) \/ AbortBegins(f) \/ ReplaceStep(f) \/ SweepStep(f)
  BY <1>2, PaneStepHeld, FileLeafHeld, WriteHeld, DeleteHeldHeld DEF ReplaceStep, SweepStep
<1>3. CASE Crash \/ Start \/ Opens
  BY <1>3, BoardHeld
<1>4. CASE \E s \in Sessions : Other(s)
  BY <1>4, OthersHeld
<1>5. CASE UNCHANGED vars
  BY <1>5 DEF vars, store, swap, Held, Steady, Unfiled, ClaimsHaveHolders, InTime, Listed
<1> QED
  BY <1>1, <1>2, <1>3, <1>4, <1>5, Split

\* Whoever has claimed a task is on the board, through every swap, refusal, abort
\* and sweep, and every command that ends a session, for any number of sessions and
\* replacements (takeSeat, giveBackTasks): all but the claims that land when their
\* session has gone already.
THEOREM ClaimsHeld == Spec => []ClaimsHaveHolders
<1>1. Held => ClaimsHaveHolders
  BY DEF Held
<1> QED
  BY <1>1, InitTyped, NextTyped, HeldInit, NextHeld, PTL DEF Spec

-----------------------------------------------------------------------------
(* What a replacement leaves behind. *)

\* The row of a fresh session is still to be written.
Minting(f) ==
  \/ at[f] \in {"idle", "record", "begin", "create", "file"}
  \/ ~hold[f] /\ at[f] \in {"look", "retire", "write"}
\* A session whose pane a replacement has ended is about to be replaced, its
\* transaction at its last step, or is replaced for good and owns nothing but what
\* it has claimed since.
AtWrite(s) == \E f \in Fresh : at[f] = "write" /\ target[f] = s
Vacated(s) ==
  (row[s].by # None \/ ~row[s].there) /\ \A t \in Tasks : owner[t] = s => t \in late
Stands(f) ==
  /\ at[f] # "idle" => target[f] # f
  /\ Minting(f) => ~row[f].there /\ f \notin swapped
  /\ at[f] \in InTx => row[target[f]].there
  /\ at[f] \in {"retire", "write"} /\ hold[f] => row[f].there /\ f \notin swapped
  /\ board = "down" => at[f] \in {"idle", "done", "lost"}
Seats ==
  /\ \A s \in Sessions : ~row[s].there \/ s \in Olds => row[s].parent = Root
  /\ \A f \in Fresh : Stands(f)
  /\ \A s \in swapped : s \notin pane /\ (AtWrite(s) \/ Vacated(s))

LEMMA SeatsInit == Init => Seats
<1> SUFFICES ASSUME Init PROVE Seats
  OBVIOUS
<1>1. \A s \in Sessions : row[s].parent = Root /\ (s \in Fresh => ~row[s].there)
  BY RowsAtFirst, ReplacementAssumption
<1>2. \A f \in Fresh : f \in Sessions /\ at[f] = "idle"
  BY DEF Init, Sessions
<1> QED
  BY <1>1, <1>2 DEF Init, Seats, Stands, InTx

\* A step that ends no pane it has seen, and writes no row.
LEMMA SeatsKept ==
  ASSUME Typed, Seats, NEW f \in Fresh, Steps(f), at[f] \notin {"done", "lost", "write"},
         row' = row, owner' = owner, late' = late, swapped' = swapped,
         pane' \subseteq pane \/ (pane' = pane \cup {f} /\ Minting(f)),
         Minting(f)' => Minting(f),
         at'[f] \in InTx => row[target[f]].there,
         at'[f] \in {"retire", "write"} /\ hold[f] => row[f].there /\ f \notin swapped
  PROVE  Seats'
<1>1. PICK place \in Places : Go(f, place)
  BY DEF Steps
<1>2. /\ \A g \in Fresh \ {f} : at'[g] = at[g]
      /\ hold' = hold /\ target' = target /\ board' = board
  BY <1>1 DEF Steps, Go, Typed, TypeOK
<1>3. board # "down"
  BY DEF Seats, Stands, Steps
<1>4. \A g \in Fresh \ {f} : Stands(g)'
  BY <1>2 DEF Seats, Stands, Minting
<1>5. Stands(f)'
  BY <1>2, <1>3 DEF Seats, Stands, Steps
<1>6. ASSUME NEW s \in swapped'
      PROVE  s \notin pane' /\ (AtWrite(s)' \/ Vacated(s)')
  <2>1. s \in swapped /\ s \notin pane /\ (AtWrite(s) \/ Vacated(s))
    BY <1>6 DEF Seats
  <2>2. s \notin pane'
    BY <2>1 DEF Seats, Stands
  <2>3. Vacated(s) => Vacated(s)'
    BY DEF Vacated
  <2>4. AtWrite(s) => AtWrite(s)'
    BY <1>2 DEF AtWrite
  <2> QED
    BY <2>1, <2>2, <2>3, <2>4
<1>7. \A s \in Sessions : ~row'[s].there \/ s \in Olds => row'[s].parent = Root
  BY DEF Seats
<1> QED
  BY <1>4, <1>5, <1>6, <1>7 DEF Seats

\* The steps of a replacement that write no row and end no seen pane.
LEMMA PaneStepSeats ==
  ASSUME Typed, Held, Seats, NEW f \in Fresh,
         \/ LookAtOld(f) \/ RecordHold(f) \/ OpenLaunch(f) \/ Create(f) \/ Undo(f)
         \/ Unrecord(f) \/ CommitBegins(f) \/ OpenCommit(f) \/ AbortBegins(f)
         \/ KillHeld(f) \/ SweepLooks(f)
  PROVE  Seats'
<1>1. Steps(f) /\ f \in Sessions
  BY Moves
<1>2. /\ at \in [Fresh -> Places] /\ hold' = hold
      /\ Minting(f) => ~row[f].there /\ f \notin swapped
      /\ at[f] \in InTx => row[target[f]].there
      /\ at[f] \in {"retire", "write"} /\ hold[f] => row[f].there /\ f \notin swapped
      /\ at[f] \in OfHandle => hold[f]
      /\ f \in pane => f \notin swapped
  BY <1>1 DEF Typed, TypeOK, Held, Steady, Steps, Seats, Stands
<1>3. CASE LookAtOld(f)
  BY <1>1, <1>2, <1>3, SeatsKept DEF LookAtOld, Go, Minting, InTx, store, history
<1>4. CASE RecordHold(f)
  BY <1>1, <1>2, <1>4, SeatsKept DEF RecordHold, Go, Minting, InTx, history
<1>5. CASE OpenLaunch(f)
  BY <1>1, <1>2, <1>5, Order, SeatsKept DEF OpenLaunch, Failed, Go, Minting, InTx, store, history
<1>6. CASE Create(f)
  BY <1>1, <1>2, <1>6, Order, SeatsKept DEF Create, Failed, Go, Minting, InTx, store, history
<1>7. CASE Undo(f) \/ KillHeld(f)
  BY <1>1, <1>2, <1>7, SeatsKept DEF Undo, KillHeld, Failed, At, Go, Minting, InTx, store, history
<1>8. CASE Unrecord(f) \/ SweepLooks(f)
  BY <1>1, <1>2, <1>8, SeatsKept DEF Unrecord, SweepLooks, Go, Minting, InTx, store, history
<1>9. CASE CommitBegins(f) \/ AbortBegins(f)
  BY <1>1, <1>2, <1>9, SeatsKept
  DEF CommitBegins, AbortBegins, Go, Minting, InTx, OfHandle, store, history
<1>10. CASE OpenCommit(f)
  BY <1>1, <1>2, <1>10, SeatsKept
  DEF OpenCommit, MayTake, Listed, Go, Minting, InTx, OfHandle, store, history
<1> QED
  BY <1>3, <1>4, <1>5, <1>6, <1>7, <1>8, <1>9, <1>10

\* The old pane is ended at the step before its replacement's last.
LEMMA RetireSeats ==
  ASSUME Typed, Held, Seats, NEW f \in Fresh, Retire(f)
  PROVE  Seats'
<1>1. Steps(f) /\ f \in Sessions /\ target[f] \in Sessions
  BY Moves
<1>2. /\ at \in [Fresh -> Places] /\ hold' = hold /\ target' = target /\ board' = board
      /\ at[f] = "retire" /\ row' = row /\ owner' = owner /\ late' = late
  BY DEF Retire, Typed, TypeOK, Held, Steady, swap, store
<1>3. /\ Minting(f) => ~row[f].there /\ f \notin swapped
      /\ row[target[f]].there /\ target[f] # f
      /\ hold[f] => row[f].there /\ f \notin swapped
  BY <1>2 DEF Seats, Stands, InTx
<1>4. CASE swapped' = swapped
  <2>1. pane' \subseteq pane /\ at'[f] \in {"held", "undo", "write"}
    BY <1>2, Order DEF Retire, RolledBack, Go
  <2> QED
    BY <1>1, <1>2, <1>3, <1>4, <2>1, SeatsKept DEF Minting, InTx
<1>5. CASE /\ pane' = pane \ Ended(f) /\ swapped' = swapped \cup Ended(f)
           /\ Go(f, IF hold[f] THEN "write" ELSE After("retire"))
  <2>1. at'[f] = "write" /\ \A g \in Fresh \ {f} : at'[g] = at[g]
    BY <1>2, <1>5, Order DEF Go
  <2>2. Ended(f) \subseteq {target[f]}
    BY DEF Ended
  <2>3. ASSUME NEW g \in Fresh PROVE Stands(g)'
    <3>1. CASE g = f
      BY <1>2, <1>3, <1>5, <2>1, <2>2, <3>1 DEF Seats, Stands, Minting, InTx
    <3>2. CASE g # f
      <4>1. at[g] \notin {"retire", "write"}
        BY <1>2, <3>2 DEF Held, Steady, InTx
      <4>2. at'[g] = at[g] /\ Minting(g)' = Minting(g)
        BY <1>2, <2>1, <3>2 DEF Minting
      <4>3. Minting(g) => g # target[f]
        BY <1>3 DEF Seats, Stands
      <4> QED
        BY <1>2, <1>5, <2>2, <4>1, <4>2, <4>3 DEF Seats, Stands
    <3> QED
      BY <3>1, <3>2
  <2>4. ASSUME NEW s \in swapped'
        PROVE  s \notin pane' /\ (AtWrite(s)' \/ Vacated(s)')
    <3>1. CASE s \in Ended(f)
      BY <1>2, <1>5, <2>1, <2>2, <3>1 DEF AtWrite
    <3>2. CASE s \in swapped
      <4>1. Vacated(s) => Vacated(s)'
        BY <1>2 DEF Vacated
      <4>2. AtWrite(s) => AtWrite(s)'
        BY <1>2, <2>1 DEF AtWrite
      <4> QED
        BY <1>5, <3>2, <4>1, <4>2 DEF Seats
    <3> QED
      BY <1>5, <3>1, <3>2
  <2>5. \A s \in Sessions : ~row'[s].there \/ s \in Olds => row'[s].parent = Root
    BY <1>2 DEF Seats
  <2> QED
    BY <2>3, <2>4, <2>5 DEF Seats
<1> QED
  BY <1>4, <1>5 DEF Retire

LEMMA FileLeafSeats ==
  ASSUME Typed, Held, Seats, NEW f \in Fresh, FileLeaf(f)
  PROVE  Seats'
<1>1. Steps(f) /\ f \in Sessions /\ target[f] \in Sessions
  BY Moves
<1>2. /\ at \in [Fresh -> Places] /\ row \in [Sessions -> Rows] /\ hold' = hold
      /\ target' = target /\ board' = board /\ at[f] = "file" /\ hold[f]
      /\ swapped' = swapped /\ owner' = owner /\ late' = late /\ pane' = pane
  BY DEF FileLeaf, Typed, TypeOK, Held, Steady, OfHandle, swap, history
<1>3. f \notin swapped /\ at'[f] \in {"held", "undo"}
      /\ \A g \in Fresh \ {f} : at'[g] = at[g]
  BY <1>2 DEF FileLeaf, Go, Seats, Stands, Minting
<1>4. CASE UNCHANGED row
  BY <1>1, <1>2, <1>3, <1>4, SeatsKept DEF FileLeaf, Minting, InTx
<1>5. CASE row' = [row EXCEPT ![f] = [Absent EXCEPT !.there = TRUE, !.live = TRUE,
                                                    !.parent = target[f]]]
  <2>1. row'[f].there /\ \A s \in Sessions \ {f} : row'[s] = row[s]
    BY <1>1, <1>2, <1>5 DEF Absent
  <2>2. ASSUME NEW g \in Fresh PROVE Stands(g)'
    <3>1. CASE g = f
      BY <1>2, <1>3, <3>1 DEF Stands, Seats, Minting, InTx
    <3>2. CASE g # f
      <4>1. at[g] \notin InTx /\ g \in Sessions
        BY <1>2, <3>2 DEF Held, Steady, InTx, Sessions
      <4> QED
        BY <1>2, <1>3, <2>1, <3>2, <4>1 DEF Stands, Seats, Minting, InTx
    <3> QED
      BY <3>1, <3>2
  <2>3. ASSUME NEW s \in swapped'
        PROVE  s \notin pane' /\ (AtWrite(s)' \/ Vacated(s)')
    <3>1. s \in Sessions \ {f}
      BY <1>2, <1>3, <2>3 DEF Typed, TypeOK
    <3>2. Vacated(s) => Vacated(s)'
      BY <1>2, <2>1, <3>1 DEF Vacated
    <3>3. AtWrite(s) => AtWrite(s)'
      BY <1>2, <1>3 DEF AtWrite
    <3> QED
      BY <1>2, <2>3, <3>2, <3>3 DEF Seats
  <2>4. \A s \in Sessions : ~row'[s].there \/ s \in Olds => row'[s].parent = Root
    BY <2>1, ReplacementAssumption DEF Seats
  <2> QED
    BY <2>2, <2>3, <2>4 DEF Seats
<1> QED
  BY <1>4, <1>5 DEF FileLeaf

\* The seat is taken, with the claims; a write that fails leaves nothing swapped.
LEMMA WriteSeats ==
  ASSUME Typed, Held, Seats, NEW f \in Fresh, Write(f)
  PROVE  Seats'
<1>1. Steps(f) /\ f \in Sessions /\ target[f] \in Sessions
  BY Moves
<1>2. /\ at \in [Fresh -> Places] /\ row \in [Sessions -> Rows] /\ hold' = hold
      /\ target' = target /\ board' = board /\ at[f] = "write" /\ pane' = pane
      /\ owner \in [Tasks -> Sessions \cup {None}] /\ swapped \subseteq Sessions
  BY DEF Write, Typed, TypeOK, swap
<1>3. f \notin swapped /\ target[f] # f
  BY <1>2 DEF Seats, Stands, Minting
<1>4. \A g \in Fresh \ {f} : at[g] \notin InTx /\ at'[g] = at[g] /\ Minting(g)' = Minting(g)
  BY <1>2 DEF Write, Go, Held, Steady, InTx, Minting
<1>5. \A s \in swapped : s # target[f] => Vacated(s)
  BY <1>2, <1>4 DEF Seats, AtWrite, InTx
<1>6. CASE Go(f, RolledBack(f)) /\ swapped' = swapped \ {target[f]} /\ UNCHANGED store
  <2>1. at'[f] \in {"held", "undo"}
    BY <1>2, <1>6 DEF RolledBack, Go
  <2>2. \A g \in Fresh : Stands(g)'
    BY <1>2, <1>4, <1>6, <2>1 DEF Stands, Seats, Minting, InTx, store
  <2>3. \A s \in swapped' : s \notin pane' /\ Vacated(s)'
    BY <1>2, <1>5, <1>6 DEF Seats, Vacated, store
  <2>4. \A s \in Sessions : ~row'[s].there \/ s \in Olds => row'[s].parent = Root
    BY <1>6 DEF Seats, store
  <2> QED
    BY <2>2, <2>3, <2>4 DEF Seats
<1>7. CASE TakeSeat(f) /\ Go(f, "done") /\ UNCHANGED swapped
  <2>1. /\ \A s \in Sessions \ {f} : row'[s].there = row[s].there /\ row'[s].parent = row[s].parent
        /\ \A s \in Sessions \ {f, target[f]} : row'[s].by = row[s].by
        /\ row'[f].there /\ row'[target[f]].by # None
    <3>1. f # None
      BY <1>1, ReplacementAssumption
    <3>2. /\ \A s \in Sessions \ {f} : row'[s].there = row[s].there
          /\ row'[f].there
      BY <1>1, <1>2, <1>3, <1>7 DEF TakeSeat, Rows
    <3>3. \A s \in Sessions \ {f, target[f]} : row'[s] = row[s]
      BY <1>1, <1>2, <1>3, <1>7 DEF TakeSeat
    <3>4. row'[target[f]].parent = row[target[f]].parent /\ row'[target[f]].by = f
      BY <1>1, <1>2, <1>3, <1>7 DEF TakeSeat, Successor, Rows
    <3> QED
      BY <3>1, <3>2, <3>3, <3>4
  <2>2. /\ \A t \in Tasks : owner'[t] = IF owner[t] = target[f] THEN f ELSE owner[t]
        /\ late' = {t \in late : owner[t] # target[f]}
    BY <1>7 DEF TakeSeat, ClaimsMoved, Claims
  <2>3. at'[f] = "done"
    BY <1>2, <1>7 DEF Go
  <2>4. ASSUME NEW g \in Fresh PROVE Stands(g)'
    <3>1. CASE g = f
      BY <1>2, <2>3, <3>1 DEF Stands, Seats, Minting, InTx
    <3>2. CASE g # f
      <4>1. g \in Sessions
        BY DEF Sessions
      <4> QED
        BY <1>2, <1>4, <1>7, <2>1, <3>2, <4>1 DEF Stands, Seats, InTx
    <3> QED
      BY <3>1, <3>2
  <2>5. ASSUME NEW s \in swapped'
        PROVE  s \notin pane' /\ Vacated(s)'
    <3>1. s \in swapped /\ s # f /\ s \in Sessions /\ s \notin pane
      BY <1>2, <1>3, <1>7, <2>5 DEF Seats
    <3>2. CASE s = target[f]
      BY <1>2, <2>1, <2>2, <3>1, <3>2 DEF Vacated
    <3>3. CASE s # target[f]
      BY <1>2, <1>5, <2>1, <2>2, <3>1, <3>3 DEF Vacated
    <3> QED
      BY <3>2, <3>3
  <2>6. \A s \in Sessions : ~row'[s].there \/ s \in Olds => row'[s].parent = Root
    BY <2>1, ReplacementAssumption DEF Seats
  <2> QED
    BY <2>4, <2>5, <2>6 DEF Seats
<1> QED
  BY <1>6, <1>7 DEF Write

\* Between transactions nobody is about to take a seat, and a row may go.
LEMMA Between ==
  ASSUME Typed, Held, Seats, tx = None
  PROVE  /\ \A g \in Fresh : at[g] \notin InTx
         /\ \A s \in swapped : s \in Sessions /\ s \notin pane /\ Vacated(s)
<1>1. \A g \in Fresh : g # None
  BY ReplacementAssumption DEF Sessions
<1>2. \A g \in Fresh : at[g] \notin InTx
  BY <1>1 DEF Held, Steady
<1> QED
  BY <1>2 DEF Seats, AtWrite, InTx, Typed, TypeOK

\* Claims handed back are nobody's, and those that came late stay with whom they did.
LEMMA GivesBackVacates ==
  ASSUME Typed, NEW s \in Sessions, GivesBack(s), NEW x \in Sessions,
         \A t \in Tasks : owner[t] = x => t \in late
  PROVE  \A t \in Tasks : owner'[t] = x => t \in late'
<1>1. None # x
  BY ReplacementAssumption
<1>2. /\ \A t \in Tasks : owner'[t] = IF owner[t] = s THEN None ELSE owner[t]
      /\ late' = {t \in late : owner[t] # s}
  BY GivesBackTyped DEF Typed
<1> QED
  BY <1>1, <1>2

LEMMA PurgeSeats ==
  ASSUME Typed, Held, Seats, tx = None, NEW s \in Sessions, Purge(s),
         hold' = hold, target' = target, board' = board, swapped' = swapped,
         pane' \subseteq pane, ~\E g \in Fresh : at[g] = "idle" /\ at'[g] # "idle",
         \A g \in Fresh : at'[g] = at[g] \/ (at[g] \notin {"done", "lost"} /\ at'[g] \in {"done"})
  PROVE  Seats'
<1>1. /\ \A g \in Fresh : at[g] \notin InTx /\ g \in Sessions
      /\ \A x \in swapped : x \in Sessions /\ x \notin pane /\ Vacated(x)
  BY Between DEF Sessions
<1>2. /\ ~row'[s].there /\ row'[s].parent = Root
      /\ \A x \in Sessions \ {s} : row'[x] = row[x]
  BY DEF Purge, Absent, Typed, TypeOK
<1>3. ASSUME NEW g \in Fresh PROVE Stands(g)'
  <2>1. Minting(g)' => Minting(g)
    BY DEF Minting
  <2>2. at'[g] \notin InTx
    BY <1>1 DEF InTx
  <2>3. ~row[g].there => ~row'[g].there
    BY <1>1, <1>2
  <2> QED
    BY <2>1, <2>2, <2>3 DEF Seats, Stands, InTx
<1>4. \A x \in swapped' : x \notin pane' /\ Vacated(x)'
  <2>1. \A x \in swapped : (\A t \in Tasks : owner[t] = x => t \in late)
                            => \A t \in Tasks : owner'[t] = x => t \in late'
    BY <1>1, GivesBackVacates DEF Purge
  <2> QED
    BY <1>1, <1>2, <2>1 DEF Vacated
<1>5. \A x \in Sessions : ~row'[x].there \/ x \in Olds => row'[x].parent = Root
  BY <1>2 DEF Seats
<1> QED
  BY <1>3, <1>4, <1>5 DEF Seats

LEMMA DeleteHeldSeats ==
  ASSUME Typed, Held, Seats, NEW f \in Fresh, DeleteHeld(f)
  PROVE  Seats'
<1>1. Steps(f) /\ f \in Sessions /\ at \in [Fresh -> Places] /\ at[f] # "done"
      /\ (at[f] = "abort delete" => hold[f])
  BY Moves DEF DeleteHeld, At, Typed, TypeOK, Held, Steady, OfHandle
<1>2. CASE Purge(f) /\ Go(f, "done")
  <2>1. at'[f] = "done" /\ \A g \in Fresh \ {f} : at'[g] = at[g]
    BY <1>1, <1>2 DEF Go
  <2> QED
    BY <1>1, <1>2, <2>1, PurgeSeats DEF DeleteHeld, Steps, At, swap, history
<1>3. CASE UNCHANGED store /\ Go(f, IF at[f] = "abort delete" THEN "held" ELSE "failed")
  BY <1>1, <1>3, SeatsKept DEF DeleteHeld, At, Go, Minting, InTx, store, history
<1> QED
  BY <1>2, <1>3 DEF DeleteHeld

LEMMA BeginSeats ==
  ASSUME Typed, Seats, NEW f \in Fresh, NEW s \in Sessions, NEW waits \in BOOLEAN, Begin(f, s, waits)
  PROVE  Seats'
<1>1. \A g \in Fresh \ {f} : at'[g] = at[g] /\ hold'[g] = hold[g] /\ target'[g] = target[g]
  BY DEF Begin, Go, Typed, TypeOK
<1>2. /\ at'[f] = (IF waits THEN "record" ELSE "look") /\ hold'[f] = waits
      /\ target'[f] = s /\ s # f /\ Minting(f)
  BY DEF Begin, Go, Typed, TypeOK, Minting
<1>3. /\ row' = row /\ owner' = owner /\ late' = late /\ pane' = pane
      /\ swapped' = swapped /\ board' = board
      /\ board # "down" /\ at[f] = "idle"
  BY DEF Begin, store, history
<1>4. \A g \in Fresh : Stands(g)'
  BY <1>1, <1>2, <1>3 DEF Seats, Stands, Minting, InTx
<1>5. ASSUME NEW x \in swapped' PROVE x \notin pane' /\ (AtWrite(x)' \/ Vacated(x)')
  BY <1>1, <1>3 DEF Seats, AtWrite, Vacated
<1> QED
  BY <1>3, <1>4, <1>5 DEF Seats

LEMMA BoardSeats ==
  ASSUME Typed, Seats, Crash \/ Start \/ Opens
  PROVE  Seats'
<1>1. /\ row' = row /\ owner' = owner /\ late' = late /\ pane' = pane
      /\ hold' = hold /\ target' = target
  BY DEF Crash, Start, Opens, store, swap
<1>2. \A s \in Sessions : ~row'[s].there \/ s \in Olds => row'[s].parent = Root
  BY <1>1 DEF Seats
<1>3. CASE Crash
  <2>1. \A f \in Fresh : (at'[f] = at[f] /\ at[f] \in {"idle", "done"})
                         \/ (at[f] # "idle" /\ at'[f] = "lost")
    BY <1>3 DEF Crash, At
  <2>2. swapped' \subseteq swapped /\ \A s \in swapped' : ~AtWrite(s)
    BY <1>3 DEF Crash, AtWrite
  <2>3. \A f \in Fresh : Stands(f)'
    BY <1>1, <2>1, <2>2 DEF Seats, Stands, Minting, InTx
  <2>4. \A s \in swapped' : s \notin pane' /\ Vacated(s)'
    BY <1>1, <2>2 DEF Seats, Vacated
  <2> QED
    BY <1>2, <2>3, <2>4 DEF Seats
<1>4. CASE Start \/ Opens
  <2>1. swapped' = swapped /\ board' # "down"
    BY <1>4 DEF Start, Opens, history
  <2>2. \A f \in Fresh : at'[f] = at[f] \/ (at[f] \in {"done", "lost"} /\ at'[f] = "orphan")
    BY <1>4 DEF Start, Orphans, Opens, Seats, Stands, Typed, Targets
  <2>3. \A f \in Fresh : Stands(f)'
    BY <1>1, <2>1, <2>2 DEF Seats, Stands, Minting, InTx
  <2>4. ASSUME NEW s \in swapped' PROVE s \notin pane' /\ (AtWrite(s)' \/ Vacated(s)')
    BY <1>1, <2>1, <2>2 DEF Seats, AtWrite, Vacated
  <2> QED
    BY <1>2, <2>1, <2>3, <2>4 DEF Seats
<1> QED
  BY <1>3, <1>4

\* What others do to a row: its claims handed back, its parent the top, or kept.
LEMMA OthersSeats ==
  ASSUME Typed, Held, Seats, NEW s \in Sessions, Other(s)
  PROVE  Seats'
<1>1. Apart
  BY OthersApart
<1>2. /\ row \in [Sessions -> Rows] /\ pane \subseteq Sessions /\ swapped \subseteq Sessions
      /\ owner \in [Tasks -> Sessions \cup {None}] /\ Fresh \subseteq Sessions
      /\ None \notin Sessions
  BY ReplacementAssumption DEF Typed, TypeOK, Sessions
<1>3. CASE Exits(s) \/ Ends(s) \/ Revives(s) \/ ComesUp(s)
           \/ \E step \in CommandSteps : CommandStops(s, step)
  <2>1. /\ row' = row /\ owner' = owner /\ late' = late /\ swapped' \subseteq swapped
        /\ \A x \in pane' : x \in pane \/ x \notin swapped'
    BY <1>3 DEF Exits, Ends, EndsPane, Revives, ComesUp, CommandStops, store, history
  <2>2. \A f \in Fresh : Stands(f)'
    BY <1>1, <2>1 DEF Apart, Seats, Stands, Minting
  <2>3. ASSUME NEW x \in swapped' PROVE x \notin pane' /\ (AtWrite(x)' \/ Vacated(x)')
    BY <1>1, <2>1 DEF Apart, Seats, AtWrite, Vacated
  <2> QED
    BY <2>1, <2>2, <2>3 DEF Seats
<1>4. CASE Delete(s)
  BY <1>1, <1>4, PurgeSeats DEF Delete, Writes, Apart, history
<1>5. ASSUME tx = None, pane' \subseteq pane, swapped' = swapped,
             \A x \in Sessions : /\ row'[x].there = row[x].there /\ row'[x].by = row[x].by
                                 /\ row'[x].parent \in {row[x].parent, Root},
             UNCHANGED <<owner, late>> \/ GivesBack(s)
      PROVE  Seats'
  <2>1. /\ \A f \in Fresh : at[f] \notin InTx
        /\ \A x \in swapped : x \in Sessions /\ x \notin pane /\ Vacated(x)
    BY <1>5, Between
  <2>2. ASSUME NEW f \in Fresh PROVE Stands(f)'
    <3>1. at[f] \notin InTx /\ Minting(f)' = Minting(f) /\ f \in Sessions
      BY <1>1, <1>2, <2>1 DEF Apart, Minting
    <3> QED
      BY <1>1, <1>5, <3>1 DEF Apart, Seats, Stands, InTx
  <2>3. \A x \in swapped : (\A t \in Tasks : owner[t] = x => t \in late)
                            => \A t \in Tasks : owner'[t] = x => t \in late'
    BY <1>5, <2>1, GivesBackVacates
  <2>4. \A x \in swapped' : x \notin pane' /\ Vacated(x)'
    BY <1>2, <1>5, <2>1, <2>3 DEF Vacated
  <2>5. \A x \in Sessions : ~row'[x].there \/ x \in Olds => row'[x].parent = Root
    BY <1>5 DEF Seats
  <2> QED
    BY <2>2, <2>4, <2>5 DEF Seats
<1>6. CASE PassFlushes(s) \/ FilesElsewhere(s)
  <2>1. /\ tx = None /\ pane' = pane /\ UNCHANGED <<owner, late>> /\ swapped' = swapped
        /\ \A x \in Sessions \ {s} : row'[x] = row[x]
    BY <1>2, <1>6 DEF PassFlushes, FilesElsewhere, history
  <2>2. /\ row'[s].there = row[s].there /\ row'[s].by = row[s].by
        /\ row'[s].parent \in {row[s].parent, Root}
    BY <1>2, <1>6 DEF PassFlushes, FilesElsewhere, Rows
  <2> QED
    BY <2>1, <2>2, <1>5
<1>7. CASE MarkKilled(s) \/ MarkDead(s) \/ FileAway(s) \/ Restore(s) \/ MarkLive(s)
  BY <1>7, <1>5, CommandWrites
<1>8. CASE \E t \in Tasks : SettlesTask(t) \/ ClaimsTask(t, s)
  <2>1. row' = row /\ pane' = pane /\ swapped' = swapped
    BY <1>8 DEF SettlesTask, ClaimsTask, history
  <2>2. \A f \in Fresh : Stands(f)'
    BY <1>1, <2>1 DEF Apart, Seats, Stands, Minting
  <2>3. ASSUME NEW x \in swapped, x \in Sessions, \A t \in Tasks : owner[t] = x => t \in late
        PROVE  \A t \in Tasks : owner'[t] = x => t \in late'
    <3>1. ASSUME NEW u \in Tasks, SettlesTask(u)
          PROVE  owner' = [owner EXCEPT ![u] = None] /\ late' = late \ {u}
      BY <3>1 DEF SettlesTask
    <3>2. ASSUME NEW u \in Tasks, ClaimsTask(u, s)
          PROVE  /\ owner' = [owner EXCEPT ![u] = s] /\ late \subseteq late'
                 /\ s \in swapped => u \in late'
      BY <3>2 DEF ClaimsTask, Gone
    <3> QED
      BY <1>2, <1>8, <2>3, <3>1, <3>2
  <2>4. ASSUME NEW x \in swapped' PROVE x \notin pane' /\ (AtWrite(x)' \/ Vacated(x)')
    <3>1. x \in swapped /\ x \in Sessions /\ x \notin pane /\ (AtWrite(x) \/ Vacated(x))
      BY <1>2, <2>1, <2>4 DEF Seats
    <3>2. Vacated(x) => Vacated(x)'
      BY <2>1, <2>3, <3>1 DEF Vacated
    <3>3. AtWrite(x) => AtWrite(x)'
      BY <1>1 DEF Apart, AtWrite
    <3> QED
      BY <2>1, <3>1, <3>2, <3>3
  <2> QED
    BY <2>1, <2>2, <2>4 DEF Seats
<1> QED
  BY <1>3, <1>4, <1>6, <1>7, <1>8 DEF Other, Command

LEMMA NextSeats ==
  ASSUME Typed, Held, Seats, [Next]_vars
  PROVE  Seats'
<1>1. CASE \E f \in Fresh, s \in Sessions, waits \in BOOLEAN : Begin(f, s, waits)
  BY <1>1, BeginSeats
<1>2. CASE \E f \in Fresh : CommitBegins(f) \/ AbortBegins(f) \/ ReplaceStep(f) \/ SweepStep(f)
  BY <1>2, PaneStepSeats, RetireSeats, FileLeafSeats, WriteSeats, DeleteHeldSeats
  DEF ReplaceStep, SweepStep
<1>3. CASE Crash \/ Start \/ Opens
  BY <1>3, BoardSeats
<1>4. CASE \E s \in Sessions : Other(s)
  BY <1>4, OthersSeats
<1>5. CASE UNCHANGED vars
  <2>1. /\ row' = row /\ owner' = owner /\ late' = late /\ pane' = pane /\ board' = board
        /\ at' = at /\ target' = target /\ hold' = hold /\ swapped' = swapped
    BY <1>5 DEF vars, store, swap, history
  <2> QED
    BY <2>1 DEF Seats, Stands, Minting, AtWrite, Vacated
<1> QED
  BY <1>1, <1>2, <1>3, <1>4, <1>5, Split

\* A replacement that is refused, that fails before its rows are written or that is
\* taken back has left the old session running: a pane it ended is that of a session
\* whose seat it has taken, or is taking (BoardReplace, BoardCommitReplace), however
\* many replacements run at once and whatever is revived, killed or deleted meanwhile.
THEOREM OldRunsOnHolds == Spec => []OldRunsOn
<1>1. Typed /\ Held /\ Seats => OldRunsOn
  <2> SUFFICES ASSUME Typed, Held, Seats, NEW s \in swapped
               PROVE  row[s].by # None \/ (tx # None /\ target[tx] = s) \/ ~row[s].there
    BY DEF OldRunsOn
  <2>1. CASE AtWrite(s)
    <3>1. PICK f \in Fresh : at[f] = "write" /\ target[f] = s
      BY <2>1 DEF AtWrite
    <3>2. tx = f /\ f # None
      BY <3>1, ReplacementAssumption DEF Held, Steady, InTx, Sessions
    <3> QED
      BY <3>1, <3>2
  <2>2. CASE Vacated(s)
    BY <2>2 DEF Vacated
  <2> QED
    BY <2>1, <2>2 DEF Seats
<1> QED
  BY <1>1, InitTyped, NextTyped, HeldInit, NextHeld, SeatsInit, NextSeats, PTL DEF Spec

\* No task waits on a session that a replacement has ended: the claims have gone to
\* its successor with the seat (takeSeat), or back with its row.  What it claims after
\* that, by a write that waited for the swap, stays with it.
THEOREM NoWorkIsLeftBehind == Spec => []NoWorkLeftBehind
<1>1. Typed /\ Held /\ Seats => NoWorkLeftBehind
  <2> SUFFICES ASSUME Typed, Held, Seats, NEW t \in Tasks, InTime(t), owner[t] \in swapped,
                      tx = None
               PROVE  FALSE
    BY DEF NoWorkLeftBehind
  <2> QED
    BY Between DEF Vacated, InTime
<1> QED
  BY <1>1, InitTyped, NextTyped, HeldInit, NextHeld, SeatsInit, NextSeats, PTL DEF Spec

-----------------------------------------------------------------------------
(* Who is filed under whom. *)

\* A set of sessions that holds, with each fresh one, the session it replaces.
Minted == Olds \cup {f \in Fresh : at[f] # "idle"}
Closed(S) == S \subseteq Minted /\ \A f \in S \cap Fresh : target[f] \in S
\* Replacements go one way: what a session replaces, what that one has replaced
\* and so on never comes back to it; and a session is filed under one of those, or
\* at the top.  So no session is filed under itself.
Older ==
  \A f \in Fresh : at[f] # "idle" =>
    \E S \in SUBSET Sessions : Closed(S) /\ target[f] \in S /\ f \notin S
Above ==
  \A S \in SUBSET Sessions : Closed(S) =>
    \A f \in Fresh : at[f] # "idle" /\ target[f] \in S => row[f].parent \in S \cup {Root}
Lineage == Older /\ Above

LEMMA LineageInit == Init => Lineage
BY DEF Init, Lineage, Older, Above

LEMMA LineageKept ==
  ASSUME Typed, Seats, Lineage, target' = target,
         \A f \in Fresh : at'[f] = "idle" <=> at[f] = "idle",
         \A f \in Fresh : \/ row'[f].parent \in {row[f].parent, Root}
                          \/ /\ at[f] # "idle"
                             /\ row'[f].parent \in {target[f], row[target[f]].parent}
  PROVE  Lineage'
<1>1. \A S \in SUBSET Sessions : Closed(S)' = Closed(S)
  BY DEF Closed, Minted
<1>2. Older'
  BY <1>1 DEF Lineage, Older
<1>3. ASSUME NEW S \in SUBSET Sessions, Closed(S), NEW f \in Fresh, at[f] # "idle", target[f] \in S
      PROVE  row'[f].parent \in S \cup {Root}
  <2>1. row[f].parent \in S \cup {Root}
    BY <1>3 DEF Lineage, Above
  <2>2. row[target[f]].parent \in S \cup {Root}
    <3>1. CASE target[f] \in Olds
      BY <1>3, <3>1 DEF Seats
    <3>2. CASE target[f] \in Fresh
      BY <1>3, <3>2, ReplacementAssumption DEF Closed, Minted, Lineage, Above
    <3> QED
      BY <1>3, <3>1, <3>2 DEF Sessions
  <2> QED
    BY <1>3, <2>1, <2>2
<1>4. Above'
  BY <1>1, <1>3 DEF Above
<1> QED
  BY <1>2, <1>4 DEF Lineage

LEMMA BeginLineage ==
  ASSUME Typed, Seats, Lineage, NEW f \in Fresh, NEW s \in Sessions, NEW waits \in BOOLEAN,
         Begin(f, s, waits)
  PROVE  Lineage'
<1>1. /\ \A g \in Fresh \ {f} : at'[g] = at[g] /\ target'[g] = target[g]
      /\ at[f] = "idle" /\ at'[f] # "idle" /\ target'[f] = s /\ row' = row /\ f \in Sessions
  BY DEF Begin, Go, Typed, TypeOK, store, Sessions
<1>2. s \in Minted /\ f \notin Minted
  <2>1. row[s].there
    BY DEF Begin, Listed
  <2> QED
    BY <1>1, <2>1, ReplacementAssumption DEF Seats, Stands, Minting, Minted, Sessions
<1>3. \A g \in Fresh : at[g] # "idle" => target[g] \in Minted
  BY DEF Lineage, Older, Closed
<1>4. Minted' = Minted \cup {f} /\ Minted \in SUBSET Sessions
  BY <1>1 DEF Minted, Sessions
<1>5. ASSUME NEW S \in SUBSET Sessions, Closed(S) PROVE Closed(S)'
  BY <1>1, <1>2, <1>4, <1>5 DEF Closed
<1>6. Older'
  <2> SUFFICES ASSUME NEW g \in Fresh, NEW a, a = at'[g], a # "idle", NEW u, u = target'[g]
               PROVE  \E S \in SUBSET Sessions : Closed(S)' /\ u \in S /\ g \notin S
    BY DEF Older
  <2>1. CASE g = f
    <3>1. Closed(Minted)
      BY <1>3, ReplacementAssumption DEF Closed, Minted
    <3> QED
      BY <1>1, <1>2, <1>4, <1>5, <2>1, <3>1
  <2>2. CASE g # f
    BY <1>1, <1>5, <2>2 DEF Lineage, Older
  <2> QED
    BY <2>1, <2>2
<1>7. ASSUME NEW S \in SUBSET Sessions, Closed(S)', NEW g \in Fresh,
             NEW a, a = at'[g], a # "idle", NEW u, u = target'[g], u \in S
      PROVE  row[g].parent \in S \cup {Root}
  <2>1. Closed(S \ {f})
    BY <1>1, <1>3, <1>4, <1>7, ReplacementAssumption DEF Closed, Minted
  <2>2. CASE g = f
    BY <1>1, <2>2 DEF Seats, Stands, Minting
  <2>3. CASE g # f
    <3>1. target[g] \in S \ {f} /\ at[g] # "idle"
      BY <1>1, <1>2, <1>3, <1>7, <2>3
    <3> QED
      BY <2>1, <3>1 DEF Lineage, Above
  <2> QED
    BY <2>2, <2>3
<1>8. Above'
  BY <1>1, <1>7 DEF Above
<1> QED
  BY <1>6, <1>8 DEF Lineage

\* No row is filed under itself, nor under itself through what it replaces.
LEMMA NotUnderItself ==
  ASSUME Typed, Seats, Lineage, NEW f \in Fresh, at[f] # "idle"
  PROVE  row[target[f]].parent # target[f]
<1>1. target[f] \in Sessions /\ target[f] \in Minted /\ target[f] # Root
  BY ReplacementAssumption DEF Typed, Targets, Lineage, Older, Closed
<1>2. CASE target[f] \in Olds
  BY <1>1, <1>2 DEF Seats
<1>3. CASE target[f] \in Fresh
  <2>1. at[target[f]] # "idle"
    BY <1>1, <1>3, ReplacementAssumption DEF Minted
  <2> QED
    BY <1>1, <1>3, <2>1 DEF Lineage, Older, Above
<1> QED
  BY <1>1, <1>2, <1>3 DEF Sessions

LEMMA NextLineage ==
  ASSUME Typed, Held, Seats, Lineage, [Next]_vars
  PROVE  Lineage'
<1>0. row \in [Sessions -> Rows] /\ at \in [Fresh -> Places]
  BY DEF Typed, TypeOK
<1>1. CASE \E f \in Fresh, s \in Sessions, waits \in BOOLEAN : Begin(f, s, waits)
  BY <1>1, BeginLineage
<1>2. ASSUME NEW f \in Fresh, CommitBegins(f) \/ AbortBegins(f) \/ ReplaceStep(f) \/ SweepStep(f)
      PROVE  Lineage'
  <2>1. Steps(f) /\ target[f] \in Sessions
    BY <1>2, Moves DEF ReplaceStep, SweepStep
  <2>2. target' = target /\ \A g \in Fresh : at'[g] = "idle" <=> at[g] = "idle"
    BY <1>0, <2>1 DEF Steps, Go
  <2>3. CASE row' = row
    BY <2>2, <2>3, LineageKept
  <2>4. CASE FileLeaf(f) \/ Write(f) \/ DeleteHeld(f)
    <3>1. \A g \in Fresh : \/ row'[g].parent \in {row[g].parent, Root}
                           \/ /\ at[g] # "idle"
                              /\ row'[g].parent \in {target[g], row[target[g]].parent}
      <4>1. ASSUME row' = [row EXCEPT ![f] = [Absent EXCEPT !.there = TRUE, !.live = TRUE,
                                                            !.parent = target[f]]],
                   NEW g \in Fresh
            PROVE  row'[g].parent = row[g].parent \/ (g = f /\ row'[g].parent = target[f])
        BY <1>0, <4>1 DEF Absent
      <4>2. ASSUME TakeSeat(f), NEW g \in Fresh
            PROVE  \/ row'[g].parent = row[g].parent
                   \/ g = f /\ row'[g].parent = row[target[f]].parent
        <5>1. row' = [row EXCEPT ![target[f]].live = FALSE, ![target[f]].by = Successor(f),
                                 ![f].there = TRUE, ![f].parent = row[target[f]].parent,
                                 ![f].live = ~hold[f] \/ row[f].live]
          BY <4>2 DEF TakeSeat
        <5>2. f \in Sessions /\ g \in Sessions /\ \A x \in Sessions : row[x] \in Rows
          BY <1>0 DEF Sessions
        <5>3. CASE g = f
          <6>1. row'[f].parent = row[target[f]].parent
            BY <1>0, <2>1, <5>1, <5>2 DEF Rows
          <6> QED
            BY <5>3, <6>1
        <5>4. CASE g # f /\ g = target[f]
          <6>1. row'[g] = [row[g] EXCEPT !.live = FALSE, !.by = Successor(f)]
            BY <1>0, <5>1, <5>2, <5>4
          <6> QED
            BY <5>2, <6>1 DEF Rows
        <5>5. CASE g # f /\ g # target[f]
          BY <1>0, <5>1, <5>2, <5>5
        <5> QED
          BY <5>3, <5>4, <5>5
      <4>3. ASSUME Purge(f), NEW g \in Fresh
            PROVE  row'[g].parent \in {row[g].parent, Root}
        BY <1>0, <4>3 DEF Purge, Absent
      <4>4. row' = row \/ TakeSeat(f) \/ Purge(f)
            \/ row' = [row EXCEPT ![f] = [Absent EXCEPT !.there = TRUE, !.live = TRUE,
                                                        !.parent = target[f]]]
        BY <2>4 DEF FileLeaf, Write, DeleteHeld, store
      <4> QED
        BY <2>1, <4>1, <4>2, <4>3, <4>4 DEF Steps
    <3> QED
      BY <2>2, <3>1, LineageKept
  <2> QED
    BY <1>2, <2>3, <2>4
    DEF ReplaceStep, SweepStep, CommitBegins, AbortBegins, LookAtOld, RecordHold, OpenLaunch,
        Create, Retire, Undo, OpenCommit, SweepLooks, KillHeld, Unrecord, store
<1>3. CASE Crash \/ Start \/ Opens
  <2>1. target' = target /\ row' = row /\ \A f \in Fresh : at'[f] = "idle" <=> at[f] = "idle"
    BY <1>3 DEF Crash, Start, Opens, Orphans, At, Typed, Targets, store, swap
  <2> QED
    BY <2>1, LineageKept
<1>4. ASSUME NEW s \in Sessions, Other(s)
      PROVE  Lineage'
  <2>1. target' = target /\ at' = at
    BY <1>4, OthersApart DEF Apart
  <2>2. CASE row' = row
    BY <2>1, <2>2, LineageKept
  <2>3. CASE /\ \A x \in Sessions \ {s} : row'[x] = row[x]
             /\ row'[s].parent \in {row[s].parent, Root}
    BY <2>1, <2>3, LineageKept DEF Sessions
  <2>4. CASE MarkKilled(s) \/ MarkDead(s) \/ FileAway(s) \/ Restore(s) \/ MarkLive(s)
    BY <2>3, <2>4, CommandWrites
  <2>5. CASE Delete(s) \/ PassFlushes(s) \/ FilesElsewhere(s)
    <3>1. \A x \in Sessions \ {s} : row'[x] = row[x]
      BY <1>0, <2>5 DEF Delete, Purge, PassFlushes, FilesElsewhere
    <3>2. CASE Delete(s)
      BY <1>0, <2>3, <3>1, <3>2 DEF Delete, Purge, Absent
    <3>3. CASE PassFlushes(s)
      BY <1>0, <2>3, <3>1, <3>3 DEF PassFlushes, Rows
    <3>4. CASE FilesElsewhere(s)
      BY <1>0, <2>3, <3>1, <3>4 DEF FilesElsewhere, Rows
    <3> QED
      BY <2>5, <3>2, <3>3, <3>4
  <2>6. CASE \/ Exits(s) \/ Ends(s) \/ Revives(s) \/ ComesUp(s)
             \/ \E step \in CommandSteps : CommandStops(s, step)
             \/ \E t \in Tasks : SettlesTask(t) \/ ClaimsTask(t, s)
    BY <2>2, <2>6
    DEF Exits, Ends, EndsPane, Revives, ComesUp, CommandStops, SettlesTask, ClaimsTask, store
  <2> QED
    BY <1>4, <2>4, <2>5, <2>6 DEF Other, Command
<1>5. CASE UNCHANGED vars
  <2>1. target' = target /\ at' = at /\ row' = row
    BY <1>5 DEF vars, store, swap
  <2> QED
    BY <2>1, LineageKept
<1> QED
  BY <1>1, <1>2, <1>3, <1>4, <1>5, Split

-----------------------------------------------------------------------------
(* Held sessions are on record. *)

\* What a place says of the record: it is made before the launch begins, and it is
\* only dropped, with or without the row, once the pane is gone or is filed elsewhere.
\* A command works on sessions that have had a row, and one that deletes has ended the
\* pane first: if that is up again, somebody has brought it up.
Out(f) == f \notin pane \ (woken \cup stray)
Kept(f) ==
  /\ hold[f] /\ ~Out(f) /\ (row[f].there => Nested(f)) => held[f] = target[f]
  /\ hold[f] /\ at[f] \in {"begin", "create", "file"} => held[f] = target[f]
  /\ Unfiled(f) => f \notin pane
  /\ at[f] = "unrecord" => Out(f) \/ (row[f].there /\ ~Nested(f))
  /\ at[f] \in {"abort delete", "sweep delete"} => Out(f)
OnRecord(f) ==
  /\ Kept(f)
  /\ row[f].there => f \in filed
  /\ Minting(f) => f \notin filed
  /\ \A k \in CommandSteps : <<f, k>> \in doing => f \in filed
  /\ <<f, "delete">> \in doing => Out(f)
Recorded == \A f \in Fresh : OnRecord(f)

LEMMA RecordedInit == Init => Recorded
<1> SUFFICES ASSUME Init PROVE Recorded
  OBVIOUS
<1>1. \A f \in Fresh : f \notin pane /\ at[f] = "idle" /\ f \notin filed /\ ~row[f].there
  BY RowsAtFirst, ReplacementAssumption DEF Init, Sessions
<1>2. doing = {}
  BY DEF Init
<1> QED
  BY <1>1, <1>2 DEF Recorded, OnRecord, Kept, Out

\* What others do leaves a session's record alone; a row they delete goes after its pane.
LEMMA RecordKept ==
  ASSUME Typed, Seats, Recorded, NEW f \in Fresh,
         at'[f] = at[f], hold'[f] = hold[f], target'[f] = target[f],
         f \in filed' <=> f \in filed, Out(f) => Out(f)',
         f \in pane' => f \in pane \/ f \in filed,
         \A k \in CommandSteps : <<f, k>> \in doing' => f \in filed,
         <<f, "delete">> \in doing' => <<f, "delete">> \in doing \/ f \notin pane',
         \/ held'[f] = held[f] /\ row'[f].there = row[f].there /\ (Nested(f)' => Nested(f))
         \/ row[f].there /\ Out(f) /\ ~row'[f].there
  PROVE  OnRecord(f)'
<1>1. Unfiled(f)' = Unfiled(f) /\ Minting(f)' = Minting(f) /\ (Unfiled(f) => Minting(f))
  BY DEF Unfiled, Minting
<1>2. Minting(f) => ~row[f].there
  BY DEF Seats, Stands
<1>3. /\ row'[f].there => f \in filed'
      /\ Minting(f)' => f \notin filed'
      /\ \A k \in CommandSteps : <<f, k>> \in doing' => f \in filed'
      /\ <<f, "delete">> \in doing' => Out(f)'
      /\ Unfiled(f)' => f \notin pane'
  BY <1>1 DEF Recorded, OnRecord, Kept, Out
<1>4. CASE held'[f] = held[f] /\ row'[f].there = row[f].there /\ (Nested(f)' => Nested(f))
  <2>1. row[f].there /\ ~Nested(f) => row'[f].there /\ ~Nested(f)'
    BY <1>4
  <2>2. (row'[f].there => Nested(f)') => (row[f].there => Nested(f))
    BY <1>4
  <2> QED
    BY <1>3, <1>4, <2>1, <2>2 DEF Recorded, OnRecord, Kept
<1>5. CASE row[f].there /\ Out(f) /\ ~row'[f].there
  <2>1. Out(f)' /\ at'[f] \notin {"begin", "create", "file"}
    BY <1>2, <1>5 DEF Minting
  <2> QED
    BY <1>3, <2>1 DEF OnRecord, Kept
<1> QED
  BY <1>4, <1>5

LEMMA StepRecorded ==
  ASSUME Typed, Seats, Recorded, NEW f \in Fresh, Steps(f), OnRecord(f)', woken' = woken,
         stray \subseteq stray', filed' \in {filed, filed \cup {f}}, pane' \subseteq pane \cup {f},
         \A g \in Fresh \ {f} : /\ held'[g] = held[g] /\ row'[g].there = row[g].there
                                /\ row'[g].parent = row[g].parent
  PROVE  Recorded'
<1>1. \A g \in Fresh \ {f} : at'[g] = at[g] /\ hold'[g] = hold[g] /\ target'[g] = target[g]
  BY DEF Steps, Go, Typed, TypeOK
<1>2. ASSUME NEW g \in Fresh \ {f} PROVE OnRecord(g)'
  <2>1. Nested(g)' => Nested(g)
    BY <1>1 DEF Nested
  <2>2. Out(g) => Out(g)'
    BY DEF Out
  <2>3. doing' = doing /\ \A k \in CommandSteps : <<g, k>> \in doing => g \in filed
    BY DEF Steps, Recorded, OnRecord
  <2> QED
    BY <1>1, <2>1, <2>2, <2>3, RecordKept
<1> QED
  BY <1>2 DEF Recorded

\* What its own step leaves of a session's record.
LEMMA OwnRecord ==
  ASSUME Typed, Seats, Recorded, NEW f \in Fresh, Steps(f), woken' = woken, stray \subseteq stray',
         \/ row'[f].there => row[f].there
         \/ f \in filed',
         \/ filed' = filed /\ (Minting(f)' => Minting(f))
         \/ filed' = filed \cup {f} /\ ~Minting(f)',
         pane' \subseteq pane \/ (pane' \subseteq pane \cup {f} /\ Minting(f))
  PROVE  /\ row'[f].there => f \in filed'
         /\ Minting(f)' => f \notin filed'
         /\ \A k \in CommandSteps : <<f, k>> \in doing' => f \in filed'
         /\ <<f, "delete">> \in doing' => Out(f)'
<1>1. doing' = doing /\ "delete" \in CommandSteps
  BY DEF Steps, CommandSteps
<1>2. /\ row[f].there => f \in filed
      /\ Minting(f) => f \notin filed
      /\ \A k \in CommandSteps : <<f, k>> \in doing => f \in filed
      /\ <<f, "delete">> \in doing => Out(f)
  BY DEF Recorded, OnRecord
<1> QED
  BY <1>1, <1>2 DEF Out

LEMMA PaneStepRecorded ==
  ASSUME Typed, Held, Seats, Recorded, NEW f \in Fresh,
         \/ LookAtOld(f) \/ RecordHold(f) \/ OpenLaunch(f) \/ Create(f) \/ Retire(f)
         \/ Undo(f) \/ Unrecord(f) \/ CommitBegins(f) \/ OpenCommit(f) \/ AbortBegins(f)
         \/ KillHeld(f) \/ SweepLooks(f)
  PROVE  Recorded'
<1>1. Steps(f) /\ f \in Sessions /\ target[f] \in Sessions
  BY Moves
<1>2. /\ at \in [Fresh -> Places] /\ held \in [Fresh -> Sessions \cup {None}]
      /\ hold' = hold /\ target' = target /\ woken' = woken /\ row' = row
      /\ filed' = filed /\ stray \subseteq stray'
      /\ at[f] \in OfHandle => hold[f]
  BY <1>1 DEF Typed, TypeOK, Held, Steady, Steps, LookAtOld, RecordHold, OpenLaunch, Create,
     Retire, Undo, Unrecord, CommitBegins, OpenCommit, AbortBegins, KillHeld, SweepLooks,
     store, history, others
<1>3. \A g \in Fresh \ {f} : /\ held'[g] = held[g] /\ row'[g].there = row[g].there
                             /\ row'[g].parent = row[g].parent
  <2>1. held' = held \/ held' = [held EXCEPT ![f] = target[f]] \/ held' = [held EXCEPT ![f] = None]
    BY DEF LookAtOld, RecordHold, Record, OpenLaunch, Create, Retire, Undo, Unrecord,
           CommitBegins, OpenCommit, AbortBegins, KillHeld, SweepLooks, store
  <2> QED
    BY <1>2, <2>1
<1>4. pane' \subseteq pane \cup {f}
  BY DEF LookAtOld, RecordHold, OpenLaunch, Create, Retire, Undo, Unrecord,
         CommitBegins, OpenCommit, AbortBegins, KillHeld, SweepLooks
<1>5. OnRecord(f) /\ Nested(f)' = Nested(f)
  BY <1>2 DEF Recorded, Nested
<1>6. (Minting(f)' => Minting(f)) /\ (pane' \subseteq pane \/ Minting(f))
  <2>1. CASE LookAtOld(f) \/ RecordHold(f) \/ OpenLaunch(f)
    BY <1>2, <2>1, Order DEF LookAtOld, RecordHold, OpenLaunch, Failed, Minting, OfHandle, Go
  <2>2. CASE Create(f) \/ Retire(f)
    BY <1>2, <2>2, Order DEF Create, Retire, RolledBack, Failed, Minting, Go
  <2>3. CASE Undo(f) \/ KillHeld(f)
    BY <1>2, <2>3 DEF Undo, KillHeld, Failed, At, Minting, Go
  <2>4. CASE Unrecord(f) \/ SweepLooks(f) \/ CommitBegins(f) \/ OpenCommit(f) \/ AbortBegins(f)
    BY <1>2, <2>4
    DEF Unrecord, SweepLooks, CommitBegins, OpenCommit, AbortBegins, Minting, OfHandle, Go
  <2> QED
    BY <2>1, <2>2, <2>3, <2>4
<1>7. /\ row'[f].there => f \in filed'
      /\ Minting(f)' => f \notin filed'
      /\ \A k \in CommandSteps : <<f, k>> \in doing' => f \in filed'
      /\ <<f, "delete">> \in doing' => Out(f)'
  BY <1>1, <1>2, <1>4, <1>6, OwnRecord
<1>8. Kept(f)' => OnRecord(f)'
  BY <1>7 DEF OnRecord
<1>9. Kept(f)
  BY <1>5 DEF OnRecord
<1>10. Kept(f)'
  <2>1. CASE LookAtOld(f)
    BY <1>2, <1>5, <1>9, <2>1 DEF LookAtOld, Kept, Out, Go, Unfiled, store
  <2>2. CASE RecordHold(f)
    BY <1>2, <1>5, <1>9, <2>2 DEF RecordHold, Record, Kept, Out, Go, Unfiled, OfHandle
  <2>3. CASE OpenLaunch(f)
    BY <1>2, <1>5, <1>9, <2>3, Order DEF OpenLaunch, Failed, Kept, Out, Go, Unfiled, store
  <2>4. CASE Create(f)
    BY <1>2, <1>5, <1>9, <2>4, Order DEF Create, Failed, Kept, Out, Go, Unfiled, store
  <2>5. CASE Retire(f)
    <3>1. pane' \subseteq pane /\ held' = held /\ at'[f] \in {"held", "undo", "write"}
      BY <1>2, <2>5, Order DEF Retire, RolledBack, Go, store
    <3> QED
      BY <1>2, <1>5, <1>9, <3>1 DEF Kept, Out, Unfiled
  <2>6. CASE Undo(f)
    BY <1>2, <1>5, <1>9, <2>6 DEF Undo, Failed, Kept, Out, Go, Unfiled, store
  <2>7. CASE Unrecord(f)
    BY <1>2, <1>5, <1>9, <2>7 DEF Unrecord, Kept, Out, Go, Unfiled
  <2>8. CASE CommitBegins(f)
    BY <1>2, <1>5, <1>9, <2>8 DEF CommitBegins, Kept, Out, Go, Unfiled, OfHandle, store
  <2>9. CASE OpenCommit(f) \/ AbortBegins(f)
    BY <1>2, <1>5, <1>9, <2>9 DEF OpenCommit, AbortBegins, Kept, Out, Go, Unfiled, store
  <2>10. CASE KillHeld(f)
    BY <1>2, <1>5, <1>9, <2>10 DEF KillHeld, At, Kept, Out, Go, Unfiled, store
  <2>11. CASE SweepLooks(f)
    BY <1>2, <1>5, <1>9, <2>11 DEF SweepLooks, Kept, Out, Go, Unfiled, store
  <2> QED
    BY <2>1, <2>2, <2>3, <2>4, <2>5, <2>6, <2>7, <2>8, <2>9, <2>10, <2>11
<1> QED
  BY <1>1, <1>2, <1>3, <1>4, <1>8, <1>10, StepRecorded

LEMMA RowStepRecorded ==
  ASSUME Typed, Held, Seats, Lineage, Recorded, NEW f \in Fresh,
         FileLeaf(f) \/ Write(f) \/ DeleteHeld(f)
  PROVE  Recorded'
<1>1. Steps(f) /\ f \in Sessions /\ target[f] \in Sessions
  BY Moves
<1>2. /\ at \in [Fresh -> Places] /\ held \in [Fresh -> Sessions \cup {None}]
      /\ row \in [Sessions -> Rows] /\ Fresh \subseteq Sessions
      /\ hold' = hold /\ target' = target /\ woken' = woken /\ stray' = stray /\ pane' = pane
      /\ filed' \in {filed, filed \cup {f}}
      /\ at[f] \in OfHandle => hold[f]
  BY <1>1 DEF Typed, TypeOK, Held, Steady, Steps, FileLeaf, Write, DeleteHeld, history, others,
     Sessions
<1>3. Kept(f)
  BY DEF Recorded, OnRecord
<1>4. ASSUME Kept(f)', ~Minting(f)' \/ (Minting(f) /\ filed' = filed),
             (row'[f].there => row[f].there) \/ f \in filed'
      PROVE  OnRecord(f)'
  BY <1>1, <1>2, <1>4, OwnRecord DEF OnRecord
<1>5. CASE /\ UNCHANGED store
           /\ \/ Go(f, RolledBack(f))
              \/ Go(f, IF at[f] = "abort delete" THEN "held" ELSE "failed")
  <2>1. at'[f] \in {"held", "undo", "failed"}
    BY <1>2, <1>5 DEF RolledBack, Go
  <2>2. Nested(f)' = Nested(f) /\ held' = held /\ row' = row
    BY <1>2, <1>5 DEF Nested, store
  <2>3. OnRecord(f)'
    BY <1>2, <1>3, <1>4, <2>1, <2>2 DEF Kept, Minting, Out, Unfiled
  <2> QED
    BY <1>1, <1>2, <2>2, <2>3, StepRecorded
<1>6. CASE FileLeaf(f)
  <2>1. held' = held /\ \A g \in Fresh \ {f} : row'[g] = row[g]
    BY <1>2, <1>6 DEF FileLeaf
  <2>2. held[f] = target[f] /\ at'[f] \in {"held", "undo"}
    BY <1>2, <1>3, <1>6 DEF FileLeaf, Go, Kept, OfHandle
  <2>3. row' = row \/ filed' = filed \cup {f}
    BY <1>6 DEF FileLeaf
  <2>4. OnRecord(f)'
    BY <1>2, <1>4, <2>1, <2>2, <2>3 DEF Kept, Minting, Unfiled
  <2> QED
    BY <1>1, <1>2, <2>1, <2>4, StepRecorded
<1>7. CASE TakeSeat(f) /\ Go(f, "done") /\ filed' = filed \cup {f}
  <2>1. /\ row'[f].there /\ row'[f].parent = row[target[f]].parent
        /\ \A g \in Sessions \ {f} : row'[g].there = row[g].there /\ row'[g].parent = row[g].parent
    BY <1>1, <1>2, <1>7 DEF TakeSeat, Rows
  <2>2. ~Nested(f)'
    BY <1>1, <1>2, <2>1, NotUnderItself DEF Nested, Steps
  <2>3. at'[f] = "done" /\ \A g \in Fresh \ {f} : held'[g] = held[g]
    BY <1>2, <1>7 DEF TakeSeat, Go
  <2>4. OnRecord(f)'
    BY <1>7, <1>4, <2>1, <2>2, <2>3 DEF Kept, Minting, Unfiled
  <2> QED
    BY <1>1, <1>2, <2>1, <2>3, <2>4, StepRecorded
<1>8. CASE DeleteHeld(f) /\ Purge(f) /\ Go(f, "done")
  <2>1. /\ \A g \in Fresh \ {f} : held'[g] = held[g] /\ row'[g] = row[g]
        /\ at'[f] = "done"
    BY <1>2, <1>8 DEF Purge, Go
  <2>2. Out(f) /\ Out(f)'
    BY <1>2, <1>3, <1>8 DEF DeleteHeld, At, Kept, Out
  <2>3. ~row'[f].there
    BY <1>2, <1>8 DEF Purge, Absent, Sessions
  <2>4. OnRecord(f)'
    BY <1>4, <2>1, <2>2, <2>3 DEF Kept, Minting, Unfiled
  <2> QED
    BY <1>1, <1>2, <2>1, <2>4, StepRecorded
<1> QED
  BY <1>5, <1>6, <1>7, <1>8 DEF Write, DeleteHeld

LEMMA BeginRecorded ==
  ASSUME Typed, Seats, Recorded, NEW f \in Fresh, NEW s \in Sessions, NEW waits \in BOOLEAN,
         Begin(f, s, waits)
  PROVE  Recorded'
<1>1. /\ \A g \in Fresh \ {f} : /\ at'[g] = at[g] /\ hold'[g] = hold[g]
                                /\ target'[g] = target[g]
      /\ row' = row /\ held' = held /\ pane' = pane /\ woken' = woken /\ stray' = stray
      /\ filed' = filed /\ doing' = doing
      /\ at[f] = "idle" /\ at'[f] = (IF waits THEN "record" ELSE "look")
  BY DEF Begin, Go, Typed, TypeOK, store, history, others
<1>2. ASSUME NEW g \in Fresh \ {f} PROVE OnRecord(g)'
  <2>1. \A k \in CommandSteps : <<g, k>> \in doing => g \in filed
    BY DEF Recorded, OnRecord
  <2> QED
    BY <1>1, <2>1, RecordKept DEF Nested, Out
<1>3. OnRecord(f) /\ f \notin pane /\ Minting(f)
  BY <1>1 DEF Recorded, OnRecord, Kept, Unfiled, Minting
<1>4. OnRecord(f)'
  BY <1>1, <1>3 DEF OnRecord, Kept, Out
<1> QED
  BY <1>2, <1>4 DEF Recorded

LEMMA BoardRecorded ==
  ASSUME Typed, Seats, Recorded, Crash \/ Start \/ Opens
  PROVE  Recorded'
<1>1. /\ row' = row /\ held' = held /\ pane' = pane /\ woken' = woken
      /\ hold' = hold /\ target' = target /\ stray' = stray /\ filed' = filed /\ doing' = doing
  BY DEF Crash, Start, Opens, store, swap, history, others
<1>2. \A f \in Fresh : at'[f] = at[f] \/ at'[f] \in {"lost", "orphan"}
  BY DEF Crash, Start, Opens
<1>3. ASSUME NEW f \in Fresh PROVE OnRecord(f)'
  <2>1. Nested(f)' = Nested(f) /\ Out(f)' = Out(f)
    BY <1>1 DEF Nested, Out
  <2>2. (Unfiled(f)' => Unfiled(f)) /\ (Minting(f)' => Minting(f))
    BY <1>1, <1>2 DEF Unfiled, Minting
  <2> QED
    BY <1>1, <1>2, <2>1, <2>2 DEF Recorded, OnRecord, Kept
<1> QED
  BY <1>3 DEF Recorded

LEMMA OthersRecorded ==
  ASSUME Typed, Seats, Recorded, NEW s \in Sessions, Other(s)
  PROVE  Recorded'
<1> SUFFICES ASSUME NEW f \in Fresh PROVE OnRecord(f)'
  BY DEF Recorded
<1>1. /\ row \in [Sessions -> Rows] /\ f \in Sessions /\ f # None
      /\ target[f] \in Sessions \cup {None} /\ Root \notin Sessions \cup {None}
      /\ "delete" \in CommandSteps
  BY ReplacementAssumption DEF Typed, TypeOK, Sessions, CommandSteps
<1>2. at' = at /\ hold' = hold /\ target' = target /\ filed' = filed /\ stray' = stray
  BY OthersApart DEF Apart
<1>3. /\ row[f].there => f \in filed
      /\ \A k \in CommandSteps : <<f, k>> \in doing => f \in filed
      /\ <<f, "delete">> \in doing => Out(f)
  BY DEF Recorded, OnRecord
<1>4. /\ \A k \in CommandSteps : <<f, k>> \in doing' => f \in filed
      /\ <<f, "delete">> \in doing' => <<f, "delete">> \in doing \/ f \notin pane'
  BY <1>1, <1>3, DoingTyped DEF Typed
<1>5. ASSUME woken \subseteq woken', \A x \in pane' : x \in pane \/ (x \in woken' /\ x = s),
             f = s /\ f \in pane' => f \in pane \/ f \in filed,
             \/ held'[f] = held[f] /\ row'[f].there = row[f].there /\ (Nested(f)' => Nested(f))
             \/ row[f].there /\ Out(f) /\ ~row'[f].there
      PROVE  OnRecord(f)'
  <2>1. Out(f) => Out(f)'
    BY <1>2, <1>5 DEF Out
  <2> QED
    BY <1>2, <1>4, <1>5, <2>1, RecordKept
<1>6. CASE Exits(s) \/ Ends(s) \/ Revives(s) \/ \E step \in CommandSteps : CommandStops(s, step)
  <2>1. UNCHANGED store /\ woken' = woken /\ pane' \subseteq pane
    BY <1>6 DEF Exits, Ends, EndsPane, Revives, CommandStops, history
  <2> QED
    BY <1>2, <1>5, <2>1 DEF Nested, store
<1>7. CASE ComesUp(s)
  <2>1. UNCHANGED store /\ woken' = woken \cup {s} /\ pane' = pane \cup {s}
    BY <1>7 DEF ComesUp
  <2>2. \E k \in CommandSteps : <<s, k>> \in doing
    BY <1>7 DEF ComesUp, CommandSteps
  <2> QED
    BY <1>2, <1>3, <1>5, <2>1, <2>2 DEF Nested, store
<1>8. CASE MarkKilled(s) \/ MarkDead(s) \/ FileAway(s) \/ Restore(s) \/ MarkLive(s)
  <2>1. /\ UNCHANGED <<pane, held, woken>> /\ \A x \in Sessions \ {s} : row'[x] = row[x]
        /\ row'[s].there = row[s].there /\ row'[s].parent = row[s].parent
    BY <1>8, CommandWrites
  <2> QED
    BY <1>1, <1>2, <1>5, <2>1 DEF Nested
<1>9. CASE Delete(s)
  <2>1. woken' = woken /\ pane' = pane /\ row[s].there /\ <<s, "delete">> \in doing /\ Purge(s)
    BY <1>9 DEF Delete, Writes, history
  <2>2. CASE f = s
    BY <1>3, <1>5, <2>1, <2>2, PurgeHeld
  <2>3. CASE f # s
    <3>1. held'[f] = held[f] /\ row'[f] = row[f]
      BY <1>1, <2>1, <2>3 DEF Purge, Typed, TypeOK
    <3> QED
      BY <1>2, <1>5, <2>1, <3>1 DEF Nested
  <2> QED
    BY <2>2, <2>3
<1>10. CASE PassFlushes(s) \/ FilesElsewhere(s)
  <2>1. held' = held /\ woken' = woken /\ pane' = pane
    BY <1>10 DEF PassFlushes, FilesElsewhere, history
  <2>2. row'[f].there = row[f].there /\ row'[f].parent \in {row[f].parent, Root}
    <3>1. CASE PassFlushes(s)
      BY <1>1, <3>1 DEF PassFlushes, Rows
    <3>2. CASE FilesElsewhere(s)
      BY <1>1, <3>2 DEF FilesElsewhere, Rows
    <3> QED
      BY <1>10, <3>1, <3>2
  <2>3. Nested(f)' => Nested(f)
    BY <1>1, <1>2, <2>2 DEF Nested
  <2> QED
    BY <1>5, <2>1, <2>2, <2>3
<1>11. CASE \E t \in Tasks : SettlesTask(t) \/ ClaimsTask(t, s)
  <2>1. row' = row /\ held' = held /\ woken' = woken /\ pane' = pane
    BY <1>11 DEF SettlesTask, ClaimsTask, history
  <2> QED
    BY <1>2, <1>5, <2>1 DEF Nested
<1> QED
  BY <1>6, <1>7, <1>8, <1>9, <1>10, <1>11 DEF Other, Command

LEMMA NextRecorded ==
  ASSUME Typed, Held, Seats, Lineage, Recorded, [Next]_vars
  PROVE  Recorded'
<1>1. CASE \E f \in Fresh, s \in Sessions, waits \in BOOLEAN : Begin(f, s, waits)
  BY <1>1, BeginRecorded
<1>2. CASE \E f \in Fresh : CommitBegins(f) \/ AbortBegins(f) \/ ReplaceStep(f) \/ SweepStep(f)
  BY <1>2, PaneStepRecorded, RowStepRecorded DEF ReplaceStep, SweepStep
<1>3. CASE Crash \/ Start \/ Opens
  BY <1>3, BoardRecorded
<1>4. CASE \E s \in Sessions : Other(s)
  BY <1>4, OthersRecorded
<1>5. CASE UNCHANGED vars
  <2>1. /\ row' = row /\ held' = held /\ pane' = pane /\ woken' = woken /\ at' = at
        /\ hold' = hold /\ target' = target /\ stray' = stray /\ doing' = doing
        /\ filed' = filed
    BY <1>5 DEF vars, store, swap, history, others
  <2> QED
    BY <2>1 DEF Recorded, OnRecord, Kept, Out, Unfiled, Minting, Nested
<1> QED
  BY <1>1, <1>2, <1>3, <1>4, <1>5, Split

\* A fresh session that runs under a hold is on record from before its pane is
\* started until it is gone, in its seat or filed elsewhere, through every crash and
\* every failure but one: that of the kill which takes back a launch that failed, whose
\* session runs on, without a row, while its record is cleared.  So no start of the
\* board overlooks another (RecordHold, AbortOrphanedHolds).
THEOREM HeldOnRecordHolds == Spec => []HeldOnRecord
<1>1. Recorded => HeldOnRecord
  BY DEF Recorded, OnRecord, Kept, Out, HeldOnRecord
<1> QED
  BY <1>1, InitTyped, NextTyped, HeldInit, NextHeld, SeatsInit, NextSeats, LineageInit,
     NextLineage, RecordedInit, NextRecorded, PTL DEF Spec
=============================================================================
