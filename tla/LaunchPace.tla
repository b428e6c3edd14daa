----------------------------- MODULE LaunchPace -----------------------------
(***************************************************************************)
(* The launch pacer (internal/launchpace): relaunches of sessions already   *)
(* on the board share one queue, a file every process reads and rewrites     *)
(* under a lock.  A look at the queue admits the launch or refuses it; a      *)
(* launch that was admitted is made in steps, and holds the next one until    *)
(* relaunchRested finds it at its prompt or Settle has passed.  A look is      *)
(* one step, the steps of a launch are apart, and time is counted in ticks.    *)
(***************************************************************************)
EXTENDS Naturals, FiniteSets

CONSTANTS
  Sessions, Callers,          \* each caller makes one launch
  Plans,                      \* how, and for which session, each may ask
  Boards,                     \* the statuses the rows may start with
  MinGap, MaxGap,             \* ticks between two starts, by the host's load
  Settle, AheadHold,          \* ticks a launch, a refused TryAhead, is waited on
  MaxInFlight, AheadInFlight, \* launches unsettled at once
  MaxFaults,                  \* bound: launches that fail, processes killed
  MaxPasses                   \* bound: rows a pass is under way with at once

\* Wait, Try, TryAhead, and the board's own launch, which only records.
Ways == {"wait", "once", "ahead", "operator"}
ASSUME PaceAssumption ==
  /\ Plans \subseteq [Callers -> [how : Ways, id : Sessions]]
  /\ Boards \subseteq [Sessions -> {"live", "dead"}]
  /\ {MinGap, MaxGap, Settle, AheadHold, MaxInFlight, AheadInFlight,
    MaxFaults, MaxPasses}
       \subseteq Nat \ {0}
  /\ MinGap <= MaxGap /\ MaxInFlight <= AheadInFlight

VARIABLES
  since,   \* ticks since the newest launch was admitted or recorded
  flight,  \* the launches waited on, each by its caller
  ahead,   \* for each session, the ticks a refused TryAhead still holds others
  row,     \* the status of each session's row
  pass,    \* for each session, what the board's pass has read or will write
  agent,   \* the agent in its pane, if any
  asked,   \* how, and for which session, each caller asks
  at,      \* where it is
  young,   \* history: ticks its launch, not yet at a prompt, is still to be waited on
  early,   \* history: was its launch looked at before it was made, while its row
           \* read dead, or for another launch of the same session?
  looked,  \* history: ticks its refused TryAhead is still to be honoured
  faults

file == <<since, flight, ahead>>
board == <<row, agent, pass>>
history == <<young, early, looked>>
vars == <<file, board, asked, at, history, faults>>

Session(c) == asked[c].id
Way(c) == asked[c].how
\* The steps of a launch: a restart stamps the row and ends the agent first.
Steps == {"stamp", "end", "create", "live"}
FirstStep(c) == IF agent[Session(c)] = "none" THEN "create" ELSE "stamp"
Init ==
  /\ since = MaxGap /\ flight = {} /\ ahead = [s \in Sessions |-> 0]
  /\ row \in Boards
  /\ agent = [s \in Sessions |-> IF row[s] = "live" THEN "rest" ELSE "none"]
  /\ pass = [s \in Sessions |-> "idle"]
  /\ asked \in Plans
  /\ at = [c \in Callers |-> IF Way(c) = "operator" THEN FirstStep(c) ELSE "asking"]
  /\ young = [c \in Callers |-> 0] /\ early = [c \in Callers |-> FALSE]
  /\ looked = [c \in Callers |-> 0] /\ faults = 0

Go(c, place) == at' = [at EXCEPT ![c] = place]
Fault == faults < MaxFaults /\ faults' = faults + 1

-----------------------------------------------------------------------------
(* A look at the queue: Pacer.try under the file's lock. *)

\* relaunchRested: a row that reads dead, or an agent that has been relaunched
\* since the entry and is gone or at its prompt.
Rested(e) ==
  row[e.id] = "dead" \/ (e.stamped /\ agent[e.id] # "busy")
\* Variant: a launch that hangs is waited on for ever.
KeptTillRest(c) == {e \in flight : e.id # Session(c) /\ ~Rested(e)}
Kept(c) ==
  {e \in flight : e.id # Session(c) /\ e.left > 0 /\ ~Rested(e)}
MarksKept(c) == [ahead EXCEPT ![Session(c)] = 0]

Limit(c) == IF Way(c) = "ahead" THEN AheadInFlight ELSE MaxInFlight
\* Variant: one more than the limit.
MayStartFull(c, gap) ==
  /\ Way(c) = "ahead" \/ \A s \in Sessions : MarksKept(c)[s] = 0
  /\ Cardinality(Kept(c)) <= Limit(c)
  /\ since >= gap
MayStart(c, gap) ==
  /\ Way(c) = "ahead" \/ \A s \in Sessions : MarksKept(c)[s] = 0
  /\ Cardinality(Kept(c)) < Limit(c)
  /\ since >= gap
Entry(c) == [id |-> Session(c), by |-> c, left |-> Settle, stamped |-> FALSE]

\* What a look does to the histories: launches being made, and those whose rows
\* read dead, have been looked at, and a look for a session, refused or not,
\* takes its entry and its mark away.
Looks(c, newYoung, newLooked) ==
  /\ young' = [b \in Callers |-> IF b = c THEN newYoung
               ELSE IF Session(b) = Session(c) /\ newYoung > 0 THEN 0 ELSE young[b]]
  /\ early' = [b \in Callers |->
                early[b] \/ (b # c /\ (at[b] \in Steps \/ Session(b) = Session(c)
                                         \/ row[Session(b)] = "dead"))]
  /\ looked' = [b \in Callers |-> IF b = c THEN newLooked
                ELSE IF Session(b) = Session(c) THEN 0 ELSE looked[b]]
Admitted(c) ==
  /\ at[c] = "asking"
  /\ \E gap \in MinGap..MaxGap : MayStart(c, gap)
  /\ since' = 0 /\ flight' = Kept(c) \cup {Entry(c)} /\ ahead' = MarksKept(c)
  /\ Go(c, FirstStep(c)) /\ Looks(c, Settle, 0)
  /\ UNCHANGED <<board, asked, faults>>
\* Variant: a mark is set by the first refusal only.
MarkOnce(c) == IF Way(c) = "ahead" /\ ahead[Session(c)] = 0 THEN AheadHold ELSE 0
Mark(c) == IF Way(c) = "ahead" THEN AheadHold ELSE 0
\* Refused, Wait looks again, and a sweep may on a later pass.
Refused(c) ==
  /\ at[c] = "asking"
  /\ \E gap \in MinGap..MaxGap : ~MayStart(c, gap)
  /\ flight' = Kept(c) /\ ahead' = [MarksKept(c) EXCEPT ![Session(c)] = Mark(c)]
  /\ Looks(c, 0, IF Way(c) = "ahead" THEN AheadHold ELSE 0)
  /\ UNCHANGED <<since, board, asked, at, faults>>
\* A sweep does not look again; a waiter gives up under memory pressure.
GivesUp(c) ==
  /\ at[c] = "asking" /\ Go(c, "done")
  /\ \/ Way(c) # "wait" /\ UNCHANGED faults
     \/ Way(c) = "wait" /\ Fault
  /\ looked' = [looked EXCEPT ![c] = 0]
  /\ UNCHANGED <<file, board, asked, young, early>>

\* Slot.Cancel: its own entry, by id and time.
Cancel(c) ==
  /\ at[c] = "cancel" /\ Go(c, "done")
  /\ flight' = {e \in flight : e.by # c}
  /\ UNCHANGED <<since, ahead, board, asked, history, faults>>
\* Pacer.Record, off the board's event loop.
Record(c) ==
  /\ at[c] = "record" /\ Go(c, "done")
  /\ since' = 0 /\ flight' = flight \cup {Entry(c)}
  /\ young' = [young EXCEPT ![c] = IF agent[Session(c)] = "busy" THEN Settle ELSE 0]
  /\ UNCHANGED <<ahead, board, asked, early, looked, faults>>

-----------------------------------------------------------------------------
(* A launch: restart, relaunch, and the board's relaunchSession. *)

Stamped(s) == {[e EXCEPT !.stamped = @ \/ e.id = s] : e \in flight}
Stamp(c) ==
  /\ at[c] = "stamp" /\ Go(c, "end")
  /\ flight' = Stamped(Session(c))
  /\ UNCHANGED <<since, ahead, board, asked, history, faults>>
\* What the launches already in s's pane were waited on for is over.
BeforePane == {"stamp", "end", "create"}
Over(s) == [c \in Callers |->
              IF Session(c) = s /\ at[c] \notin BeforePane THEN 0 ELSE young[c]]
End(c) ==
  /\ at[c] = "end" /\ Go(c, "create")
  /\ row' = [row EXCEPT ![Session(c)] = "dead"]
  /\ agent' = [agent EXCEPT ![Session(c)] = "none"]
  /\ young' = Over(Session(c))
  /\ UNCHANGED <<file, pass, asked, early, looked, faults>>
Create(c) ==
  /\ at[c] = "create" /\ agent[Session(c)] = "none" /\ Go(c, "live")
  /\ agent' = [agent EXCEPT ![Session(c)] = "busy"]
  /\ UNCHANGED <<file, row, pass, asked, history, faults>>
\* The launch time and the status, which are two writes: between them the row
\* reads dead, and so it does before.
Live(c) ==
  /\ at[c] = "live"
  /\ row' = [row EXCEPT ![Session(c)] = "live"] /\ flight' = Stamped(Session(c))
  /\ Go(c, IF Way(c) = "operator" THEN "record" ELSE "done")
  /\ UNCHANGED <<since, ahead, agent, pass, asked, history, faults>>
\* A pane that is there already, or a launch that fails: the slot is given back.
Fails(c) ==
  /\ at[c] \in Steps
  /\ \/ at[c] = "create" /\ agent[Session(c)] # "none" /\ UNCHANGED faults
     \/ Fault
  /\ Go(c, IF Way(c) = "operator" THEN "done" ELSE "cancel")
  /\ young' = [young EXCEPT ![c] = 0]
  /\ UNCHANGED <<file, board, asked, early, looked>>
\* Nobody gives back what a killed process holds, and its row may stay dead.
Killed(c) ==
  /\ at[c] \in Steps \cup {"asking", "cancel", "record"} /\ Fault /\ Go(c, "done")
  /\ young' = [young EXCEPT ![c] = 0] /\ looked' = [looked EXCEPT ![c] = 0]
  /\ UNCHANGED <<file, board, asked, early>>

-----------------------------------------------------------------------------
(* The agents, the board's passes, and time. *)

\* An agent that is given a turn before anybody has seen it rest is waited on as
\* one that does not rest.
Rests(s) ==
  /\ agent[s] = "busy" /\ agent' = [agent EXCEPT ![s] = "rest"] /\ young' = Over(s)
  /\ UNCHANGED <<file, row, pass, asked, at, early, looked, faults>>
AgentExits(s) ==
  /\ agent[s] # "none" /\ Fault
  /\ agent' = [agent EXCEPT ![s] = "none"] /\ young' = Over(s)
  /\ UNCHANGED <<file, row, pass, asked, at, early, looked>>

\* A pass lists the rows, scans the panes, and writes each status it derives that
\* is not the one it listed, over whatever the row reads by then.
PassLists(s) ==
  /\ pass[s] = "idle" /\ Cardinality({x \in Sessions : pass[x] # "idle"}) < MaxPasses
  /\ pass' = [pass EXCEPT ![s] = IF row[s] = "live" THEN "readLive" ELSE "readDead"]
  /\ UNCHANGED <<file, row, agent, asked, at, history, faults>>
ToWrite(s) ==
  CASE pass[s] = "readLive" /\ agent[s] = "none" -> "writeDead"
    [] pass[s] = "readDead" /\ agent[s] # "none" -> "writeLive"
    [] OTHER -> "idle"
PassScans(s) ==
  /\ pass[s] \in {"readLive", "readDead"} /\ pass' = [pass EXCEPT ![s] = ToWrite(s)]
  /\ UNCHANGED <<file, row, agent, asked, at, history, faults>>
PassFlushes(s) ==
  /\ pass[s] \in {"writeLive", "writeDead"} /\ pass' = [pass EXCEPT ![s] = "idle"]
  /\ row' = [row EXCEPT ![s] = IF pass[s] = "writeLive" THEN "live" ELSE "dead"]
  /\ UNCHANGED <<file, agent, asked, at, history, faults>>
Pass(s) == PassLists(s) \/ PassScans(s) \/ PassFlushes(s)

\* Variant: an expired entry goes on counting.
DownPast(n) == n - 1
Down(n) == IF n = 0 THEN 0 ELSE n - 1
Tick ==
  /\ since' = IF since < MaxGap THEN since + 1 ELSE since
  /\ flight' = {[e EXCEPT !.left = Down(@)] : e \in flight}
  /\ ahead' = [s \in Sessions |-> Down(ahead[s])]
  /\ young' = [c \in Callers |-> Down(young[c])]
  /\ looked' = [c \in Callers |-> Down(looked[c])]
  /\ UNCHANGED <<board, asked, at, early, faults>>

LaunchStep(c) ==
  Stamp(c) \/ End(c) \/ Create(c) \/ Live(c) \/ Fails(c) \/ Cancel(c) \/ Record(c)
Next ==
  \/ \E c \in Callers :
       \/ Admitted(c) \/ Refused(c) \/ GivesUp(c)
       \/ LaunchStep(c) \/ Killed(c)
  \/ \E s \in {Session(c) : c \in Callers} :
       Rests(s) \/ AgentExits(s) \/ Pass(s)
  \/ Tick
Spec == Init /\ [][Next]_vars

\* Waiters look every two seconds, launches go on and time passes; agents need
\* not come to rest, and sweeps need not look again.  Callers are finitely many,
\* so as long as one of them may move, each does in the end.
Fairness ==
  /\ WF_vars(Tick)
  /\ WF_vars(\E c \in Callers : Admitted(c) \/ LaunchStep(c))
FairSpec == Spec /\ Fairness

-----------------------------------------------------------------------------
(* Properties. *)

Places == {"asking", "cancel", "record", "done"} \cup Steps
TypeOK ==
  /\ since \in 0..MaxGap
  /\ flight \subseteq [id : Sessions, by : Callers, left : 0..Settle, stamped : BOOLEAN]
  /\ ahead \in [Sessions -> 0..AheadHold]
  /\ row \in [Sessions -> {"live", "dead"}]
  /\ agent \in [Sessions -> {"none", "rest", "busy"}]
  /\ pass \in [Sessions -> {"idle", "readLive", "readDead", "writeLive", "writeDead"}]
  /\ asked \in [Callers -> [how : Ways, id : Sessions]] /\ at \in [Callers -> Places]
  /\ young \in [Callers -> 0..Settle] /\ early \in [Callers -> BOOLEAN]
  /\ looked \in [Callers -> 0..AheadHold] /\ faults \in 0..MaxFaults

Admits(c) == at[c] = "asking" /\ at'[c] \in Steps

\* A launch is admitted beside fewer than its limit of others that are younger
\* than Settle and have not come to their prompts: those, at least, that have been
\* made, that nobody looked at meanwhile, and whose rows read live at every look
\* since (launchpace.go; relaunchRested takes the row's word that an agent is gone).
Unsettled(c) ==
  {b \in Callers \ {c} : young[b] > 0 /\ ~early[b] /\ at[b] \notin Steps
                         /\ Session(b) # Session(c) /\ row[Session(b)] = "live"}
RoomKept ==
  [][\A c \in Callers : Admits(c) => Cardinality(Unsettled(c)) < Limit(c)]_vars

\* No routine launch is admitted while one that goes ahead is refused and looks
\* again in time (TryAhead), as long as nobody looks for the same session.
AheadFirst ==
  [][\A c, a \in Callers : Admits(c) /\ Way(c) # "ahead" /\ a # c =>
       looked[a] = 0 \/ Session(a) = Session(c)]_vars

\* Whatever launches fail, hang or are killed, and whoever stops looking after
\* it was told to wait, every waiter gets its turn (Wait).
WaitersAdmitted ==
  <>[](\A c \in Callers : Way(c) = "wait" => at[c] # "asking")
=============================================================================
