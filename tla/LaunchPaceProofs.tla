--------------------------- MODULE LaunchPaceProofs ---------------------------
(***************************************************************************)
(* Type correctness of LaunchPace, that no routine launch is admitted past    *)
(* one that goes ahead and still looks, and that none is admitted beside as   *)
(* many unsettled ones as its limit, for any number of callers and sessions,  *)
(* any limits, and whatever launches fail or are killed.                      *)
(***************************************************************************)
EXTENDS LaunchPace, FiniteSetTheorems, TLAPS

Entries == [id : Sessions, by : Callers, left : 0..Settle, stamped : BOOLEAN]

\* The step every case below starts from.
LEMMA Asked ==
  ASSUME TypeOK, NEW c \in Callers
  PROVE  Session(c) \in Sessions /\ Way(c) \in Ways
BY DEF TypeOK, Session, Way

\* A tick takes one off a count and keeps its order and its range.
LEMMA DownFact ==
  ASSUME NEW m \in Nat, NEW n \in 0..m
  PROVE  Down(n) \in 0..m /\ \A k \in Nat : k <= n => Down(k) <= Down(n)
BY DEF Down

LEMMA InitType == Init => TypeOK
<1> SUFFICES ASSUME Init PROVE TypeOK
  OBVIOUS
<1>1. asked \in [Callers -> [how : Ways, id : Sessions]] /\ row \in [Sessions -> {"live", "dead"}]
  BY PaceAssumption DEF Init
<1>2. /\ agent \in [Sessions -> {"none", "rest", "busy"}]
      /\ pass \in [Sessions -> {"idle", "readLive", "readDead", "writeLive", "writeDead"}]
  BY <1>1 DEF Init
<1>3. at \in [Callers -> Places]
  BY <1>1 DEF Init, Places, Steps, FirstStep, Way
<1>4. /\ since \in 0..MaxGap /\ flight \subseteq Entries
      /\ ahead \in [Sessions -> 0..AheadHold]
  BY PaceAssumption DEF Init, Entries
<1>5. /\ young \in [Callers -> 0..Settle] /\ early \in [Callers -> BOOLEAN]
      /\ looked \in [Callers -> 0..AheadHold] /\ faults \in 0..MaxFaults
  BY PaceAssumption DEF Init
<1> QED
  BY <1>1, <1>2, <1>3, <1>4, <1>5 DEF TypeOK, Entries

-----------------------------------------------------------------------------
(* Types. *)

\* What a look does to the file and the histories is of their types.
LEMMA LooksTyped ==
  ASSUME TypeOK, NEW c \in Callers,
         NEW y \in 0..Settle, NEW l \in 0..AheadHold, Looks(c, y, l)
  PROVE  /\ young' \in [Callers -> 0..Settle] /\ early' \in [Callers -> BOOLEAN]
         /\ looked' \in [Callers -> 0..AheadHold]
BY PaceAssumption DEF TypeOK, Looks

LEMMA MarksTyped ==
  ASSUME TypeOK, NEW c \in Callers
  PROVE  /\ MarksKept(c) \in [Sessions -> 0..AheadHold]
         /\ \A s \in Sessions : MarksKept(c)[s] = IF s = Session(c) THEN 0 ELSE ahead[s]
BY Asked, PaceAssumption DEF TypeOK, MarksKept

LEMMA LooksKeepType ==
  ASSUME TypeOK, NEW c \in Callers, Admitted(c) \/ Refused(c) \/ GivesUp(c)
  PROVE  TypeOK'
<1>1. CASE Admitted(c)
  <2>1. Entry(c) \in Entries
    BY Asked, PaceAssumption DEF Entry, Entries
  <2>2. flight' \subseteq Entries
    BY <1>1, <2>1 DEF Admitted, Kept, TypeOK, Entries
  <2>3. ahead' \in [Sessions -> 0..AheadHold]
    BY <1>1, MarksTyped DEF Admitted
  <2>4. at' \in [Callers -> Places]
    BY <1>1 DEF Admitted, Go, FirstStep, TypeOK, Places, Steps
  <2>5. Looks(c, Settle, 0) /\ Settle \in 0..Settle /\ 0 \in 0..AheadHold
    BY <1>1, PaceAssumption DEF Admitted
  <2> QED
    BY <1>1, <2>2, <2>3, <2>4, <2>5, LooksTyped, PaceAssumption
    DEF Admitted, TypeOK, Entries, board
<1>2. CASE Refused(c)
  <2>1. flight' \subseteq Entries
    BY <1>2 DEF Refused, Kept, TypeOK, Entries
  <2>2. Mark(c) \in 0..AheadHold
    BY PaceAssumption DEF Mark
  <2>3. ahead' \in [Sessions -> 0..AheadHold]
    BY <1>2, <2>2, MarksTyped DEF Refused
  <2>4. PICK l \in 0..AheadHold : Looks(c, 0, l)
    BY <1>2, PaceAssumption DEF Refused
  <2>5. /\ young' \in [Callers -> 0..Settle] /\ early' \in [Callers -> BOOLEAN]
        /\ looked' \in [Callers -> 0..AheadHold]
    BY <2>4, LooksTyped, PaceAssumption
  <2> QED
    BY <1>2, <2>1, <2>3, <2>5 DEF Refused, TypeOK, Entries, board
<1>3. CASE GivesUp(c)
  <2>1. faults' \in 0..MaxFaults
    BY <1>3, PaceAssumption DEF GivesUp, Fault, TypeOK
  <2>2. at' \in [Callers -> Places] /\ looked' \in [Callers -> 0..AheadHold]
    BY <1>3, PaceAssumption DEF GivesUp, Go, TypeOK, Places
  <2> QED
    BY <1>3, <2>1, <2>2 DEF GivesUp, TypeOK, file, board
<1> QED
  BY <1>1, <1>2, <1>3

LEMMA OverTyped ==
  ASSUME TypeOK, NEW s
  PROVE  Over(s) \in [Callers -> 0..Settle]
BY PaceAssumption DEF TypeOK, Over

LEMMA StampedTyped ==
  ASSUME TypeOK, NEW s \in Sessions
  PROVE  Stamped(s) \subseteq Entries
<1> SUFFICES ASSUME NEW e \in flight
             PROVE  [e EXCEPT !.stamped = @ \/ e.id = s] \in Entries
  BY DEF Stamped
<1> QED
  BY DEF TypeOK, Entries

LEMMA LaunchKeepsType ==
  ASSUME TypeOK, NEW c \in Callers, LaunchStep(c) \/ Killed(c)
  PROVE  TypeOK'
<1> Session(c) \in Sessions
  BY Asked
<1>1. CASE Stamp(c)
  BY <1>1, StampedTyped DEF Stamp, Go, TypeOK, Entries, Places, Steps, board, history
<1>2. CASE End(c)
  BY <1>2, OverTyped DEF End, Go, TypeOK, Places, Steps, file
<1>3. CASE Create(c)
  BY <1>3 DEF Create, Go, TypeOK, Places, Steps, file, history
<1>4. CASE Live(c)
  BY <1>4, StampedTyped DEF Live, Go, TypeOK, Entries, Places, Steps, history
<1>5. CASE Fails(c)
  BY <1>5, PaceAssumption DEF Fails, Go, Fault, TypeOK, Places, Steps, file, board
<1>6. CASE Cancel(c)
  BY <1>6 DEF Cancel, Go, TypeOK, Places, board, history
<1>7. CASE Record(c)
  <2>1. Entry(c) \in Entries
    BY PaceAssumption DEF Entry, Entries
  <2> QED
    BY <1>7, <2>1, PaceAssumption DEF Record, Go, TypeOK, Entries, Places, board
<1>8. CASE Killed(c)
  BY <1>8, PaceAssumption DEF Killed, Go, Fault, TypeOK, Places, Steps, file, board
<1> QED
  BY <1>1, <1>2, <1>3, <1>4, <1>5, <1>6, <1>7, <1>8 DEF LaunchStep

LEMMA AgentKeepsType ==
  ASSUME TypeOK, NEW s \in Sessions, Rests(s) \/ AgentExits(s) \/ Pass(s)
  PROVE  TypeOK'
<1>1. CASE Rests(s)
  BY <1>1, OverTyped DEF Rests, TypeOK, file
<1>2. CASE AgentExits(s)
  BY <1>2, OverTyped, PaceAssumption DEF AgentExits, Fault, TypeOK, file
<1>3. CASE PassLists(s)
  BY <1>3 DEF PassLists, TypeOK, file, history
<1>4. CASE PassScans(s)
  <2>1. ToWrite(s) \in {"idle", "writeLive", "writeDead"}
    BY DEF ToWrite
  <2> QED
    BY <1>4, <2>1 DEF PassScans, TypeOK, file, history
<1>5. CASE PassFlushes(s)
  BY <1>5 DEF PassFlushes, TypeOK, file, history
<1> QED
  BY <1>1, <1>2, <1>3, <1>4, <1>5 DEF Pass

LEMMA TickKeepsType ==
  ASSUME TypeOK, Tick
  PROVE  TypeOK'
<1>1. \A n \in 0..Settle : Down(n) \in 0..Settle
  BY DownFact, PaceAssumption
<1>2. \A n \in 0..AheadHold : Down(n) \in 0..AheadHold
  BY DownFact, PaceAssumption
<1>3. flight' \subseteq Entries
  <2> SUFFICES ASSUME NEW e \in flight
               PROVE  [e EXCEPT !.left = Down(@)] \in Entries
    BY DEF Tick
  <2> QED
    BY <1>1 DEF TypeOK, Entries
<1>4. since' \in 0..MaxGap
  BY PaceAssumption DEF Tick, TypeOK
<1>5. ahead' \in [Sessions -> 0..AheadHold] /\ looked' \in [Callers -> 0..AheadHold]
  BY <1>2 DEF Tick, TypeOK
<1>6. young' \in [Callers -> 0..Settle]
  BY <1>1 DEF Tick, TypeOK
<1> QED
  BY <1>3, <1>4, <1>5, <1>6 DEF Tick, TypeOK, Entries, board

LEMMA NextKeepsType ==
  ASSUME TypeOK, [Next]_vars
  PROVE  TypeOK'
<1>1. CASE \E c \in Callers : Admitted(c) \/ Refused(c) \/ GivesUp(c)
  BY <1>1, LooksKeepType
<1>2. CASE \E c \in Callers : LaunchStep(c) \/ Killed(c)
  BY <1>2, LaunchKeepsType
<1>3. CASE \E c \in Callers : Rests(Session(c)) \/ AgentExits(Session(c)) \/ Pass(Session(c))
  BY <1>3, Asked, AgentKeepsType
<1>4. CASE Tick
  BY <1>4, TickKeepsType
<1>5. CASE UNCHANGED vars
  BY <1>5 DEF vars, file, board, history, TypeOK
<1> QED
  BY <1>1, <1>2, <1>3, <1>4, <1>5 DEF Next

\* The file, the rows and the launches keep their types (launchpace.go): no count
\* is ever past its limit, however many processes write the file.
THEOREM PaceTyped == Spec => []TypeOK
<1> QED
  BY InitType, NextKeepsType, PTL DEF Spec

-----------------------------------------------------------------------------
(* A launch that is admitted is admitted by a look. *)

LEMMA AdmitsOnly ==
  ASSUME TypeOK, [Next]_vars, NEW c \in Callers, Admits(c)
  PROVE  Admitted(c)
<1>1. at[c] = "asking" /\ at'[c] \in Steps /\ at'[c] # at[c]
  BY DEF Admits, Steps
<1>2. ~(UNCHANGED vars) /\ ~Tick
  BY <1>1 DEF vars, Tick
<1>3. \A s : ~(Rests(s) \/ AgentExits(s) \/ Pass(s))
  BY <1>1 DEF Rests, AgentExits, Pass, PassLists, PassScans, PassFlushes
<1>4. PICK b \in Callers :
        Admitted(b) \/ Refused(b) \/ GivesUp(b) \/ LaunchStep(b) \/ Killed(b)
  BY <1>2, <1>3 DEF Next
<1>5. b = c
  <2>1. \E place : Go(b, place) \/ at' = at
    BY <1>4 DEF Admitted, Refused, GivesUp, LaunchStep, Stamp, End, Create, Live, Fails,
                Cancel, Record, Killed
  <2> QED
    BY <1>1, <2>1 DEF Go, TypeOK
<1>6. ~Refused(c)
  BY <1>1 DEF Refused
<1>7. ~GivesUp(c) /\ ~Killed(c)
  BY <1>1 DEF GivesUp, Killed, Go, Steps, TypeOK
<1>8. ~LaunchStep(c)
  BY <1>1 DEF LaunchStep, Stamp, End, Create, Live, Fails, Cancel, Record, Steps
<1> QED
  BY <1>4, <1>5, <1>6, <1>7, <1>8

-----------------------------------------------------------------------------
(* A launch that goes ahead is not passed. *)

\* A refused TryAhead that still looks has its mark in the file, for as long.
MarkStands == \A a \in Callers : looked[a] <= ahead[Session(a)]

LEMMA MarkStandsInit == Init => MarkStands
<1> SUFFICES ASSUME Init PROVE MarkStands
  OBVIOUS
<1>1. \A a \in Callers : Session(a) \in Sessions
  BY InitType, Asked
<1> QED
  BY <1>1 DEF Init, MarkStands

LEMMA LookKeepsMarks ==
  ASSUME TypeOK, MarkStands, NEW c \in Callers, Admitted(c) \/ Refused(c)
  PROVE  MarkStands'
<1> SUFFICES ASSUME NEW a \in Callers
             PROVE  looked'[a] <= ahead'[Session(a)']
  BY DEF MarkStands
<1>1. asked' = asked
  BY DEF Admitted, Refused
<1>2. Session(a)' = Session(a) /\ Session(a) \in Sessions /\ Session(c) \in Sessions
  BY <1>1, Asked DEF Session
<1>3. looked'[a] = IF a = c THEN looked'[c] ELSE IF Session(a) = Session(c) THEN 0 ELSE looked[a]
  BY DEF Admitted, Refused, Looks
<1>4. /\ ahead' \in [Sessions -> 0..AheadHold]
      /\ Session(a) # Session(c) => ahead'[Session(a)] = ahead[Session(a)]
  <2>1. CASE Admitted(c)
    BY <2>1, <1>2, MarksTyped DEF Admitted
  <2>2. CASE Refused(c)
    <3>1. Mark(c) \in 0..AheadHold
      BY PaceAssumption DEF Mark
    <3> QED
      BY <2>2, <3>1, <1>2, MarksTyped DEF Refused
  <2> QED
    BY <2>1, <2>2
<1>5. looked'[c] <= ahead'[Session(c)]
  <2>1. CASE Admitted(c)
    BY <2>1, <1>4, <1>2 DEF Admitted, Looks
  <2>2. CASE Refused(c)
    <3>1. looked'[c] = IF Way(c) = "ahead" THEN AheadHold ELSE 0
      BY <2>2 DEF Refused, Looks
    <3>2. ahead'[Session(c)] = Mark(c)
      BY <2>2, <1>2, MarksTyped DEF Refused
    <3> QED
      BY <3>1, <3>2, PaceAssumption DEF Mark
  <2> QED
    BY <2>1, <2>2
<1>6. looked[a] <= ahead[Session(a)]
  BY DEF MarkStands
<1> QED
  BY <1>2, <1>3, <1>4, <1>5, <1>6

\* Every other step of a caller or an agent leaves the marks alone, and none makes
\* a look out to be longer than it was.
MarksAlone == ahead' = ahead /\ asked' = asked /\ \A a \in Callers : looked'[a] \in {0, looked[a]}

LEMMA OthersLeaveMarks ==
  ASSUME TypeOK,
         \/ \E c \in Callers : GivesUp(c) \/ LaunchStep(c) \/ Killed(c)
         \/ \E s \in Sessions : Rests(s) \/ AgentExits(s) \/ Pass(s)
         \/ UNCHANGED vars
  PROVE  MarksAlone
<1>1. CASE \E c \in Callers : GivesUp(c) \/ Killed(c)
  BY <1>1 DEF GivesUp, Killed, MarksAlone, file, TypeOK
<1>2. CASE \E c \in Callers : LaunchStep(c)
  BY <1>2 DEF LaunchStep, Stamp, End, Create, Live, Fails, Cancel, Record,
              MarksAlone, file, history
<1>3. CASE \E s \in Sessions : Rests(s) \/ AgentExits(s) \/ Pass(s)
  BY <1>3 DEF Rests, AgentExits, Pass, PassLists, PassScans, PassFlushes, MarksAlone, file, history
<1>4. CASE UNCHANGED vars
  BY <1>4 DEF vars, MarksAlone, file, history
<1> QED
  BY <1>1, <1>2, <1>3, <1>4

LEMMA NextKeepsMarks ==
  ASSUME TypeOK, MarkStands, [Next]_vars
  PROVE  MarkStands'
<1>1. CASE \E c \in Callers : Admitted(c) \/ Refused(c)
  BY <1>1, LookKeepsMarks
<1>2. CASE MarksAlone
  BY <1>2, Asked DEF MarksAlone, MarkStands, Session, TypeOK
<1>3. CASE Tick
  <2> SUFFICES ASSUME NEW a \in Callers
               PROVE  looked'[a] <= ahead'[Session(a)']
    BY DEF MarkStands
  <2>1. Session(a)' = Session(a) /\ Session(a) \in Sessions
    BY <1>3, Asked DEF Tick, Session
  <2>2. /\ looked[a] \in Nat /\ looked[a] <= ahead[Session(a)]
        /\ ahead[Session(a)] \in 0..AheadHold /\ AheadHold \in Nat
    BY <2>1, PaceAssumption DEF TypeOK, MarkStands
  <2>3. Down(looked[a]) <= Down(ahead[Session(a)])
    BY <2>2, DownFact
  <2> QED
    BY <1>3, <2>1, <2>3 DEF Tick
<1> QED
  BY <1>1, <1>2, <1>3, OthersLeaveMarks, Asked DEF Next

\* TryAhead's promise: while it is refused and looks again in time, no routine
\* launch is admitted (launchpace.go, TryAhead), unless somebody looks for the
\* same session and takes the mark away.
THEOREM NotPassed == Spec => AheadFirst
<1>1. ASSUME TypeOK, MarkStands, [Next]_vars, NEW c \in Callers, NEW a \in Callers,
             Admits(c), Way(c) # "ahead", a # c
      PROVE  looked[a] = 0 \/ Session(a) = Session(c)
  <2>1. Admitted(c)
    BY <1>1, AdmitsOnly
  <2>2. MarksKept(c)[Session(a)] = 0 /\ Session(a) \in Sessions
    BY <1>1, <2>1, Asked DEF Admitted, MayStart
  <2>3. Session(a) # Session(c) => ahead[Session(a)] = 0
    BY <1>1, <2>2, MarksTyped
  <2>4. looked[a] \in Nat /\ looked[a] <= ahead[Session(a)]
    BY <1>1 DEF MarkStands, TypeOK
  <2> QED
    BY <2>3, <2>4
<1>2. TypeOK /\ MarkStands /\ [Next]_vars =>
        [\A c, a \in Callers : Admits(c) /\ Way(c) # "ahead" /\ a # c =>
           looked[a] = 0 \/ Session(a) = Session(c)]_vars
  BY <1>1
<1> QED
  BY <1>2, InitType, NextKeepsType, MarkStandsInit, NextKeepsMarks, PTL DEF Spec, AheadFirst

-----------------------------------------------------------------------------
(* Room. *)

\* Its launch is waited on, and nobody took its entry away unseen.
Waited(b) == young[b] > 0 /\ ~early[b]
OnFile(b) == \E e \in flight : e.by = b /\ e.id = Session(b) /\ e.left >= young[b]
\* Before it is admitted, and once it is given back, nobody waits for a launch.
NotYet ==
  \A b \in Callers :
    /\ Way(b) = "operator" => at[b] # "asking" /\ (at[b] \in Steps => young[b] = 0)
    /\ at[b] \in {"asking", "cancel", "record"} => young[b] = 0
\* A launch that is waited on does not look rested once it has been made.
Shown ==
  \A b \in Callers :
    /\ at[b] = "live" /\ young[b] > 0 => agent[Session(b)] = "busy"
    /\ at[b] = "done" /\ young[b] > 0 => agent[Session(b)] = "busy"
Filed == \A b \in Callers : Waited(b) => OnFile(b)
Room == NotYet /\ Shown /\ Filed /\ IsFiniteSet(flight)

\* The steps of a launch are not its other places.
LEMMA StepsFacts ==
  ASSUME NEW c \in Callers
  PROVE  /\ FirstStep(c) \in {"stamp", "create"} /\ FirstStep(c) \in Steps
         /\ \A x \in Steps : x \notin {"asking", "cancel", "record", "done"}
BY DEF FirstStep, Steps

LEMMA RoomInit == Init => Room
<1> SUFFICES ASSUME Init PROVE Room
  OBVIOUS
<1>1. \A b \in Callers : young[b] = 0 /\ Session(b) \in Sessions
  BY InitType, Asked DEF Init
<1>2. NotYet
  BY <1>1, StepsFacts DEF Init, NotYet
<1>3. Shown
  BY <1>1, StepsFacts DEF Init, Shown, Waited, Steps
<1> QED
  BY <1>1, <1>2, <1>3, FS_EmptySet DEF Room, Filed, Waited, Init

\* What a step that changes entries one by one leaves of a finite file.
LEMMA ImageFinite ==
  ASSUME IsFiniteSet(flight), NEW g, g \in [flight -> {g[e] : e \in flight}]
  PROVE  IsFiniteSet({g[e] : e \in flight})
<1>1. g \in Surjection(flight, {g[e] : e \in flight})
  BY DEF Surjection
<1> QED
  BY <1>1, FS_Surjection

LEMMA StampedRoom ==
  ASSUME TypeOK, IsFiniteSet(flight), NEW s
  PROVE  /\ IsFiniteSet(Stamped(s))
         /\ \A e \in flight : \E d \in Stamped(s) :
              d.by = e.by /\ d.id = e.id /\ d.left = e.left
<1> DEFINE g == [e \in flight |-> [e EXCEPT !.stamped = @ \/ e.id = s]]
<1>1. Stamped(s) = {g[e] : e \in flight}
  BY DEF Stamped
<1>2. IsFiniteSet({g[e] : e \in flight})
  <2>1. g \in [flight -> {g[e] : e \in flight}]
    OBVIOUS
  <2> HIDE DEF g
  <2> QED
    BY <2>1, ImageFinite
<1>3. \A e \in flight : g[e] \in Stamped(s) /\ g[e].by = e.by /\ g[e].id = e.id
                        /\ g[e].left = e.left
  BY <1>1 DEF TypeOK
<1> HIDE DEF g
<1> QED
  BY <1>1, <1>2, <1>3

\* A launch that is waited on, has been made and is not looked for itself keeps its
\* entry through a look.
LEMMA WaitedKept ==
  ASSUME TypeOK, Room, NEW c \in Callers, NEW b \in Callers, Waited(b),
         at[b] \notin Steps, Session(b) # Session(c), row[Session(b)] = "live"
  PROVE  \E e \in Kept(c) : e.by = b /\ e.id = Session(b) /\ e.left >= young[b]
<1>1. young[b] \in Nat /\ young[b] > 0 /\ at[b] \in Places
  BY DEF Waited, TypeOK
<1>2. at[b] = "done"
  BY <1>1 DEF Room, NotYet, Places
<1>3. agent[Session(b)] = "busy" /\ row[Session(b)] = "live"
  BY <1>1, <1>2 DEF Room, Shown
<1>4. PICK e \in flight : e.by = b /\ e.id = Session(b) /\ e.left >= young[b]
  BY DEF Room, Filed, OnFile
<1>5. ~Rested(e)
  BY <1>3, <1>4 DEF Rested
<1>6. e.left > 0
  BY <1>1, <1>4 DEF TypeOK
<1> QED
  BY <1>4, <1>5, <1>6 DEF Kept

\* What a look leaves of the histories of the others.
LEMMA LooksAt ==
  ASSUME TypeOK, NEW c \in Callers, NEW y, NEW l, Looks(c, y, l), NEW b \in Callers \ {c}
  PROVE  /\ young'[b] \in {0, young[b]} /\ (early[b] => early'[b])
         /\ at[b] \in Steps \/ Session(b) = Session(c) \/ row[Session(b)] = "dead" =>
              early'[b]
BY DEF Looks, TypeOK

LEMMA LooksKeepFiled ==
  ASSUME TypeOK, Room, NEW c \in Callers, Admitted(c) \/ Refused(c)
  PROVE  Filed' /\ IsFiniteSet(flight')
<1>1. Kept(c) \subseteq flight' /\ asked' = asked
  BY DEF Admitted, Refused
<1>2. PICK y, l : Looks(c, y, l)
  BY DEF Admitted, Refused
<1>3. IsFiniteSet(flight')
  <2>1. IsFiniteSet(Kept(c))
    <3>1. Kept(c) \in SUBSET flight
      BY DEF Kept
    <3> QED
      BY <3>1, FS_Subset DEF Room
  <2>2. IsFiniteSet(Kept(c) \cup {Entry(c)})
    BY <2>1, FS_AddElement
  <2> QED
    BY <2>1, <2>2 DEF Admitted, Refused
<1>4. ASSUME NEW b \in Callers \ {c}, Waited(b)'
      PROVE  OnFile(b)'
  <2>1. /\ young'[b] = young[b] /\ ~early[b] /\ at[b] \notin Steps
        /\ Session(b) # Session(c) /\ row[Session(b)] = "live"
    <3>1. row[Session(b)] \in {"live", "dead"}
      BY Asked DEF TypeOK
    <3> QED
      BY <1>2, <1>4, <3>1, LooksAt DEF Waited
  <2>2. Waited(b)
    BY <1>4, <2>1 DEF Waited
  <2>3. PICK e \in Kept(c) : e.by = b /\ e.id = Session(b) /\ e.left >= young[b]
    BY <2>1, <2>2, WaitedKept
  <2> QED
    BY <1>1, <2>1, <2>3 DEF OnFile, Session
<1>5. Waited(c)' => OnFile(c)'
  <2>1. CASE Admitted(c)
    <3>1. young'[c] = Settle /\ Entry(c) \in flight'
      BY <2>1 DEF Admitted, Looks
    <3>2. Entry(c).by = c /\ Entry(c).id = Session(c) /\ Entry(c).left >= Settle
      BY PaceAssumption DEF Entry
    <3> QED
      BY <1>1, <3>1, <3>2 DEF OnFile, Session
  <2>2. CASE Refused(c)
    BY <2>2 DEF Refused, Looks, Waited
  <2> QED
    BY <2>1, <2>2
<1> QED
  BY <1>3, <1>4, <1>5 DEF Filed

LEMMA LookKeepsRoom ==
  ASSUME TypeOK, Room, NEW c \in Callers, Admitted(c) \/ Refused(c) \/ GivesUp(c)
  PROVE  Room'
<1> Session(c) \in Sessions
  BY Asked
<1>1. UNCHANGED <<asked, agent, row>> /\ \A b \in Callers : Session(b)' = Session(b) /\ Way(b)' = Way(b)
  BY DEF Admitted, Refused, GivesUp, board, Session, Way
<1>2. \A b \in Callers \ {c} :
        /\ at'[b] = at[b] /\ young'[b] \in {0, young[b]} /\ (early[b] => early'[b])
  <2>1. CASE Admitted(c) \/ Refused(c)
    BY <2>1, LooksAt DEF Admitted, Refused, Go, TypeOK
  <2>2. CASE GivesUp(c)
    BY <2>2 DEF GivesUp, Go, TypeOK
  <2> QED
    BY <2>1, <2>2
<1>3. at[c] = "asking" /\ young[c] = 0 /\ Way(c) # "operator"
  BY DEF Admitted, Refused, GivesUp, Room, NotYet
<1>4. /\ at'[c] \in {"stamp", "create"} \/ (at'[c] \in {"asking", "done"} /\ young'[c] = 0)
      /\ young'[c] \in Nat
  <2>1. CASE Admitted(c)
    <3>1. at'[c] = FirstStep(c)
      BY <2>1 DEF Admitted, Go, TypeOK
    <3>2. young'[c] = Settle
      BY <2>1 DEF Admitted, Looks
    <3> QED
      BY <3>1, <3>2, StepsFacts, PaceAssumption
  <2>2. CASE Refused(c)
    BY <2>2, <1>3 DEF Refused, Looks
  <2>3. CASE GivesUp(c)
    BY <2>3, <1>3 DEF GivesUp, Go, TypeOK
  <2> QED
    BY <2>1, <2>2, <2>3
<1>5. NotYet'
  BY <1>1, <1>2, <1>3, <1>4 DEF Room, NotYet, Steps
<1>6. Shown'
  <2> SUFFICES ASSUME NEW b \in Callers
               PROVE  /\ at'[b] = "live" /\ young'[b] > 0 => agent[Session(b)] = "busy"
                      /\ at'[b] = "done" /\ young'[b] > 0 => agent[Session(b)] = "busy"
    BY <1>1 DEF Shown
  <2>1. young[b] \in Nat
    BY DEF TypeOK
  <2>2. CASE b = c
    BY <1>4, <2>2
  <2>3. CASE b # c
    <3>1. young'[b] > 0 => young'[b] = young[b]
      BY <1>2, <2>1, <2>3
    <3> QED
      BY <1>2, <2>1, <2>3, <3>1 DEF Room, Shown, Waited
  <2> QED
    BY <2>2, <2>3
<1>7. Filed' /\ IsFiniteSet(flight')
  <2>1. CASE Admitted(c) \/ Refused(c)
    BY <2>1, LooksKeepFiled
  <2>2. CASE GivesUp(c)
    <3>1. UNCHANGED <<flight, young, early>>
      BY <2>2 DEF GivesUp, file
    <3> QED
      BY <1>1, <3>1 DEF Room, Filed, Waited, OnFile
  <2> QED
    BY <2>1, <2>2
<1> QED
  BY <1>5, <1>6, <1>7 DEF Room

\* A step that keeps the file but for stamps, and makes nobody wait for more.
LEMMA FiledStays ==
  ASSUME TypeOK, Room, asked' = asked,
         \E s \in Sessions : flight' = flight \/ flight' = Stamped(s),
         \A b \in Callers : young'[b] \in {0, young[b]} /\ (early[b] => early'[b])
  PROVE  Filed' /\ IsFiniteSet(flight')
<1>1. /\ IsFiniteSet(flight')
      /\ \A e \in flight : \E d \in flight' : d.by = e.by /\ d.id = e.id /\ d.left = e.left
  <2>1. PICK s \in Sessions : flight' = flight \/ flight' = Stamped(s)
    OBVIOUS
  <2> QED
    BY <2>1, StampedRoom DEF Room
<1>2. ASSUME NEW b \in Callers, Waited(b)'
      PROVE  OnFile(b)'
  <2>1. Waited(b) /\ young'[b] = young[b]
    BY <1>2 DEF Waited, TypeOK
  <2>2. PICK e \in flight : e.by = b /\ e.id = Session(b) /\ e.left >= young[b]
    BY <2>1 DEF Room, Filed, OnFile
  <2>3. PICK d \in flight' : d.by = b /\ d.id = Session(b) /\ d.left >= young[b]
    BY <1>1, <2>2
  <2> QED
    BY <2>1, <2>3 DEF OnFile, Session
<1> QED
  BY <1>1, <1>2 DEF Filed

\* What the steps that end or start an agent leave of the launches in its pane.
LEMMA OverFacts ==
  ASSUME TypeOK, NEW s, NEW b \in Callers
  PROVE  /\ Over(s)[b] \in {0, young[b]}
         /\ Session(b) = s /\ at[b] \notin BeforePane => Over(s)[b] = 0
BY DEF Over

LEMMA StampEndKeepRoom ==
  ASSUME TypeOK, Room, NEW c \in Callers, Stamp(c) \/ End(c)
  PROVE  Room'
<1> Session(c) \in Sessions
  BY Asked
<1>1. asked' = asked /\ early' = early /\ \A b \in Callers : Session(b)' = Session(b) /\ Way(b)' = Way(b)
  BY DEF Stamp, End, Session, Way, history
<1>2. \A b \in Callers : young'[b] \in {0, young[b]} /\ young[b] \in Nat
  BY OverFacts DEF Stamp, End, history, TypeOK
<1>3. /\ at[c] \in Steps /\ at'[c] \in {"end", "create"}
      /\ \A b \in Callers \ {c} : at'[b] = at[b]
  BY DEF Stamp, End, Go, TypeOK, Steps
<1>4. Filed' /\ IsFiniteSet(flight')
  <2>1. flight' = flight \/ flight' = Stamped(Session(c))
    BY DEF Stamp, End, file
  <2> QED
    BY <1>1, <1>2, <2>1, FiledStays
<1>5. NotYet'
  BY <1>1, <1>2, <1>3 DEF Room, NotYet, Steps
<1>6. Shown'
  <2>1. CASE Stamp(c)
    <3>1. UNCHANGED <<board, young>>
      BY <2>1 DEF Stamp, history
    <3> QED
      BY <1>1, <1>3, <3>1 DEF Room, Shown, Waited, board
  <2>2. CASE End(c)
    <3>1. /\ \A s \in Sessions \ {Session(c)} : agent'[s] = agent[s] /\ row'[s] = row[s]
          /\ agent'[Session(c)] = "none"
      BY <2>2 DEF End, TypeOK
    <3>2. \A b \in Callers : Session(b) = Session(c) /\ at[b] \in {"live", "done"} => young'[b] = 0
      BY <2>2, OverFacts DEF End, BeforePane
    <3>3. \A b \in Callers : Session(b) \in Sessions
      BY Asked
    <3> QED
      BY <1>1, <1>2, <1>3, <3>1, <3>2, <3>3 DEF Room, Shown, Waited
  <2> QED
    BY <2>1, <2>2
<1> QED
  BY <1>4, <1>5, <1>6 DEF Room

LEMMA CreateKeepsRoom ==
  ASSUME TypeOK, Room, NEW c \in Callers, Create(c)
  PROVE  Room'
<1>1. /\ asked' = asked /\ young' = young /\ row' = row /\ flight' = flight
      /\ \A b \in Callers : Session(b)' = Session(b) /\ Way(b)' = Way(b) /\ young[b] \in Nat
  BY DEF Create, file, history, Session, Way, TypeOK
<1>2. /\ at[c] = "create" /\ at'[c] = "live"
      /\ \A b \in Callers \ {c} : at'[b] = at[b]
  BY DEF Create, Go, TypeOK
<1>3. early' = early
  BY DEF Create, history
<1>4. /\ \A s \in Sessions \ {Session(c)} : agent'[s] = agent[s]
      /\ agent[Session(c)] = "none" /\ agent'[Session(c)] = "busy"
  BY Asked DEF Create, TypeOK
<1>5. Filed' /\ IsFiniteSet(flight')
  BY <1>1, <1>3, Asked, FiledStays
<1>6. NotYet'
  BY <1>1, <1>2 DEF Room, NotYet, Steps
<1>7. Shown'
  <2>1. \A b \in Callers : Session(b) \in Sessions
    BY Asked
  <2> QED
    BY <1>1, <1>2, <1>3, <1>4, <2>1 DEF Room, Shown, Waited
<1> QED
  BY <1>5, <1>6, <1>7 DEF Room

LEMMA LiveKeepsRoom ==
  ASSUME TypeOK, Room, NEW c \in Callers, Live(c)
  PROVE  Room'
<1> Session(c) \in Sessions
  BY Asked
<1>1. /\ asked' = asked /\ young' = young /\ early' = early /\ agent' = agent
      /\ \A b \in Callers : Session(b)' = Session(b) /\ Way(b)' = Way(b) /\ young[b] \in Nat
  BY DEF Live, history, Session, Way, TypeOK
<1>2. /\ at[c] = "live" /\ at'[c] = IF Way(c) = "operator" THEN "record" ELSE "done"
      /\ \A b \in Callers \ {c} : at'[b] = at[b]
  BY DEF Live, Go, TypeOK
<1>3. /\ row'[Session(c)] = "live"
      /\ \A s \in Sessions : row[s] = "live" => row'[s] = "live"
  BY DEF Live, TypeOK
<1>4. Filed' /\ IsFiniteSet(flight')
  <2>1. flight' = Stamped(Session(c))
    BY DEF Live
  <2> QED
    BY <1>1, <2>1, FiledStays
<1>5. NotYet'
  BY <1>1, <1>2 DEF Room, NotYet, Steps
<1>6. Shown'
  <2>1. \A b \in Callers : Session(b) \in Sessions
    BY Asked
  <2> QED
    BY <1>1, <1>2, <1>3, <2>1 DEF Room, Shown, Waited
<1> QED
  BY <1>4, <1>5, <1>6 DEF Room

LEMMA GivenBackKeepsRoom ==
  ASSUME TypeOK, Room, NEW c \in Callers, Fails(c) \/ Killed(c) \/ Cancel(c)
  PROVE  Room'
<1>1. /\ UNCHANGED <<asked, early, row, agent>>
      /\ \A b \in Callers : Session(b)' = Session(b) /\ Way(b)' = Way(b) /\ young[b] \in Nat
  BY DEF Fails, Killed, Cancel, board, history, Session, Way, TypeOK
<1>2. /\ young'[c] = 0 /\ at'[c] \in {"cancel", "done"}
      /\ \A b \in Callers \ {c} : at'[b] = at[b] /\ young'[b] = young[b]
  BY DEF Fails, Killed, Cancel, Go, TypeOK, Room, NotYet, history
<1>3. IsFiniteSet(flight') /\ \A e \in flight : e.by # c => e \in flight'
  <2>1. CASE Fails(c) \/ Killed(c)
    BY <2>1 DEF Fails, Killed, file, Room
  <2>2. CASE Cancel(c)
    <3>1. flight' = {e \in flight : e.by # c}
      BY <2>2 DEF Cancel
    <3>2. flight' \in SUBSET flight
      BY <3>1
    <3> QED
      BY <3>1, <3>2, FS_Subset DEF Room
  <2> QED
    BY <2>1, <2>2
<1>4. Filed'
  <2> SUFFICES ASSUME NEW b \in Callers, Waited(b)'
               PROVE  OnFile(b)'
    BY DEF Filed
  <2>1. b # c /\ Waited(b)
    BY <1>1, <1>2 DEF Waited
  <2>2. PICK e \in flight : e.by = b /\ e.id = Session(b) /\ e.left >= young[b]
    BY <2>1 DEF Room, Filed, OnFile
  <2> QED
    BY <1>1, <1>2, <1>3, <2>1, <2>2 DEF OnFile
<1>5. NotYet'
  BY <1>1, <1>2 DEF Room, NotYet, Steps
<1>6. Shown'
  BY <1>1, <1>2 DEF Room, Shown, Waited
<1> QED
  BY <1>3, <1>4, <1>5, <1>6 DEF Room

LEMMA RecordKeepsRoom ==
  ASSUME TypeOK, Room, NEW c \in Callers, Record(c)
  PROVE  Room'
<1>1. /\ UNCHANGED <<asked, early, row, agent>> /\ flight' = flight \cup {Entry(c)}
      /\ \A b \in Callers : Session(b)' = Session(b) /\ Way(b)' = Way(b) /\ young[b] \in Nat
  BY DEF Record, board, Session, Way, TypeOK
<1>2. /\ at[c] = "record" /\ at'[c] = "done"
      /\ young'[c] = IF agent[Session(c)] = "busy" THEN Settle ELSE 0
      /\ \A b \in Callers \ {c} : at'[b] = at[b] /\ young'[b] = young[b]
  BY DEF Record, Go, TypeOK
<1>3. IsFiniteSet(flight')
  BY <1>1, FS_AddElement DEF Room
<1>4. Filed'
  <2> SUFFICES ASSUME NEW b \in Callers, Waited(b)'
               PROVE  OnFile(b)'
    BY DEF Filed
  <2>1. CASE b = c
    <3>1. Entry(c).by = c /\ Entry(c).id = Session(c) /\ Entry(c).left = Settle
      BY DEF Entry
    <3>2. Settle >= young'[c]
      BY <1>2, PaceAssumption
    <3> QED
      BY <1>1, <2>1, <3>1, <3>2 DEF OnFile
  <2>2. CASE b # c
    <3>1. Waited(b)
      BY <1>1, <1>2, <2>2 DEF Waited
    <3>2. PICK e \in flight : e.by = b /\ e.id = Session(b) /\ e.left >= young[b]
      BY <3>1 DEF Room, Filed, OnFile
    <3> QED
      BY <1>1, <1>2, <2>2, <3>2 DEF OnFile
  <2> QED
    BY <2>1, <2>2
<1>5. NotYet'
  BY <1>1, <1>2 DEF Room, NotYet, Steps
<1>6. Shown'
  BY <1>1, <1>2 DEF Room, Shown, Waited
<1> QED
  BY <1>3, <1>4, <1>5, <1>6 DEF Room

LEMMA AgentsKeepRoom ==
  ASSUME TypeOK, Room, NEW s \in Sessions, Rests(s) \/ AgentExits(s) \/ Pass(s)
  PROVE  Room'
<1>1. /\ UNCHANGED <<asked, at, early, flight>>
      /\ \A b \in Callers : Session(b)' = Session(b) /\ Way(b)' = Way(b) /\ young[b] \in Nat
  BY DEF Rests, AgentExits, Pass, PassLists, PassScans, PassFlushes, file, history, Session, Way, TypeOK
<1>2. \A b \in Callers : young'[b] \in {0, young[b]}
  BY OverFacts DEF Rests, AgentExits, Pass, PassLists, PassScans, PassFlushes, history
<1>3. Filed' /\ IsFiniteSet(flight')
  BY <1>1, <1>2, FiledStays
<1>4. NotYet'
  BY <1>1, <1>2 DEF Room, NotYet
<1>5. Shown'
  <2>1. \A b \in Callers : Session(b) \in Sessions
    BY Asked
  <2>2. CASE Rests(s) \/ AgentExits(s)
    <3>1. row' = row /\ young' = Over(s)
      BY <2>2 DEF Rests, AgentExits
    <3>2. \E a \in {"rest", "none"} : agent' = [agent EXCEPT ![s] = a]
      BY <2>2 DEF Rests, AgentExits
    <3>3. agent'[s] # "busy" /\ \A x \in Sessions \ {s} : agent'[x] = agent[x]
      BY <3>2 DEF TypeOK
    <3>4. \A b \in Callers : Session(b) = s /\ at[b] \in {"live", "done"} => young'[b] = 0
      BY <3>1, OverFacts DEF BeforePane
    <3> QED
      BY <1>1, <1>2, <2>1, <3>1, <3>3, <3>4 DEF Room, Shown, Waited
  <2>3. CASE Pass(s)
    <3>1. UNCHANGED <<agent, young>>
      BY <2>3 DEF Pass, PassLists, PassScans, PassFlushes, history
    <3> QED
      BY <1>1, <3>1 DEF Room, Shown
  <2> QED
    BY <2>2, <2>3
<1> QED
  BY <1>3, <1>4, <1>5 DEF Room

LEMMA TickKeepsRoom ==
  ASSUME TypeOK, Room, Tick
  PROVE  Room'
<1>1. /\ UNCHANGED <<asked, at, early, row, agent>>
      /\ \A b \in Callers : Session(b)' = Session(b) /\ Way(b)' = Way(b)
  BY DEF Tick, board, Session, Way
<1>2. \A b \in Callers : young'[b] = Down(young[b]) /\ young[b] \in 0..Settle
  BY DEF Tick, TypeOK
<1>3. \A b \in Callers : young'[b] \in Nat /\ (young[b] = 0 => young'[b] = 0)
                       /\ (young'[b] > 0 => young[b] > 0)
  BY <1>2, PaceAssumption DEF Down
<1> DEFINE g == [e \in flight |-> [e EXCEPT !.left = Down(@)]]
<1>4. flight' = {g[e] : e \in flight}
  BY DEF Tick
<1>5. IsFiniteSet(flight')
  <2>1. g \in [flight -> {g[e] : e \in flight}]
    OBVIOUS
  <2> HIDE DEF g
  <2> QED
    BY <1>4, <2>1, ImageFinite DEF Room
<1>6. \A e \in flight : g[e] \in flight' /\ g[e].by = e.by /\ g[e].id = e.id
                        /\ g[e].left = Down(e.left)
  BY <1>4 DEF TypeOK
<1> HIDE DEF g
<1>7. Filed'
  <2> SUFFICES ASSUME NEW b \in Callers, Waited(b)'
               PROVE  OnFile(b)'
    BY DEF Filed
  <2>1. Waited(b)
    BY <1>1, <1>3 DEF Waited
  <2>2. PICK e \in flight : e.by = b /\ e.id = Session(b) /\ e.left >= young[b]
    BY <2>1 DEF Room, Filed, OnFile
  <2>3. e.left \in 0..Settle
    BY DEF TypeOK
  <2>4. Down(e.left) >= Down(young[b])
    BY <1>2, <2>2, <2>3, DownFact, PaceAssumption
  <2> QED
    BY <1>1, <1>2, <1>6, <2>2, <2>4 DEF OnFile
<1>8. NotYet'
  BY <1>1, <1>3 DEF Room, NotYet
<1>9. Shown'
  BY <1>1, <1>3 DEF Room, Shown, Waited
<1> QED
  BY <1>5, <1>7, <1>8, <1>9 DEF Room

LEMMA NextKeepsRoom ==
  ASSUME TypeOK, Room, [Next]_vars
  PROVE  Room'
<1>1. CASE \E c \in Callers : Admitted(c) \/ Refused(c) \/ GivesUp(c)
  BY <1>1, LookKeepsRoom
<1>2. CASE \E c \in Callers : LaunchStep(c) \/ Killed(c)
  BY <1>2, StampEndKeepRoom, CreateKeepsRoom, LiveKeepsRoom, GivenBackKeepsRoom, RecordKeepsRoom
  DEF LaunchStep
<1>3. CASE \E c \in Callers : Rests(Session(c)) \/ AgentExits(Session(c)) \/ Pass(Session(c))
  BY <1>3, Asked, AgentsKeepRoom
<1>4. CASE Tick
  BY <1>4, TickKeepsRoom
<1>5. CASE UNCHANGED vars
  <2>1. UNCHANGED <<asked, at, young, early, flight, row, agent>>
    BY <1>5 DEF vars, file, board, history
  <2> QED
    BY <2>1 DEF Room, NotYet, Shown, Filed, Waited, OnFile, Session, Way
<1> QED
  BY <1>1, <1>2, <1>3, <1>4, <1>5 DEF Next

\* The pacer's limit (launchpace.go): a launch is admitted beside fewer than its
\* limit of others that still have to come to their prompts, of those that have been
\* made, that nobody looked at meanwhile and whose rows read live at every look since,
\* however late a pass writes what it saw, for any number of processes and any limits.
THEOREM RoomAlways == Spec => RoomKept
<1>1. ASSUME TypeOK, Room, [Next]_vars, NEW c \in Callers, Admits(c)
      PROVE  Cardinality(Unsettled(c)) < Limit(c)
  <2>1. Admitted(c)
    BY <1>1, AdmitsOnly
  <2>2. Cardinality(Kept(c)) < Limit(c)
    BY <2>1 DEF Admitted, MayStart
  <2>3. IsFiniteSet(Kept(c))
    <3>1. Kept(c) \in SUBSET flight
      BY DEF Kept
    <3> QED
      BY <1>1, <3>1, FS_Subset DEF Room
  <2> DEFINE T == {e.by : e \in Kept(c)}
             g == [e \in Kept(c) |-> e.by]
  <2>4. g \in Surjection(Kept(c), T)
    BY DEF Surjection
  <2>5. Unsettled(c) \in SUBSET T
    <3> SUFFICES ASSUME NEW b \in Unsettled(c)
                 PROVE  b \in T
      OBVIOUS
    <3>1. /\ b \in Callers /\ Waited(b) /\ at[b] \notin Steps
          /\ Session(b) # Session(c) /\ row[Session(b)] = "live"
      BY DEF Unsettled, Waited
    <3>2. PICK e \in Kept(c) : e.by = b
      BY <1>1, <3>1, WaitedKept
    <3> QED
      BY <3>2
  <2> HIDE DEF T, g
  <2>6. IsFiniteSet(T) /\ Cardinality(T) <= Cardinality(Kept(c))
    BY <2>3, <2>4, FS_Surjection
  <2>7. IsFiniteSet(Unsettled(c)) /\ Cardinality(Unsettled(c)) <= Cardinality(T)
    BY <2>5, <2>6, FS_Subset
  <2>8. /\ Cardinality(Unsettled(c)) \in Nat /\ Cardinality(T) \in Nat
        /\ Cardinality(Kept(c)) \in Nat /\ Limit(c) \in Nat
    BY <2>3, <2>6, <2>7, FS_CardinalityType, PaceAssumption DEF Limit
  <2> QED
    BY <2>2, <2>6, <2>7, <2>8
<1>2. TypeOK /\ Room /\ [Next]_vars =>
        [\A c \in Callers : Admits(c) => Cardinality(Unsettled(c)) < Limit(c)]_vars
  BY <1>1
<1> QED
  BY <1>2, InitType, NextKeepsType, RoomInit, NextKeepsRoom, PTL DEF Spec, RoomKept
=============================================================================
