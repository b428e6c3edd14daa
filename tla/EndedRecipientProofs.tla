------------------------ MODULE EndedRecipientProofs ------------------------
(***************************************************************************)
(* EndedRecipient proved for any number of boards, commands and letters,   *)
(* and whatever fails: that a sender is told once; that a pass undoes no   *)
(* archive; that a hibernated session keeps its mail under its mark; and   *)
(* the types.                                                              *)
(***************************************************************************)
EXTENDS EndedRecipient, SequenceTheorems, FiniteSetTheorems, TLAPS

-----------------------------------------------------------------------------
(* The part of the state the notices are kept in. *)

LettersTyped ==
  /\ mail \in [Letters -> {"unsent", "queued", "typed", "dropped"}]
  /\ told \in [Letters -> Nat]
  /\ owed \in [Procs -> SUBSET Letters]
AccountInv == LettersTyped /\ NoticesAccounted

LEMMA AccountInit == Init => AccountInv
  BY DEF Init, AccountInv, LettersTyped, NoticesAccounted

LEMMA AccountQuiet ==
  ASSUME AccountInv, UNCHANGED letters
  PROVE  AccountInv'
  BY DEF AccountInv, LettersTyped, NoticesAccounted, letters

(* The steps that leave the letters alone. *)

LEMMA CommandQuiet ==
  ASSUME NEW c \in Callers, Begin(c)
  PROVE  UNCHANGED letters
  BY DEF Begin, Call, Stop, Restart, Revive, Archive, Restore, Hibernate,
         SendWakes, SendRestores, Send, Relay, NeighbourCommand, letters

LEMMA PassQuiet ==
  ASSUME NEW m \in Managers, BeginPass(m) \/ Pass(m)
  PROVE  UNCHANGED letters
  BY DEF BeginPass, Pass, ReadFiled, ListSessions, ScanPanes,
         RestoreLiveArchived, NothingToMend, Flush, FlushThenFail,
         NothingToFlush, letters

LEMMA StepQuiet ==
  ASSUME NEW p \in Procs, Step(p), ~Drop(p), ~Tell(p)
  PROVE  UNCHANGED letters
  BY DEF Step, Dead, Live, File, RestoreRow, Mark, Unmark, Kill, Doze, StopFails,
         Pace, Create, CreateFails, Resolve, letters

(* The steps that move a letter or a notice. *)

LEMMA PostKeeps ==
  ASSUME AccountInv, NEW c \in Callers, Post(c)
  PROVE  AccountInv'
<1>1. told' = told /\ owed' = owed
  BY DEF Post
<1>2. CASE \E l \in Letters : mail[l] = "unsent" /\ mail' = [mail EXCEPT ![l] = "queued"]
  <2>1. PICK l \in Letters : mail[l] = "unsent" /\ mail' = [mail EXCEPT ![l] = "queued"]
    BY <1>2
  <2>2. \A k \in Letters : mail[k] = "dropped" => mail'[k] = "dropped"
    BY <2>1 DEF AccountInv, LettersTyped
  <2> QED
    BY <1>1, <2>1, <2>2 DEF AccountInv, LettersTyped, NoticesAccounted
<1>3. CASE UNCHANGED mail
  BY <1>1, <1>3, AccountQuiet DEF letters
<1> QED
  BY <1>2, <1>3 DEF Post

LEMMA DeliverKeeps ==
  ASSUME AccountInv, NEW m \in Managers, Deliver(m)
  PROVE  AccountInv'
<1>1. PICK l \in QueuedLetters : mail' = [mail EXCEPT ![l] = "typed"]
  BY DEF Deliver
<1>2. told' = told /\ owed' = owed
  BY DEF Deliver
<1>3. l \in Letters /\ mail[l] = "queued"
  BY DEF QueuedLetters
<1>4. \A k \in Letters : mail[k] = "dropped" => mail'[k] = "dropped"
  BY <1>1, <1>3 DEF AccountInv, LettersTyped
<1> QED
  BY <1>1, <1>2, <1>3, <1>4 DEF AccountInv, LettersTyped, NoticesAccounted

\* Only what is queued is dropped, so nobody owes or has written its notice yet.
LEMMA DropKeeps ==
  ASSUME AccountInv, NEW p \in Procs, Drop(p)
  PROVE  AccountInv'
<1> DEFINE gone == IF status = "dead" THEN {l \in Letters : Waiting(l)} ELSE {}
           news == {l \in gone : SentBy[l] \notin Silent}
<1>1. /\ mail' = [l \in Letters |-> IF l \in gone THEN "dropped" ELSE mail[l]]
      /\ owed' = [owed EXCEPT ![p] = news]
      /\ told' = told
  BY DEF Drop
<1>2. gone \subseteq Letters /\ \A l \in gone : mail[l] = "queued"
  BY DEF Waiting
<1>3. news \subseteq gone /\ \A l \in news : SentBy[l] \notin Silent
  OBVIOUS
<1> HIDE DEF gone, news
<1>4. LettersTyped'
  BY <1>1, <1>2, <1>3 DEF AccountInv, LettersTyped
<1>5. \A l \in news : told[l] = 0 /\ \A q \in Procs : l \notin owed[q]
  BY <1>2, <1>3 DEF AccountInv, NoticesAccounted
<1>6. \A q \in Procs : owed'[q] = IF q = p THEN news ELSE owed[q]
  BY <1>1 DEF AccountInv, LettersTyped
<1>7. ASSUME NEW l \in Letters
      PROVE  /\ told'[l] \in {0, 1}
             /\ told'[l] = 1 => mail'[l] = "dropped"
             /\ \A q \in Procs : l \in owed'[q] =>
                  /\ mail'[l] = "dropped" /\ told'[l] = 0 /\ SentBy[l] \notin Silent
                  /\ \A r \in Procs \ {q} : l \notin owed'[r]
  <2>1. mail[l] = "dropped" => mail'[l] = "dropped"
    BY <1>1
  <2>2. l \in news => mail'[l] = "dropped"
    BY <1>1, <1>3
  <2>3. told[l] \in {0, 1} /\ (told[l] = 1 => mail[l] = "dropped")
    BY DEF AccountInv, NoticesAccounted
  <2>4. \A q \in Procs : l \in owed[q] =>
          /\ mail[l] = "dropped" /\ told[l] = 0 /\ SentBy[l] \notin Silent
          /\ \A r \in Procs \ {q} : l \notin owed[r]
    BY DEF AccountInv, NoticesAccounted
  <2> QED
    BY <1>1, <1>3, <1>5, <1>6, <2>1, <2>2, <2>3, <2>4
<1> QED
  BY <1>4, <1>7 DEF AccountInv, NoticesAccounted

\* What a notice names leaves the list of the process that writes it, and was
\* on no other list.
LEMMA TellKeeps ==
  ASSUME AccountInv, NEW p \in Procs, Tell(p)
  PROVE  AccountInv'
<1>1. PICK s \in Senders :
        /\ told' = [l \in Letters |-> told[l] + IF l \in OwedTo(p, s) THEN 1 ELSE 0]
        /\ owed' = [owed EXCEPT ![p] = LeftToTell(p, s)]
  BY DEF Tell
<1>2. mail' = mail
  BY DEF Tell
<1> DEFINE named == OwedTo(p, s)
           left == LeftToTell(p, s)
<1>3. named \subseteq owed[p] /\ left = owed[p] \ named
  BY DEF OwedTo, LeftToTell
<1>4. /\ told' = [l \in Letters |-> told[l] + IF l \in named THEN 1 ELSE 0]
      /\ owed' = [owed EXCEPT ![p] = left]
  BY <1>1
<1> HIDE DEF named, left
<1>5. LettersTyped'
  BY <1>2, <1>3, <1>4 DEF AccountInv, LettersTyped
<1>6. \A q \in Procs : owed'[q] = IF q = p THEN left ELSE owed[q]
  BY <1>4 DEF AccountInv, LettersTyped
<1>7. ASSUME NEW l \in Letters
      PROVE  /\ told'[l] \in {0, 1}
             /\ told'[l] = 1 => mail'[l] = "dropped"
             /\ \A q \in Procs : l \in owed'[q] =>
                  /\ mail'[l] = "dropped" /\ told'[l] = 0 /\ SentBy[l] \notin Silent
                  /\ \A r \in Procs \ {q} : l \notin owed'[r]
  <2>1. told[l] \in {0, 1} /\ (told[l] = 1 => mail[l] = "dropped")
    BY DEF AccountInv, NoticesAccounted
  <2>2. \A q \in Procs : l \in owed[q] =>
          /\ mail[l] = "dropped" /\ told[l] = 0 /\ SentBy[l] \notin Silent
          /\ \A r \in Procs \ {q} : l \notin owed[r]
    BY DEF AccountInv, NoticesAccounted
  <2>3. CASE l \in named
    <3>1. told'[l] = 1 /\ mail[l] = "dropped"
      BY <1>3, <1>4, <2>2, <2>3
    <3>2. \A q \in Procs : l \notin owed'[q]
      BY <1>3, <1>6, <2>2, <2>3
    <3> QED
      BY <1>2, <3>1, <3>2
  <2>4. CASE l \notin named
    <3>1. told'[l] = told[l]
      BY <1>4, <2>1, <2>4
    <3>2. \A q \in Procs : l \in owed'[q] => l \in owed[q]
      BY <1>3, <1>6
    <3> QED
      BY <1>2, <2>1, <2>2, <3>1, <3>2
  <2> QED
    BY <2>3, <2>4
<1> QED
  BY <1>5, <1>7 DEF AccountInv, NoticesAccounted

\* A process cut short owes nothing any more; nobody comes to owe it instead.
LEMMA CutShortKeeps ==
  ASSUME AccountInv, NEW p \in Procs, CutShort(p)
  PROVE  AccountInv'
<1>1. owed' = [owed EXCEPT ![p] = {}] /\ mail' = mail /\ told' = told
  BY DEF CutShort
<1>2. \A q \in Procs : owed'[q] \subseteq owed[q]
  BY <1>1 DEF AccountInv, LettersTyped
<1> QED
  BY <1>1, <1>2 DEF AccountInv, LettersTyped, NoticesAccounted

LEMMA AccountNext == AccountInv /\ [Next]_vars => AccountInv'
<1> SUFFICES ASSUME AccountInv, [Next]_vars PROVE AccountInv'
  OBVIOUS
<1> USE DEF Procs
<1>1. ASSUME NEW c \in Callers, Begin(c) PROVE AccountInv'
  BY <1>1, CommandQuiet, AccountQuiet
<1>2. ASSUME NEW c \in Callers, WriteBack(c) \/ Look(c) PROVE AccountInv'
  BY <1>2, AccountQuiet DEF WriteBack, Look, letters
<1>3. ASSUME NEW c \in Callers, Post(c) PROVE AccountInv'
  BY <1>3, PostKeeps
<1>4. ASSUME NEW s \in Settlers, Settle(s) \/ Wake(s) \/ WakeFails(s) PROVE AccountInv'
  BY <1>4, AccountQuiet DEF Settle, Wake, WakeFails, letters
<1>5. ASSUME NEW m \in Managers, BeginPass(m) \/ Pass(m) PROVE AccountInv'
  BY <1>5, PassQuiet, AccountQuiet
<1>6. ASSUME NEW m \in Managers, Deliver(m) PROVE AccountInv'
  BY <1>6, DeliverKeeps
<1>7. ASSUME NEW p \in Procs, Step(p) PROVE AccountInv'
  BY <1>7, DropKeeps, TellKeeps, StepQuiet, AccountQuiet
<1>8. ASSUME NEW p \in Procs, CutShort(p) PROVE AccountInv'
  BY <1>8, CutShortKeeps
<1>9. CASE AgentExits
  BY <1>9, AccountQuiet DEF AgentExits, letters
<1>10. CASE UNCHANGED vars
  BY <1>10, AccountQuiet DEF vars, letters
<1> QED
  BY <1>1, <1>2, <1>3, <1>4, <1>5, <1>6, <1>7, <1>8, <1>9, <1>10 DEF Next

\* However many boards and commands resolve a queue at once, and wherever they
\* are killed, a sender is told of a dropped letter at most once
\* (recipientended.go, the update and the notices that follow it).
THEOREM NoticesOnce == Spec => []NoticesAccounted
<1>1. AccountInv => NoticesAccounted
  BY DEF AccountInv
<1> QED
  BY <1>1, AccountInit, AccountNext, PTL DEF Spec

-----------------------------------------------------------------------------
(* A pass's restore of an archived row. *)

\* What a manager may still have to do: a pass, from any of its steps on, or the
\* rest of what its flush led to.
PassShapes ==
  { <<>>, <<"filed", "list", "scan", "mend", "flush">>,
    <<"list", "scan", "mend", "flush">>, <<"scan", "mend", "flush">>,
    <<"mend", "flush">>, <<"list", "flush">>, <<"flush">>,
    <<"resolve">>, <<"drop">>, <<"tell">> }
\* The shapes in which the panes of this pass have been scanned.
Scanned == {<<"mend", "flush">>, <<"list", "flush">>, <<"flush">>}

Views == [filed : BOOLEAN, filing : Nat, archived : BOOLEAN,
          status : Statuses, pane : BOOLEAN]
RowTyped ==
  /\ archived \in BOOLEAN /\ pane \in BOOLEAN /\ ranFiled \in BOOLEAN
  /\ status \in Statuses /\ filings \in Nat
  /\ DOMAIN todo = Procs /\ seen \in [Managers -> Views]
\* What a pass has read of the filing it is under, and of the panes, is of now or
\* of before.
ViewsOld ==
  \A m \in Managers :
    /\ todo[m] \in PassShapes
    /\ seen[m].pane => todo[m] \in Scanned
    /\ seen[m].filing <= filings
\* An agent up under an archived row was launched under it or outlived the
\* archive; and so was one a pass saw, under the filing it read first.
FiledRan ==
  /\ archived /\ pane => ranFiled
  /\ \A m \in Managers :
       seen[m].filed /\ seen[m].pane /\ seen[m].filing = filings /\ archived => ranFiled
MendInv == RowTyped /\ ViewsOld /\ FiledRan

LEMMA ListAgain == <<"list">> \o <<"flush">> = <<"list", "flush">>
<1> DEFINE first == <<"list">>
           rest == <<"flush">>
           both == <<"list", "flush">>
<1>1. /\ first \in Seq({"list", "flush"}) /\ rest \in Seq({"list", "flush"})
      /\ both \in Seq({"list", "flush"})
  OBVIOUS
<1>2. /\ Len(first) = 1 /\ Len(rest) = 1 /\ Len(both) = 2
      /\ first[1] = "list" /\ rest[1] = "flush"
      /\ both[1] = "list" /\ both[2] = "flush"
  OBVIOUS
<1> HIDE DEF first, rest, both
<1>3. /\ first \o rest \in Seq({"list", "flush"}) /\ Len(first \o rest) = 2
      /\ (first \o rest)[1] = first[1] /\ (first \o rest)[2] = rest[1]
  BY <1>1, <1>2, ConcatProperties
<1>4. first \o rest = both
  BY <1>1, <1>2, <1>3, SeqEqual
<1> QED
  BY <1>4 DEF first, rest, both

LEMMA GoSets ==
  ASSUME DOMAIN todo = Procs, NEW p \in Procs, NEW steps, Go(p, steps)
  PROVE  /\ DOMAIN todo' = Procs /\ todo'[p] = steps
         /\ \A q \in Procs \ {p} : todo'[q] = todo[q]
  BY DEF Go

\* Which step comes after which, in a manager's series.
LEMMA ManagerAt ==
  ASSUME NEW m \in Managers, todo[m] \in PassShapes
  PROVE  /\ At(m, "filed") => After(m) = <<"list", "scan", "mend", "flush">>
         /\ At(m, "list") /\ todo[m] \notin Scanned =>
              After(m) = <<"scan", "mend", "flush">>
         /\ At(m, "list") /\ todo[m] \in Scanned => After(m) = <<"flush">>
         /\ At(m, "scan") => After(m) = <<"mend", "flush">>
         /\ At(m, "mend") => After(m) = <<"flush">>
         /\ At(m, "flush") => todo[m] = <<"flush">>
         /\ At(m, "resolve") \/ At(m, "drop") \/ At(m, "tell") =>
              After(m) = <<>> /\ todo[m] \notin Scanned
         /\ At(m, "filed") \/ At(m, "scan") => todo[m] \notin Scanned
         /\ Idle(m) => todo[m] \notin Scanned
<1>1. CASE todo[m] = <<>>
  BY <1>1 DEF Scanned, At, Idle
<1>2. CASE todo[m] = <<"filed", "list", "scan", "mend", "flush">>
  BY <1>2 DEF Scanned, At, Idle, After
<1>3. CASE todo[m] = <<"list", "scan", "mend", "flush">>
  BY <1>3 DEF Scanned, At, Idle, After
<1>4. CASE todo[m] = <<"scan", "mend", "flush">>
  BY <1>4 DEF Scanned, At, Idle, After
<1>5. CASE todo[m] = <<"mend", "flush">>
  BY <1>5 DEF Scanned, At, Idle, After
<1>6. CASE todo[m] = <<"list", "flush">>
  BY <1>6 DEF Scanned, At, Idle, After
<1>7. CASE todo[m] = <<"flush">>
  BY <1>7 DEF Scanned, At, Idle, After
<1>8. CASE todo[m] = <<"resolve">>
  BY <1>8 DEF Scanned, At, Idle, After
<1>9. CASE todo[m] = <<"drop">>
  BY <1>9 DEF Scanned, At, Idle, After
<1>10. CASE todo[m] = <<"tell">>
  BY <1>10 DEF Scanned, At, Idle, After
<1> QED
  BY <1>1, <1>2, <1>3, <1>4, <1>5, <1>6, <1>7, <1>8, <1>9, <1>10 DEF PassShapes

LEMMA ManagerNotAt ==
  ASSUME NEW m \in Managers, todo[m] \in PassShapes, NEW step,
         step \notin {"filed", "list", "scan", "mend", "flush", "resolve", "drop", "tell"}
  PROVE  ~At(m, step)
  BY DEF PassShapes, At, Idle

LEMMA MendInit == Init => MendInv
<1> SUFFICES ASSUME Init PROVE MendInv
  OBVIOUS
<1>1. DOMAIN todo = Procs /\ \A m \in Managers : todo[m] = <<>> /\ seen[m] = Nothing
  BY DEF Init, Procs
<1>2. Nothing \in Views /\ ~Nothing.pane /\ ~Nothing.filed /\ Nothing.filing = 0
  BY DEF Nothing, Views, Statuses
<1>3. seen \in [Managers -> Views]
  BY <1>1, <1>2 DEF Init
<1>4. <<>> \in PassShapes
  BY DEF PassShapes
<1>5. RowTyped
  BY <1>1, <1>3 DEF Init, RowTyped, Statuses
<1>6. ViewsOld
  BY <1>1, <1>2, <1>4 DEF Init, ViewsOld
<1>7. FiledRan
  BY <1>1, <1>2 DEF Init, FiledRan
<1> QED
  BY <1>5, <1>6, <1>7 DEF MendInv

\* Who keeps the pane down or leaves it, and leaves the filing alone, keeps the
\* invariant.
LEMMA RowKeeps ==
  ASSUME MendInv, UNCHANGED <<archived, filings, ranFiled, seen>>,
         pane' = pane \/ pane' = FALSE, status' \in Statuses, DOMAIN todo' = Procs,
         \A m \in Managers : /\ todo'[m] \in PassShapes
                             /\ todo'[m] = todo[m] \/ todo[m] \notin Scanned
  PROVE  MendInv'
<1>1. RowTyped'
  BY DEF MendInv, RowTyped
<1>2. ViewsOld'
  BY DEF MendInv, ViewsOld
<1>3. FiledRan'
  BY DEF MendInv, FiledRan
<1> QED
  BY <1>1, <1>2, <1>3 DEF MendInv

\* A step no manager takes leaves the managers' series alone.
LEMMA Elsewhere ==
  ASSUME MendInv, NEW p \in Procs, NEW steps, NEW step, At(p, step), Go(p, steps),
         step \notin {"filed", "list", "scan", "mend", "flush", "resolve", "drop", "tell"}
  PROVE  /\ DOMAIN todo' = Procs
         /\ \A m \in Managers : todo'[m] = todo[m] /\ todo'[m] \in PassShapes
<1>1. p \notin Managers
  BY ManagerNotAt DEF MendInv, ViewsOld
<1>2. \A m \in Managers : todo[m] \in PassShapes
  BY DEF MendInv, ViewsOld
<1> QED
  BY <1>1, <1>2, GoSets DEF MendInv, RowTyped, Procs

LEMMA BeginMends ==
  ASSUME MendInv, NEW c \in Callers, Begin(c)
  PROVE  MendInv'
<1>1. PICK steps : Go(c, steps)
  BY DEF Begin, Call, Stop, Restart, Revive, Archive, Restore, Hibernate,
         SendWakes, SendRestores, Send, Relay, NeighbourCommand
<1>2. UNCHANGED <<archived, filings, ranFiled, seen, pane, status>>
  BY DEF Begin, Call, Stop, Restart, Revive, Archive, Restore, Hibernate,
         SendWakes, SendRestores, Send, Relay, NeighbourCommand, row, history, filing
<1>3. c \in Procs /\ c \notin Managers
  BY RecipientAssumption DEF Procs
<1>4. /\ DOMAIN todo' = Procs
      /\ \A m \in Managers : todo'[m] = todo[m] /\ todo[m] \in PassShapes
  BY <1>1, <1>3, GoSets DEF MendInv, RowTyped, ViewsOld, Procs
<1> QED
  BY <1>2, <1>4, RowKeeps DEF MendInv, RowTyped

LEMMA CallerMends ==
  ASSUME MendInv, NEW c \in Callers, WriteBack(c) \/ Look(c) \/ Post(c)
  PROVE  MendInv'
<1>1. PICK step, steps : /\ step \in {"writeback", "look", "post"}
                         /\ At(c, step) /\ Go(c, steps)
  BY DEF WriteBack, Look, Post
<1>2. UNCHANGED <<archived, filings, ranFiled, seen, pane, status>>
  BY DEF WriteBack, Look, Post, row, history, filing
<1>3. c \in Procs
  BY DEF Procs
<1> QED
  BY <1>1, <1>2, <1>3, Elsewhere, RowKeeps DEF MendInv, RowTyped, ViewsOld

LEMMA SettlerMends ==
  ASSUME MendInv, NEW s \in Settlers, Settle(s) \/ Wake(s) \/ WakeFails(s)
  PROVE  MendInv'
<1>1. PICK steps : Go(s, steps)
  BY DEF Settle, Wake, WakeFails
<1>2. UNCHANGED <<archived, filings, ranFiled, seen, pane, status>>
  BY DEF Settle, Wake, WakeFails, row, history, filing
<1>3. s \in Procs /\ s \notin Managers
  BY RecipientAssumption DEF Procs
<1>4. /\ DOMAIN todo' = Procs
      /\ \A m \in Managers : todo'[m] = todo[m] /\ todo[m] \in PassShapes
  BY <1>1, <1>3, GoSets DEF MendInv, RowTyped, ViewsOld, Procs
<1> QED
  BY <1>2, <1>4, RowKeeps DEF MendInv, RowTyped

\* An archive's filing is one no pass has read yet.
LEMMA FileMends ==
  ASSUME MendInv, NEW p \in Procs, File(p)
  PROVE  MendInv'
<1>1. /\ DOMAIN todo' = Procs
      /\ \A m \in Managers : todo'[m] = todo[m] /\ todo'[m] \in PassShapes
  BY Elsewhere DEF File
<1>2. /\ archived' = TRUE /\ filings' = filings + 1 /\ ranFiled' = pane
      /\ pane' = pane /\ seen' = seen /\ status' = status
  BY DEF File
<1>3. RowTyped'
  BY <1>1, <1>2 DEF MendInv, RowTyped
<1>4. \A m \in Managers : seen'[m].filing \in Nat /\ seen'[m].filing < filings'
  BY <1>2 DEF MendInv, RowTyped, ViewsOld, Views
<1>5. ViewsOld'
  BY <1>1, <1>2, <1>4 DEF MendInv, RowTyped, ViewsOld
<1>6. FiledRan'
  BY <1>2, <1>4 DEF MendInv, RowTyped, FiledRan
<1> QED
  BY <1>3, <1>5, <1>6 DEF MendInv

LEMMA RestoreMends ==
  ASSUME MendInv, NEW p \in Procs, RestoreRow(p)
  PROVE  MendInv'
<1>1. /\ DOMAIN todo' = Procs
      /\ \A m \in Managers : todo'[m] = todo[m] /\ todo'[m] \in PassShapes
  BY Elsewhere DEF RestoreRow
<1>2. archived' = FALSE /\ UNCHANGED <<filings, ranFiled, pane, seen, status>>
  BY DEF RestoreRow, history, filing
<1> QED
  BY <1>1, <1>2 DEF MendInv, RowTyped, ViewsOld, FiledRan

LEMMA CreateMends ==
  ASSUME MendInv, NEW p \in Procs, Create(p)
  PROVE  MendInv'
<1>1. /\ DOMAIN todo' = Procs
      /\ \A m \in Managers : todo'[m] = todo[m] /\ todo'[m] \in PassShapes
  BY Elsewhere DEF Create
<1>2. /\ pane' = TRUE /\ ranFiled' = (ranFiled \/ archived)
      /\ UNCHANGED <<archived, filings, seen, status>>
  BY DEF Create, row
<1>3. RowTyped'
  BY <1>1, <1>2 DEF MendInv, RowTyped
<1>4. ViewsOld'
  BY <1>1, <1>2 DEF MendInv, ViewsOld
<1>5. FiledRan'
  BY <1>2 DEF MendInv, FiledRan
<1> QED
  BY <1>3, <1>4, <1>5 DEF MendInv

\* The steps that change the row's status, the set or the pane's end.
LEMMA QuietStepMends ==
  ASSUME MendInv, NEW p \in Procs,
         \/ Dead(p) \/ Live(p) \/ Mark(p) \/ Unmark(p) \/ Kill(p) \/ Doze(p)
         \/ StopFails(p) \/ Pace(p) \/ CreateFails(p)
  PROVE  MendInv'
<1>1. PICK step, steps :
        /\ step \in {"dead", "dozed", "live", "mark", "unmark", "forget", "kill", "doze",
                      "pace", "create"}
        /\ At(p, step) /\ Go(p, steps)
  BY DEF Dead, Live, Mark, Unmark, Kill, Doze, StopFails, Pace, CreateFails
<1>2. /\ UNCHANGED <<archived, filings, ranFiled, seen>>
      /\ pane' = pane \/ pane' = FALSE
      /\ status' \in Statuses
  BY DEF Dead, Live, Mark, Unmark, Kill, Doze, StopFails, Pace, CreateFails,
         MendInv, RowTyped, Statuses, row, history, filing
<1> QED
  BY <1>1, <1>2, Elsewhere, RowKeeps DEF MendInv, RowTyped, ViewsOld

\* The resolving of a queue, which follows a pass's flush too.
LEMMA ResolvingMends ==
  ASSUME MendInv, NEW p \in Procs, Resolve(p) \/ Drop(p) \/ Tell(p)
  PROVE  MendInv'
<1>1. UNCHANGED <<archived, filings, ranFiled, seen, pane, status>>
  BY DEF Resolve, Drop, Tell, row, history, filing
<1>2. PICK steps : /\ Go(p, steps)
                   /\ \/ steps = (IF hibernated THEN <<>> ELSE <<"drop">>) \o After(p)
                      \/ steps = <<"tell">> \o After(p)
                      \/ steps = <<>> \o After(p)
                      \/ steps = After(p)
                      \/ steps = todo[p]
  BY DEF Resolve, Drop, Tell
<1>3. At(p, "resolve") \/ At(p, "drop") \/ At(p, "tell")
  BY DEF Resolve, Drop, Tell
<1>4. ASSUME p \in Managers PROVE steps \in PassShapes /\ todo[p] \notin Scanned
  <2>1. todo[p] \in PassShapes
    BY <1>4 DEF MendInv, ViewsOld
  <2>2. After(p) = <<>> /\ todo[p] \notin Scanned
    BY <1>3, <1>4, <2>1, ManagerAt
  <2>3. /\ <<"drop">> \o <<>> = <<"drop">> /\ <<"tell">> \o <<>> = <<"tell">>
        /\ <<>> \o <<>> = <<>>
    BY ConcatEmptySeq
  <2>4. {<<>>, <<"drop">>, <<"tell">>} \subseteq PassShapes
    BY DEF PassShapes
  <2>5. \/ steps = <<>> \/ steps = <<"drop">> \/ steps = <<"tell">> \/ steps = todo[p]
    BY <1>2, <2>2, <2>3
  <2> QED
    BY <2>1, <2>2, <2>4, <2>5
<1>5. \A m \in Managers : todo[m] \in PassShapes
  BY DEF MendInv, ViewsOld
<1>6. /\ DOMAIN todo' = Procs
      /\ \A m \in Managers : /\ todo'[m] \in PassShapes
                             /\ todo'[m] = todo[m] \/ todo[m] \notin Scanned
  BY <1>2, <1>4, <1>5, GoSets DEF MendInv, RowTyped, Procs
<1> QED
  BY <1>1, <1>6, RowKeeps DEF MendInv, RowTyped

(* A pass. *)

LEMMA BeginPassMends ==
  ASSUME MendInv, NEW m \in Managers, BeginPass(m)
  PROVE  MendInv'
<1>1. Go(m, PassSteps) /\ Idle(m)
      /\ UNCHANGED <<archived, filings, ranFiled, seen, pane, status>>
  BY DEF BeginPass, row, history, filing
<1>2. PassSteps \in PassShapes
  BY DEF PassSteps, PassShapes
<1>3. todo[m] \notin Scanned
  BY <1>1, ManagerAt DEF MendInv, ViewsOld
<1>4. /\ DOMAIN todo' = Procs
      /\ \A q \in Managers : /\ todo'[q] \in PassShapes
                             /\ todo'[q] = todo[q] \/ todo[q] \notin Scanned
  BY <1>1, <1>2, <1>3, GoSets DEF MendInv, RowTyped, ViewsOld, Procs
<1> QED
  BY <1>1, <1>4, RowKeeps DEF MendInv, RowTyped

\* A manager that moves on in its pass, having read something or nothing, with the
\* row's filing and pane left alone.
LEMMA ReadingKeeps ==
  ASSUME MendInv, NEW m \in Managers, NEW view \in Views,
         NEW steps \in PassShapes, Go(m, steps),
         seen' = [seen EXCEPT ![m] = view],
         UNCHANGED <<archived, filings, ranFiled, pane>>, status' \in Statuses,
         view.pane => steps \in Scanned,
         view.filing <= filings,
         view.filed /\ view.pane /\ view.filing = filings /\ archived => ranFiled
  PROVE  MendInv'
<1>1. /\ DOMAIN todo' = Procs /\ todo'[m] = steps
      /\ \A q \in Managers \ {m} : todo'[q] = todo[q]
  BY GoSets DEF MendInv, RowTyped, Procs
<1>2. \A q \in Managers : seen'[q] = IF q = m THEN view ELSE seen[q]
  BY DEF MendInv, RowTyped
<1>3. RowTyped'
  BY <1>1 DEF MendInv, RowTyped
<1>4. ViewsOld'
  BY <1>1, <1>2 DEF MendInv, ViewsOld
<1>5. FiledRan'
  BY <1>2 DEF MendInv, FiledRan
<1> QED
  BY <1>3, <1>4, <1>5 DEF MendInv

LEMMA ReadFiledMends ==
  ASSUME MendInv, NEW m \in Managers, ReadFiled(m)
  PROVE  MendInv'
<1> DEFINE view == [seen[m] EXCEPT !.filed = archived, !.filing = filings]
<1>1. /\ Go(m, After(m)) /\ At(m, "filed")
      /\ seen' = [seen EXCEPT ![m] = view]
      /\ UNCHANGED <<archived, filings, ranFiled, pane, status>>
  BY DEF ReadFiled, row, history, filing, MendInv, RowTyped, Views
<1>2. /\ seen[m] \in Views /\ ~seen[m].pane
      /\ After(m) = <<"list", "scan", "mend", "flush">>
  BY <1>1, ManagerAt DEF MendInv, RowTyped, ViewsOld
<1>3. view \in Views /\ ~view.pane /\ view.filing = filings
  BY <1>2 DEF Views, MendInv, RowTyped
<1>4. After(m) \in PassShapes
  BY <1>2 DEF PassShapes
<1> HIDE DEF view
<1>5. view.filing <= filings /\ status' \in Statuses
  BY <1>1, <1>3 DEF MendInv, RowTyped
<1> QED
  BY <1>1, <1>3, <1>4, <1>5, ReadingKeeps

LEMMA ListMends ==
  ASSUME MendInv, NEW m \in Managers, ListSessions(m)
  PROVE  MendInv'
<1> DEFINE view == [seen[m] EXCEPT !.archived = archived, !.status = status]
<1>1. /\ Go(m, After(m)) /\ At(m, "list")
      /\ seen' = [seen EXCEPT ![m] = view]
      /\ UNCHANGED <<archived, filings, ranFiled, pane, status>>
  BY DEF ListSessions, row, history, filing, MendInv, RowTyped, Views
<1>2. /\ seen[m] \in Views /\ todo[m] \in PassShapes
      /\ seen[m].pane => todo[m] \in Scanned
  BY DEF MendInv, RowTyped, ViewsOld
<1>3. /\ view \in Views /\ view.pane = seen[m].pane
      /\ view.filed = seen[m].filed /\ view.filing = seen[m].filing
  BY <1>2 DEF Views, MendInv, RowTyped
<1>4. After(m) \in PassShapes /\ (seen[m].pane => After(m) \in Scanned)
  BY <1>1, <1>2, ManagerAt DEF PassShapes, Scanned
<1> HIDE DEF view
<1> QED
  BY <1>1, <1>3, <1>4, ReadingKeeps DEF MendInv, RowTyped, ViewsOld, FiledRan

\* The panes are read after the filing: what is up now under that filing has run.
LEMMA ScanMends ==
  ASSUME MendInv, NEW m \in Managers, ScanPanes(m)
  PROVE  MendInv'
<1> DEFINE view == [seen[m] EXCEPT !.pane = pane]
<1>1. /\ Go(m, After(m)) /\ At(m, "scan")
      /\ seen' = [seen EXCEPT ![m] = view]
      /\ UNCHANGED <<archived, filings, ranFiled, pane, status>>
  BY DEF ScanPanes, row, history, filing, MendInv, RowTyped, Views
<1>2. /\ seen[m] \in Views /\ todo[m] \in PassShapes
  BY DEF MendInv, RowTyped, ViewsOld
<1>3. /\ view \in Views /\ view.pane = pane
      /\ view.filed = seen[m].filed /\ view.filing = seen[m].filing
  BY <1>2 DEF Views, MendInv, RowTyped
<1>4. After(m) \in PassShapes /\ After(m) \in Scanned
  BY <1>1, <1>2, ManagerAt DEF PassShapes, Scanned
<1> HIDE DEF view
<1> QED
  BY <1>1, <1>3, <1>4, ReadingKeeps DEF MendInv, RowTyped, ViewsOld, FiledRan

LEMMA RestoreLiveMends ==
  ASSUME MendInv, NEW m \in Managers, RestoreLiveArchived(m)
  PROVE  MendInv'
<1>1. /\ Go(m, <<"list">> \o After(m)) /\ At(m, "mend") /\ archived' = FALSE
      /\ UNCHANGED <<filings, ranFiled, pane, status, seen>>
  BY DEF RestoreLiveArchived, history, filing
<1>2. After(m) = <<"flush">>
  BY <1>1, ManagerAt DEF MendInv, ViewsOld
<1>3. <<"list">> \o After(m) \in PassShapes \cap Scanned
  BY <1>2, ListAgain DEF PassShapes, Scanned
<1>4. /\ DOMAIN todo' = Procs
      /\ \A q \in Managers : /\ todo'[q] \in PassShapes
                             /\ todo'[q] = todo[q] \/ todo'[q] \in Scanned
  BY <1>1, <1>3, GoSets DEF MendInv, RowTyped, ViewsOld, Procs
<1>5. RowTyped'
  BY <1>1, <1>4 DEF MendInv, RowTyped
<1>6. ViewsOld'
  BY <1>1, <1>4 DEF MendInv, ViewsOld
<1>7. FiledRan'
  BY <1>1 DEF MendInv, FiledRan
<1> QED
  BY <1>5, <1>6, <1>7 DEF MendInv

LEMMA NothingToMendMends ==
  ASSUME MendInv, NEW m \in Managers, NothingToMend(m)
  PROVE  MendInv'
<1>1. /\ Go(m, After(m)) /\ At(m, "mend")
      /\ UNCHANGED <<archived, filings, ranFiled, pane, status, seen>>
  BY DEF NothingToMend, row, history, filing
<1>2. After(m) = <<"flush">>
  BY <1>1, ManagerAt DEF MendInv, ViewsOld
<1>3. seen[m] \in Views /\ seen' = [seen EXCEPT ![m] = seen[m]]
  BY <1>1 DEF MendInv, RowTyped
<1>4. After(m) \in PassShapes /\ After(m) \in Scanned
  BY <1>2 DEF PassShapes, Scanned
<1> QED
  BY <1>1, <1>3, <1>4, ReadingKeeps DEF MendInv, RowTyped, ViewsOld, FiledRan

LEMMA FlushMends ==
  ASSUME MendInv, NEW m \in Managers, Flush(m) \/ FlushThenFail(m) \/ NothingToFlush(m)
  PROVE  MendInv'
<1>1. PICK steps : /\ Go(m, steps) /\ steps \in {<<"resolve">>, <<>>}
                   /\ seen' = [seen EXCEPT ![m] = Nothing]
  BY DEF Flush, FlushThenFail, NothingToFlush, EndPass
<1>2. UNCHANGED <<archived, filings, ranFiled, pane>>
  BY DEF Flush, FlushThenFail, NothingToFlush, row, history, filing
<1>3. status' \in Statuses
  BY DEF Flush, FlushThenFail, NothingToFlush, Derived, Statuses, row, MendInv, RowTyped
<1>4. Nothing \in Views /\ ~Nothing.pane /\ Nothing.filing = 0
  BY DEF Nothing, Views, Statuses
<1>5. steps \in PassShapes
  BY <1>1 DEF PassShapes
<1>6. Nothing.filing <= filings /\ ~Nothing.filed
  BY <1>4 DEF MendInv, RowTyped, Nothing
<1> QED
  BY <1>1, <1>2, <1>3, <1>4, <1>5, <1>6, ReadingKeeps

LEMMA CutShortMends ==
  ASSUME MendInv, NEW p \in Procs, CutShort(p)
  PROVE  MendInv'
<1>1. /\ Go(p, <<>>)
      /\ seen' = [m \in Managers |-> IF m = p THEN Nothing ELSE seen[m]]
      /\ UNCHANGED <<archived, filings, ranFiled, pane, status>>
  BY DEF CutShort, row, history, filing
<1>2. Nothing \in Views /\ ~Nothing.pane /\ Nothing.filing = 0
  BY DEF Nothing, Views, Statuses
<1>3. <<>> \in PassShapes
  BY DEF PassShapes
<1>4. /\ DOMAIN todo' = Procs
      /\ \A q \in Managers : todo'[q] = IF q = p THEN <<>> ELSE todo[q]
  BY <1>1, GoSets DEF MendInv, RowTyped, Procs
<1>5. RowTyped'
  BY <1>1, <1>2, <1>4 DEF MendInv, RowTyped
<1>6. ViewsOld'
  BY <1>1, <1>2, <1>3, <1>4 DEF MendInv, RowTyped, ViewsOld
<1>7. FiledRan'
  BY <1>1, <1>2 DEF MendInv, FiledRan
<1> QED
  BY <1>5, <1>6, <1>7 DEF MendInv

LEMMA MendNext == MendInv /\ [Next]_vars => MendInv'
<1> SUFFICES ASSUME MendInv, [Next]_vars PROVE MendInv'
  OBVIOUS
<1>1. ASSUME NEW c \in Callers, Begin(c) \/ WriteBack(c) \/ Look(c) \/ Post(c)
      PROVE  MendInv'
  BY <1>1, BeginMends, CallerMends
<1>2. ASSUME NEW s \in Settlers, Settle(s) \/ Wake(s) \/ WakeFails(s) PROVE MendInv'
  BY <1>2, SettlerMends
<1>3. ASSUME NEW m \in Managers, BeginPass(m) PROVE MendInv'
  BY <1>3, BeginPassMends
<1>4. ASSUME NEW m \in Managers, Pass(m) PROVE MendInv'
  BY <1>4, ReadFiledMends, ListMends, ScanMends, RestoreLiveMends,
     NothingToMendMends, FlushMends DEF Pass
<1>5. ASSUME NEW m \in Managers, Deliver(m) PROVE MendInv'
  BY <1>5 DEF Deliver, MendInv, RowTyped, ViewsOld, FiledRan, row, history, filing
<1>6. ASSUME NEW p \in Procs, Step(p) PROVE MendInv'
  BY <1>6, QuietStepMends, ResolvingMends, FileMends, RestoreMends, CreateMends DEF Step
<1>7. ASSUME NEW p \in Procs, CutShort(p) PROVE MendInv'
  BY <1>7, CutShortMends
<1>8. CASE AgentExits
  BY <1>8, RowKeeps
  DEF AgentExits, MendInv, RowTyped, ViewsOld, row, history, filing
<1>9. CASE UNCHANGED vars
  BY <1>9 DEF vars, MendInv, RowTyped, ViewsOld, FiledRan, row, history, filing
<1> QED
  BY <1>1, <1>2, <1>3, <1>4, <1>5, <1>6, <1>7, <1>8, <1>9 DEF Next

\* A pass that finds an archived row's pane up never undoes an archive that has
\* only just ended it (poller.go, ArchivedIDs before ScanPanes, and park.go's end
\* of the pane before the row is filed), whatever else moves meanwhile.
THEOREM NoArchiveUndone == Spec => RestoredOnlyIfRun
<1>1. ASSUME MendInv, [Next]_vars, NEW m \in Managers, Mended(m), seen[m].filing = filings
      PROVE  ranFiled
  <2>1. archived /\ archived' # archived
    BY <1>1 DEF Mended
  <2>2. CASE \E p \in Procs : RestoreRow(p)
    BY <1>1, <2>2, Elsewhere DEF RestoreRow, Mended
  <2>3. CASE \E q \in Managers : RestoreLiveArchived(q)
    <3>1. PICK q \in Managers : RestoreLiveArchived(q)
      BY <2>3
    <3>2. q = m
      BY <1>1, <3>1, GoSets
      DEF RestoreLiveArchived, Mended, MendInv, RowTyped, Procs
    <3>3. seen[m].filed /\ seen[m].pane
      BY <3>1, <3>2 DEF RestoreLiveArchived, Mends
    <3> QED
      BY <1>1, <2>1, <3>3 DEF MendInv, FiledRan
  <2>4. (\E p \in Procs : RestoreRow(p) \/ File(p)) \/ \E q \in Managers : RestoreLiveArchived(q)
    <3>1. ASSUME NEW c \in Callers, Begin(c) \/ WriteBack(c) \/ Look(c) \/ Post(c)
          PROVE  FALSE
      BY <2>1, <3>1
      DEF Begin, Call, Stop, Restart, Revive, Archive, Restore, Hibernate, SendWakes,
          SendRestores, Send, Relay, NeighbourCommand, WriteBack, Look, Post, row
    <3>2. ASSUME NEW s \in Settlers, Settle(s) \/ Wake(s) \/ WakeFails(s)
          PROVE  FALSE
      BY <2>1, <3>2 DEF Settle, Wake, WakeFails, row
    <3>3. ASSUME NEW q \in Managers, BeginPass(q) \/ Pass(q) \/ Deliver(q),
                 ~RestoreLiveArchived(q)
          PROVE  FALSE
      BY <2>1, <3>3
      DEF BeginPass, Pass, ReadFiled, ListSessions, ScanPanes, NothingToMend, Flush,
          FlushThenFail, NothingToFlush, Deliver, row
    <3>4. ASSUME NEW p \in Procs, Step(p) \/ CutShort(p), ~RestoreRow(p), ~File(p)
          PROVE  FALSE
      BY <2>1, <3>4
      DEF Step, Dead, Live, Mark, Unmark, Kill, Doze, StopFails, Pace, Create,
          CreateFails, Resolve, Drop, Tell, CutShort, row
    <3>5. ~AgentExits /\ ~UNCHANGED vars
      BY <2>1 DEF AgentExits, vars, row
    <3> QED
      BY <1>1, <3>1, <3>2, <3>3, <3>4, <3>5 DEF Next
  <2>5. ASSUME NEW p \in Procs, File(p) PROVE FALSE
    BY <1>1, <2>5 DEF File, Mended
  <2> QED
    BY <2>2, <2>3, <2>4, <2>5
<1>2. MendInv /\ [Next]_vars =>
        [\A m \in Managers : Mended(m) /\ seen[m].filing = filings => ranFiled]_vars
  BY <1>1
<1> QED
  BY <1>2, MendInit, MendNext, PTL DEF Spec, RestoredOnlyIfRun

-----------------------------------------------------------------------------
(* Types; how often a session can be filed. *)

\* What a process may still have to do: something in which nothing is filed, or
\* the rest of an archive, whose last step files the row.
Plain == Seq(Steps \ {"file"})
Filings ==
  { <<"kill", "dead", "resolve", "unmark", "file">>,
    <<"dead", "resolve", "unmark", "file">>, <<"resolve", "unmark", "file">>,
    <<"drop", "unmark", "file">>, <<"tell", "unmark", "file">>,
    <<"unmark", "file">>, <<"file">> }
\* Each archive that has not filed the row yet is a call made.
Filers == {p \in Procs : todo[p] \in Filings}
CallInv ==
  /\ hibernated \in BOOLEAN /\ copy \in [Callers -> BOOLEAN] /\ asleep \in BOOLEAN
  /\ calls \in 0..MaxCalls /\ exits \in 0..MaxExits /\ faults \in 0..MaxFaults
  /\ todo \in [Procs -> Plain \cup Filings]
  /\ filings \in Nat
  /\ IsFiniteSet(Filers) /\ filings + Cardinality(Filers) <= calls

LEMMA PlainProperties ==
  /\ \A t \in Plain : t # <<>> => Tail(t) \in Plain /\ Head(t) # "file"
  /\ \A t, u \in Plain : t \o u \in Plain
  /\ <<>> \in Plain /\ Plain \subseteq Seq(Steps)
<1>1. \A t \in Plain : t # <<>> => Tail(t) \in Plain /\ Head(t) # "file"
  BY HeadTailProperties DEF Plain
<1>2. \A t, u \in Plain : t \o u \in Plain
  BY ConcatProperties DEF Plain
<1>3. <<>> \in Plain
  BY EmptySeq DEF Plain
<1>4. Plain \subseteq Seq(Steps)
  BY SeqMonotonic DEF Plain
<1> QED
  BY <1>1, <1>2, <1>3, <1>4

LEMMA FilingProperties ==
  ASSUME NEW t \in Filings
  PROVE  /\ t \in Seq(Steps) /\ t \notin Plain /\ t # <<>>
         /\ IF Head(t) = "file" THEN Tail(t) = <<>> ELSE Tail(t) \in Filings
         /\ Head(t) \in {"resolve", "drop", "tell"} => Tail(t) = <<"unmark", "file">>
         /\ Head(t) \notin {"filed", "list", "scan", "mend", "flush", "pace", "create",
                            "look", "post", "wake", "writeback"}
<1>1. ASSUME NEW i \in 1..Len(t), t[i] = "file" PROVE t \notin Plain
  BY <1>1, ElementOfSeq DEF Plain
<1>2. CASE t = <<"kill", "dead", "resolve", "unmark", "file">>
  <2>1. t[5] = "file" /\ 5 \in 1..Len(t)
    BY <1>2
  <2> QED
    BY <1>1, <1>2, <2>1 DEF Filings, Steps
<1>3. CASE t = <<"dead", "resolve", "unmark", "file">>
  <2>1. t[4] = "file" /\ 4 \in 1..Len(t)
    BY <1>3
  <2> QED
    BY <1>1, <1>3, <2>1 DEF Filings, Steps
<1>4a. CASE t = <<"resolve", "unmark", "file">>
  <2>1. t[3] = "file" /\ 3 \in 1..Len(t)
    BY <1>4a
  <2> QED
    BY <1>1, <1>4a, <2>1 DEF Filings, Steps
<1>4b. CASE t = <<"drop", "unmark", "file">>
  <2>1. t[3] = "file" /\ 3 \in 1..Len(t)
    BY <1>4b
  <2> QED
    BY <1>1, <1>4b, <2>1 DEF Filings, Steps
<1>4c. CASE t = <<"tell", "unmark", "file">>
  <2>1. t[3] = "file" /\ 3 \in 1..Len(t)
    BY <1>4c
  <2> QED
    BY <1>1, <1>4c, <2>1 DEF Filings, Steps
<1>5. CASE t = <<"unmark", "file">>
  <2>1. t[2] = "file" /\ 2 \in 1..Len(t)
    BY <1>5
  <2> QED
    BY <1>1, <1>5, <2>1 DEF Filings, Steps
<1>6. CASE t = <<"file">>
  <2>1. t[1] = "file" /\ 1 \in 1..Len(t)
    BY <1>6
  <2> QED
    BY <1>1, <1>6, <2>1 DEF Filings, Steps
<1> QED
  BY <1>2, <1>3, <1>4a, <1>4b, <1>4c, <1>5, <1>6 DEF Filings

\* A series is put together from two: element by element.
LEMMA ConcatIs ==
  ASSUME NEW a \in Seq(Steps), NEW b \in Seq(Steps), NEW c \in Seq(Steps),
         Len(c) = Len(a) + Len(b),
         \A i \in 1..Len(c) : c[i] = IF i <= Len(a) THEN a[i] ELSE b[i - Len(a)]
  PROVE  a \o b = c
<1>1. /\ a \o b \in Seq(Steps) /\ Len(a \o b) = Len(a) + Len(b)
      /\ \A i \in 1..Len(a) + Len(b) : (a \o b)[i] = IF i <= Len(a) THEN a[i] ELSE b[i - Len(a)]
  BY ConcatProperties
<1> QED
  BY <1>1, SeqEqual

\* What the archive's steps, and a resolve within them, are put together from.
LEMMA BeforeUnmark ==
  /\ \A step \in Steps : <<step>> \o <<"unmark", "file">> = <<step, "unmark", "file">>
  /\ <<>> \o <<"unmark", "file">> = <<"unmark", "file">>
  /\ <<"kill", "dead", "resolve">> \o <<"unmark", "file">>
       = <<"kill", "dead", "resolve", "unmark", "file">>
<1>1. ASSUME NEW a, NEW step \in Steps, a = <<step>>, NEW b, b = <<"unmark", "file">>,
             NEW c, c = <<step, "unmark", "file">>
      PROVE  a \o b = c
  <2>1. a \in Seq(Steps) /\ Len(a) = 1 /\ a[1] = step
    BY <1>1
  <2>2. b \in Seq(Steps) /\ Len(b) = 2 /\ b[1] = "unmark" /\ b[2] = "file"
    BY <1>1 DEF Steps
  <2>3. c \in Seq(Steps) /\ Len(c) = 3 /\ c[1] = step /\ c[2] = "unmark" /\ c[3] = "file"
    BY <1>1 DEF Steps
  <2>4. \A i \in 1..Len(c) : c[i] = IF i <= Len(a) THEN a[i] ELSE b[i - Len(a)]
    BY <2>1, <2>2, <2>3
  <2>5. Len(c) = Len(a) + Len(b)
    BY <2>1, <2>2, <2>3
  <2>6. a \in Seq(Steps) /\ b \in Seq(Steps) /\ c \in Seq(Steps)
    BY <2>1, <2>2, <2>3
  <2> QED
    BY <2>4, <2>5, <2>6, ConcatIs, Zenon
<1>2. <<>> \o <<"unmark", "file">> = <<"unmark", "file">>
  <2>1. <<"unmark", "file">> \in Seq(Steps)
    BY DEF Steps
  <2> QED
    BY <2>1, ConcatEmptySeq
<1>3. ASSUME NEW a, a = <<"kill", "dead", "resolve">>, NEW b, b = <<"unmark", "file">>,
             NEW c, c = <<"kill", "dead", "resolve", "unmark", "file">>
      PROVE  a \o b = c
  <2>1. /\ a \in Seq(Steps) /\ Len(a) = 3
        /\ a[1] = "kill" /\ a[2] = "dead" /\ a[3] = "resolve"
    BY <1>3 DEF Steps
  <2>2. b \in Seq(Steps) /\ Len(b) = 2 /\ b[1] = "unmark" /\ b[2] = "file"
    BY <1>3 DEF Steps
  <2>3. /\ c \in Seq(Steps) /\ Len(c) = 5 /\ c[1] = "kill" /\ c[2] = "dead"
        /\ c[3] = "resolve" /\ c[4] = "unmark" /\ c[5] = "file"
    BY <1>3 DEF Steps
  <2>4. \A i \in 1..Len(c) : c[i] = IF i <= Len(a) THEN a[i] ELSE b[i - Len(a)]
    BY <2>1, <2>2, <2>3
  <2>5. Len(c) = Len(a) + Len(b)
    BY <2>1, <2>2, <2>3
  <2>6. a \in Seq(Steps) /\ b \in Seq(Steps) /\ c \in Seq(Steps)
    BY <2>1, <2>2, <2>3
  <2> QED
    BY <2>4, <2>5, <2>6, ConcatIs, Zenon
<1> QED
  BY <1>1, <1>2, <1>3

\* What process p may turn to: only an archive that is begun adds a filing.
Fits(p, steps) == steps \in Plain \/ (todo[p] \in Filings /\ steps \in Filings)

LEMMA NoFilingIsPlain ==
  ASSUME NEW t \in Plain PROVE t \notin Filings
  BY FilingProperties

LEMMA CallInit == Init => CallInv
<1> SUFFICES ASSUME Init PROVE CallInv
  OBVIOUS
<1>1. todo \in [Procs -> Plain] /\ \A p \in Procs : todo[p] \notin Filings
  BY PlainProperties, NoFilingIsPlain DEF Init
<1>2. Filers = {}
  BY <1>1 DEF Filers
<1>3. /\ calls \in 0..MaxCalls /\ exits \in 0..MaxExits /\ faults \in 0..MaxFaults
      /\ calls = 0 /\ filings = 0
  BY RecipientAssumption DEF Init
<1>4. hibernated \in BOOLEAN /\ copy \in [Callers -> BOOLEAN] /\ asleep \in BOOLEAN
  BY DEF Init
<1> QED
  BY <1>1, <1>2, <1>3, <1>4, FS_EmptySet DEF CallInv

\* The archives under way, when one process turns to something else.
LEMMA FilersMove ==
  ASSUME CallInv, NEW p \in Procs, NEW steps, Go(p, steps)
  PROVE  /\ IsFiniteSet(Filers') /\ Cardinality(Filers') \in Nat
         /\ Cardinality(Filers') <= Cardinality(Filers) + 1
         /\ Fits(p, steps) => Cardinality(Filers') <= Cardinality(Filers)
         /\ todo[p] \in Filings /\ steps \notin Filings
              => Cardinality(Filers') <= Cardinality(Filers) - 1
<1>1. \A q \in Procs : todo'[q] = IF q = p THEN steps ELSE todo[q]
  BY DEF Go, CallInv
<1>2. /\ Filers' \subseteq Filers \cup {p}
      /\ Fits(p, steps) => Filers' \subseteq Filers
      /\ todo[p] \in Filings /\ steps \notin Filings => Filers' \subseteq Filers \ {p}
      /\ todo[p] \in Filings => p \in Filers
  BY <1>1, NoFilingIsPlain DEF Filers, Fits
<1>3. /\ IsFiniteSet(Filers) /\ Cardinality(Filers) \in Nat
      /\ IsFiniteSet(Filers \cup {p}) /\ Cardinality(Filers \cup {p}) \in Nat
      /\ Cardinality(Filers \cup {p}) <= Cardinality(Filers) + 1
      /\ IsFiniteSet(Filers \ {p}) /\ Cardinality(Filers \ {p}) \in Nat
      /\ p \in Filers => Cardinality(Filers \ {p}) = Cardinality(Filers) - 1
  <2>1. IsFiniteSet(Filers) /\ Cardinality(Filers) \in Nat
    BY FS_CardinalityType DEF CallInv
  <2>2. /\ IsFiniteSet(Filers \cup {p})
        /\ Cardinality(Filers \cup {p})
             = IF p \in Filers THEN Cardinality(Filers) ELSE Cardinality(Filers) + 1
    BY <2>1, FS_AddElement
  <2>3. /\ IsFiniteSet(Filers \ {p})
        /\ Cardinality(Filers \ {p})
             = IF p \in Filers THEN Cardinality(Filers) - 1 ELSE Cardinality(Filers)
    BY <2>1, FS_RemoveElement
  <2>4. Cardinality(Filers \ {p}) \in Nat
    BY <2>3, FS_CardinalityType
  <2> QED
    BY <2>1, <2>2, <2>3, <2>4
<1>4. IsFiniteSet(Filers') /\ Cardinality(Filers') <= Cardinality(Filers \cup {p})
  BY <1>2, <1>3, FS_Subset
<1>5. Cardinality(Filers') \in Nat
  BY <1>4, FS_CardinalityType
<1>6. Fits(p, steps) => Cardinality(Filers') <= Cardinality(Filers)
  BY <1>2, <1>3, FS_Subset
<1>7. todo[p] \in Filings /\ steps \notin Filings
        => Cardinality(Filers') <= Cardinality(Filers \ {p})
  BY <1>2, <1>3, FS_Subset
<1> QED
  BY <1>2, <1>3, <1>4, <1>5, <1>6, <1>7

\* A step that begins no archive and files nothing.
LEMMA CallMoves ==
  ASSUME CallInv, NEW p \in Procs, NEW steps, Go(p, steps), Fits(p, steps),
         filings' = filings, calls' \in calls..MaxCalls,
         exits' \in 0..MaxExits, faults' \in 0..MaxFaults,
         hibernated' \in BOOLEAN, copy' \in [Callers -> BOOLEAN], asleep' \in BOOLEAN
  PROVE  CallInv'
<1>1. todo' \in [Procs -> Plain \cup Filings]
  BY DEF Go, Fits, CallInv
<1>2. /\ IsFiniteSet(Filers') /\ Cardinality(Filers') \in Nat
      /\ Cardinality(Filers') <= Cardinality(Filers)
  BY FilersMove
<1>3. Cardinality(Filers) \in Nat
  BY FS_CardinalityType DEF CallInv
<1>4. filings' + Cardinality(Filers') <= calls' /\ calls' \in 0..MaxCalls /\ filings' \in Nat
  BY <1>2, <1>3, RecipientAssumption DEF CallInv
<1> QED
  BY <1>1, <1>2, <1>4 DEF CallInv

LEMMA AfterFits ==
  ASSUME CallInv, NEW p \in Procs, NEW step, At(p, step), step # "file"
  PROVE  Fits(p, After(p))
<1>1. todo[p] \in Plain \cup Filings /\ todo[p] # <<>> /\ Head(todo[p]) # "file"
  BY DEF CallInv, At, Idle
<1>2. CASE todo[p] \in Plain
  BY <1>1, <1>2, PlainProperties DEF After, Fits
<1>3. CASE todo[p] \in Filings
  BY <1>1, <1>3, FilingProperties DEF After, Fits
<1> QED
  BY <1>1, <1>2, <1>3

\* The queue is looked at before a session is filed as well as alone.
LEMMA ResolvingFits ==
  ASSUME CallInv, NEW p \in Procs,
         NEW step \in {"resolve", "drop", "tell"}, At(p, step),
         NEW more \in {"drop", "tell"}
  PROVE  Fits(p, <<more>> \o After(p)) /\ Fits(p, <<>> \o After(p))
<1>1. todo[p] \in Plain \cup Filings /\ todo[p] # <<>> /\ Head(todo[p]) = step
  BY DEF CallInv, At, Idle
<1>2. <<more>> \in Plain /\ <<>> \in Plain
  BY PlainProperties DEF Plain, Steps
<1>3. CASE todo[p] \in Plain
  <2>1. After(p) \in Plain
    BY <1>1, <1>3, PlainProperties DEF After
  <2> QED
    BY <1>2, <2>1, PlainProperties DEF Fits
<1>4. CASE todo[p] \in Filings
  <2>1. After(p) = <<"unmark", "file">>
    BY <1>1, <1>4, FilingProperties DEF After
  <2>2. /\ <<more>> \o <<"unmark", "file">> \in Filings
        /\ <<>> \o <<"unmark", "file">> \in Filings
    <3>1. more \in Steps
      BY DEF Steps
    <3>2. <<more, "unmark", "file">> \in Filings /\ <<"unmark", "file">> \in Filings
      BY DEF Filings
    <3> QED
      BY <3>1, <3>2, BeforeUnmark
  <2> QED
    BY <1>4, <2>1, <2>2 DEF Fits
<1> QED
  BY <1>1, <1>3, <1>4

LEMMA SeriesFit ==
  /\ StopSteps \in Plain /\ RestartSteps \in Plain /\ HibernateSteps \in Plain
  /\ Relaunch \in Plain /\ <<"pace">> \o Relaunch \in Plain
  /\ PassSteps \in Plain /\ ArchiveSteps \in Filings
<1>1. StopSteps \in Plain /\ HibernateSteps \in Plain /\ PassSteps \in Plain
  BY PlainProperties DEF StopSteps, HibernateSteps, PassSteps, Plain, Steps
<1>2. Relaunch \in Plain
  <2>1. /\ <<"create">> \in Plain /\ <<"restore">> \in Plain
        /\ <<"live", "unmark">> \in Plain
    BY DEF Plain, Steps
  <2>2. (IF archived THEN <<"restore">> ELSE <<>>) \in Plain
    BY <2>1, PlainProperties
  <2>3. <<"create">> \o (IF archived THEN <<"restore">> ELSE <<>>) \in Plain
    BY <2>1, <2>2, PlainProperties
  <2> QED
    BY <2>1, <2>3, PlainProperties DEF Relaunch
<1>3. <<"pace", "kill", "dead">> \in Plain /\ <<"pace">> \in Plain
  BY DEF Plain, Steps
<1>4. RestartSteps \in Plain /\ <<"pace">> \o Relaunch \in Plain
  BY <1>2, <1>3, PlainProperties DEF RestartSteps
<1>5. ArchiveSteps \in Filings
  BY BeforeUnmark DEF ArchiveSteps, Filings
<1> QED
  BY <1>1, <1>2, <1>4, <1>5

LEMMA BeginCalls ==
  ASSUME CallInv, NEW c \in Callers, Begin(c) PROVE CallInv'
<1>1. c \in Procs
  BY DEF Procs
<1>2. ASSUME NEW command, NEW steps \in Plain, Call(c, command, steps), 
             copy' \in [Callers -> BOOLEAN]
      PROVE  CallInv'
  <2>1. /\ Go(c, steps) /\ filings' = filings /\ calls' \in calls..MaxCalls
        /\ exits' = exits /\ faults' = faults /\ hibernated' = hibernated
        /\ asleep' = asleep
    BY <1>2, RecipientAssumption DEF Call, CallInv, history, sleep, filing
  <2>2. Fits(c, steps)
    BY <1>2 DEF Fits
  <2>3. /\ exits' \in 0..MaxExits /\ faults' \in 0..MaxFaults
        /\ hibernated' \in BOOLEAN /\ asleep' \in BOOLEAN
    BY <2>1 DEF CallInv
  <2> QED
    BY <1>1, <1>2, <2>1, <2>2, <2>3, CallMoves
<1>3. copy \in [Callers -> BOOLEAN] /\ hibernated \in BOOLEAN
  BY DEF CallInv
<1>4. CASE Archive(c)
  <2>1. /\ Go(c, ArchiveSteps) /\ filings' = filings /\ calls' = calls + 1
        /\ calls < MaxCalls /\ exits' = exits /\ faults' = faults
        /\ hibernated' = hibernated /\ asleep' = asleep /\ copy' = copy
    BY <1>4 DEF Archive, Call, history, sleep, filing
  <2>2. todo' \in [Procs -> Plain \cup Filings]
    BY <2>1, SeriesFit DEF Go, CallInv
  <2>3. /\ IsFiniteSet(Filers') /\ Cardinality(Filers') \in Nat
        /\ Cardinality(Filers') <= Cardinality(Filers) + 1
    BY <1>1, <2>1, FilersMove
  <2>4. Cardinality(Filers) \in Nat
    BY FS_CardinalityType DEF CallInv
  <2>5. filings' + Cardinality(Filers') <= calls' /\ calls' \in 0..MaxCalls
    BY <2>1, <2>3, <2>4, RecipientAssumption DEF CallInv
  <2> QED
    BY <2>1, <2>2, <2>3, <2>5 DEF CallInv
<1>5. <<"restore">> \in Plain /\ <<"look", "post">> \in Plain /\ <<"post">> \in Plain
      /\ <<"writeback">> \in Plain /\ <<"unmark">> \in Plain /\ <<>> \in Plain
  BY PlainProperties DEF Plain, Steps
<1>6. ASSUME Stop(c) \/ Restart(c) \/ Revive(c) \/ Restore(c) \/ Hibernate(c) \/ Relay(c)
      PROVE  CallInv'
  BY <1>2, <1>3, <1>5, <1>6, SeriesFit
  DEF Stop, Restart, Revive, Restore, Hibernate, Relay
<1>7. CASE NeighbourCommand(c)
  <2>1. copy' \in [Callers -> BOOLEAN]
    BY <1>3, <1>7 DEF NeighbourCommand
  <2> QED
    BY <1>2, <1>5, <1>7, <2>1 DEF NeighbourCommand
<1>8. CASE Send(c)
  BY <1>2, <1>3, <1>5, <1>8 DEF Send
<1>9. CASE SendWakes(c)
  <2>1. (IF pane THEN <<"unmark">> ELSE <<"pace">> \o Relaunch) \in Plain
    BY <1>5, SeriesFit
  <2>2. (IF pane THEN <<"unmark">> ELSE <<"pace">> \o Relaunch) \o <<"look", "post">> \in Plain
    BY <1>5, <2>1, PlainProperties
  <2> QED
    BY <1>2, <1>3, <1>9, <2>2 DEF SendWakes
<1>10. CASE SendRestores(c)
  <2>1. /\ (IF pane THEN <<>> ELSE <<"pace">> \o Relaunch) \in Plain
        /\ (IF archived THEN <<"restore">> ELSE <<>>) \in Plain
    BY <1>5, SeriesFit
  <2>2. (IF pane THEN <<>> ELSE <<"pace">> \o Relaunch)
          \o (IF archived THEN <<"restore">> ELSE <<>>) \in Plain
    BY <2>1, PlainProperties
  <2>3. (IF pane THEN <<>> ELSE <<"pace">> \o Relaunch)
          \o (IF archived THEN <<"restore">> ELSE <<>>) \o <<"look", "post">> \in Plain
    BY <1>5, <2>2, PlainProperties
  <2> QED
    BY <1>2, <1>3, <1>10, <2>3 DEF SendRestores
<1> QED
  BY <1>4, <1>6, <1>7, <1>8, <1>9, <1>10 DEF Begin

\* A step that goes on with the process's series, or drops the rest of it.
LEMMA OnwardCalls ==
  ASSUME CallInv, NEW p \in Procs, NEW steps, Go(p, steps), Fits(p, steps),
         UNCHANGED <<filings, copy, calls, exits>>,
         hibernated' \in BOOLEAN, asleep' \in BOOLEAN, faults' \in 0..MaxFaults
  PROVE  CallInv'
<1>1. /\ calls' \in calls..MaxCalls /\ exits' \in 0..MaxExits
      /\ copy' \in [Callers -> BOOLEAN]
  BY RecipientAssumption DEF CallInv
<1> QED
  BY <1>1, CallMoves

LEMMA StepCalls ==
  ASSUME CallInv, NEW p \in Procs, Step(p), ~File(p) PROVE CallInv'
<1>1. <<>> \in Plain /\ <<"unmark">> \in Plain /\ GivenUp \in Plain
  BY PlainProperties DEF Plain, Steps, GivenUp
<1>2. hibernated \in BOOLEAN /\ asleep \in BOOLEAN /\ faults \in 0..MaxFaults
  BY DEF CallInv
<1>3. ASSUME Dead(p) \/ Live(p) \/ RestoreRow(p) \/ Kill(p) \/ Pace(p) PROVE CallInv'
  BY <1>2, <1>3, AfterFits, OnwardCalls
  DEF Dead, Live, RestoreRow, Kill, Pace, bounds, history, sleep, filing
<1>4. CASE Mark(p) \/ Unmark(p)
  <2>1. hibernated' \in BOOLEAN /\ asleep' \in BOOLEAN
    BY <1>2, <1>4, Zenon DEF Mark, Unmark
  <2> QED
    BY <1>2, <1>4, <2>1, AfterFits, OnwardCalls
    DEF Mark, Unmark, bounds, history, sleep, filing
<1>5. CASE Doze(p) \/ Create(p)
  <2>1. asleep' \in BOOLEAN /\ hibernated' = hibernated
    BY <1>2, <1>5, Zenon DEF Doze, Create
  <2> QED
    BY <1>2, <1>5, <2>1, AfterFits, OnwardCalls DEF Doze, Create, bounds, filing
<1>6. CASE CreateFails(p) \/ StopFails(p)
  <2>1. asleep' = asleep /\ hibernated' = hibernated
    BY <1>6 DEF CreateFails, StopFails, history, sleep
  <2>2. faults' \in 0..MaxFaults
    BY <1>2, <1>6, RecipientAssumption DEF CreateFails, StopFails
  <2> QED
    BY <1>1, <1>2, <1>6, <2>1, <2>2, OnwardCalls
    DEF CreateFails, StopFails, Fits, history, sleep, filing
<1>7. CASE Resolve(p)
  <2>1. Fits(p, (IF hibernated THEN <<>> ELSE <<"drop">>) \o After(p))
    BY <1>7, ResolvingFits DEF Resolve
  <2> QED
    BY <1>2, <1>7, <2>1, OnwardCalls DEF Resolve, bounds, history, sleep, filing
<1>8. CASE Drop(p)
  <2>1. Fits(p, <<>> \o After(p)) /\ Fits(p, <<"tell">> \o After(p))
    BY <1>8, ResolvingFits DEF Drop
  <2>2. Go(p, <<>> \o After(p)) \/ Go(p, <<"tell">> \o After(p))
    BY <1>8 DEF Drop
  <2> QED
    BY <1>2, <1>8, <2>1, <2>2, OnwardCalls DEF Drop, bounds, history, sleep, filing
<1>9. CASE Tell(p)
  <2>1. Fits(p, After(p)) /\ Fits(p, todo[p])
    BY <1>9, AfterFits DEF Tell, CallInv, Fits
  <2>2. Go(p, After(p)) \/ Go(p, todo[p])
    BY <1>9 DEF Tell
  <2> QED
    BY <1>2, <1>9, <2>1, <2>2, OnwardCalls DEF Tell, bounds, history, sleep, filing
<1> QED
  BY <1>3, <1>4, <1>5, <1>6, <1>7, <1>8, <1>9 DEF Step

\* The row is filed: one archive less under way, one more made.
LEMMA FileCalls ==
  ASSUME CallInv, NEW p \in Procs, File(p) PROVE CallInv'
<1>1. /\ todo[p] \in Filings /\ After(p) = <<>>
      /\ Go(p, After(p)) /\ filings' = filings + 1
      /\ UNCHANGED <<hibernated, copy, calls, exits, faults, asleep>>
  <2>1. todo[p] \in Plain \cup Filings /\ todo[p] # <<>> /\ Head(todo[p]) = "file"
    BY DEF File, At, Idle, CallInv
  <2> QED
    BY <2>1, PlainProperties, FilingProperties DEF File, bounds, sleep, After
<1>2. <<>> \in Plain /\ <<>> \notin Filings
  BY PlainProperties, NoFilingIsPlain
<1>3. todo' \in [Procs -> Plain \cup Filings]
  BY <1>1, <1>2 DEF Go, CallInv
<1>4. /\ IsFiniteSet(Filers') /\ Cardinality(Filers') \in Nat
      /\ Cardinality(Filers') <= Cardinality(Filers) - 1
  BY <1>1, <1>2, FilersMove
<1>5. Cardinality(Filers) \in Nat
  BY FS_CardinalityType DEF CallInv
<1>6. filings' \in Nat /\ filings' + Cardinality(Filers') <= calls'
  BY <1>1, <1>4, <1>5 DEF CallInv
<1> QED
  BY <1>1, <1>3, <1>4, <1>6 DEF CallInv

LEMMA CallNext == CallInv /\ [Next]_vars => CallInv'
<1> SUFFICES ASSUME CallInv, [Next]_vars PROVE CallInv'
  OBVIOUS
<1>1. /\ hibernated \in BOOLEAN /\ asleep \in BOOLEAN /\ faults \in 0..MaxFaults
      /\ copy \in [Callers -> BOOLEAN]
  BY DEF CallInv
<1>2. /\ <<>> \in Plain /\ <<"wake">> \in Plain /\ <<"unmark">> \in Plain
      /\ <<"list">> \in Plain /\ <<"resolve">> \in Plain
      /\ <<"forget">> \in Plain /\ GivenUp \in Plain
  BY PlainProperties DEF Plain, Steps, GivenUp
<1>3. Callers \subseteq Procs /\ Settlers \subseteq Procs /\ Managers \subseteq Procs
  BY DEF Procs
<1>4. ASSUME NEW c \in Callers, Begin(c) PROVE CallInv'
  BY <1>4, BeginCalls
<1>5. ASSUME NEW c \in Callers, WriteBack(c) PROVE CallInv'
  <2>1. hibernated' \in BOOLEAN /\ asleep' \in BOOLEAN
    BY <1>1, <1>5 DEF WriteBack
  <2> QED
    BY <1>1, <1>3, <1>5, <2>1, AfterFits, OnwardCalls
    DEF WriteBack, bounds, history, sleep, filing
<1>6. ASSUME NEW c \in Callers, Look(c) PROVE CallInv'
  <2>1. Fits(c, After(c)) /\ Fits(c, <<>>)
    BY <1>2, <1>3, <1>6, AfterFits DEF Look, Fits
  <2> QED
    BY <1>1, <1>3, <1>6, <2>1, OnwardCalls DEF Look, bounds, history, sleep, filing
<1>7. ASSUME NEW c \in Callers, Post(c) PROVE CallInv'
  BY <1>1, <1>3, <1>7, AfterFits, OnwardCalls DEF Post, bounds, history, sleep, filing
<1>8. ASSUME NEW s \in Settlers, Settle(s) \/ Wake(s) \/ WakeFails(s) PROVE CallInv'
  <2>1. /\ Fits(s, <<"wake">>) /\ Fits(s, <<"forget">>) /\ Fits(s, <<"unmark">>)
        /\ Fits(s, <<"pace">> \o Relaunch) /\ Fits(s, GivenUp)
    BY <1>2, SeriesFit DEF Fits
  <2>2. faults' \in 0..MaxFaults
    BY <1>1, <1>8, RecipientAssumption DEF Settle, Wake, WakeFails, bounds
  <2> QED
    BY <1>1, <1>3, <1>8, <2>1, <2>2, OnwardCalls
    DEF Settle, Wake, WakeFails, bounds, history, sleep, filing
<1>9. ASSUME NEW m \in Managers, BeginPass(m) \/ ReadFiled(m) \/ ListSessions(m) \/ ScanPanes(m)
                                 \/ NothingToMend(m)
      PROVE  CallInv'
  <2>1. Fits(m, PassSteps)
    BY SeriesFit DEF Fits
  <2> QED
    BY <1>1, <1>3, <1>9, <2>1, AfterFits, OnwardCalls
    DEF BeginPass, ReadFiled, ListSessions, ScanPanes, NothingToMend, bounds, history, sleep, filing
<1>10. ASSUME NEW m \in Managers, RestoreLiveArchived(m) PROVE CallInv'
  <2>1. todo[m] \in Plain /\ todo[m] # <<>>
    BY <1>3, <1>10, FilingProperties DEF RestoreLiveArchived, At, Idle, CallInv
  <2>2. Fits(m, <<"list">> \o After(m))
    BY <1>2, <2>1, PlainProperties DEF After, Fits
  <2> QED
    BY <1>1, <1>3, <1>10, <2>2, OnwardCalls
    DEF RestoreLiveArchived, bounds, history, sleep, filing
<1>11. ASSUME NEW m \in Managers, Flush(m) \/ FlushThenFail(m) \/ NothingToFlush(m)
       PROVE  CallInv'
  <2>1. Fits(m, <<>>) /\ Fits(m, <<"resolve">>)
    BY <1>2 DEF Fits
  <2>2. faults' \in 0..MaxFaults
    BY <1>1, <1>11, RecipientAssumption DEF Flush, FlushThenFail, NothingToFlush, bounds
  <2> QED
    BY <1>1, <1>3, <1>11, <2>1, <2>2, OnwardCalls
    DEF Flush, FlushThenFail, NothingToFlush, EndPass, bounds, history, sleep, filing
<1>12. ASSUME NEW p \in Procs, Step(p) PROVE CallInv'
  BY <1>12, StepCalls, FileCalls
<1>13. ASSUME NEW p \in Procs, CutShort(p) PROVE CallInv'
  <2>1. Fits(p, <<>>)
    BY <1>2 DEF Fits
  <2>2. faults' \in 0..MaxFaults
    BY <1>1, <1>13, RecipientAssumption DEF CutShort
  <2> QED
    BY <1>1, <1>13, <2>1, <2>2, OnwardCalls DEF CutShort, history, sleep, filing
<1>14. ASSUME UNCHANGED <<todo, filings, calls, hibernated, copy, faults, asleep>>,
              exits' \in 0..MaxExits
       PROVE  CallInv'
  BY <1>14 DEF CallInv, Filers
<1>15. CASE AgentExits \/ (\E m \in Managers : Deliver(m)) \/ UNCHANGED vars
  <2>1. /\ UNCHANGED <<todo, filings, calls, hibernated, copy, faults, asleep>>
        /\ exits' \in 0..MaxExits
    BY <1>15, RecipientAssumption
    DEF AgentExits, Deliver, CallInv, vars, bounds, history, sleep, filing
  <2> QED
    BY <1>14, <2>1
<1> QED
  BY <1>4, <1>5, <1>6, <1>7, <1>8, <1>9, <1>10, <1>11, <1>12, <1>13, <1>15
  DEF Next, Pass

-----------------------------------------------------------------------------
(* A session put to sleep. *)

\* In no series is the stop or the drop to come later, but in a hibernate's: a stop
\* has its mark before it, and a drop is put in front by the look at the mark.
Stills == {"doze", "drop"}
Calm == Seq(Steps \ Stills)
Orderly(t) ==
  t \in Seq(Steps) /\ (t = HibernateSteps \/ \A i \in 2..Len(t) : t[i] \notin Stills)
\* What hibernate is about to stop is in the set, unless its mark was taken off since;
\* what it stopped so, and nothing has launched, is in the set, and nobody is past the
\* look at it.
SleepInv ==
  /\ DOMAIN todo = Procs /\ forgotten \in BOOLEAN
  /\ \A p \in Procs : Orderly(todo[p])
  /\ \A p \in Procs : At(p, "doze") => hibernated \/ forgotten
  /\ asleep => hibernated /\ \A p \in Procs : ~At(p, "drop")

LEMMA CalmProperties ==
  /\ \A t, u \in Calm : t \o u \in Calm
  /\ <<>> \in Calm
  /\ \A t \in Calm : Orderly(t) /\ (t # <<>> => Head(t) \notin Stills)
  /\ \A t : Orderly(t) /\ t # <<>> /\ t # HibernateSteps => Tail(t) \in Calm
<1>1. \A t, u \in Calm : t \o u \in Calm
  BY ConcatProperties DEF Calm
<1>2. <<>> \in Calm
  BY EmptySeq DEF Calm
<1>3. ASSUME NEW t \in Calm PROVE Orderly(t) /\ (t # <<>> => Head(t) \notin Stills)
  <2>1. t \in Seq(Steps)
    BY SeqMonotonic DEF Calm
  <2>2. \A i \in 1..Len(t) : t[i] \in Steps \ Stills
    BY ElementOfSeq DEF Calm
  <2>3. t # <<>> => Head(t) \in Steps \ Stills
    BY HeadTailProperties DEF Calm
  <2>4. \A i \in 2..Len(t) : i \in 1..Len(t)
    BY <2>1, LenProperties
  <2> QED
    BY <2>1, <2>2, <2>3, <2>4 DEF Orderly
<1>4. ASSUME NEW t, Orderly(t), t # <<>>, t # HibernateSteps PROVE Tail(t) \in Calm
  <2>1. t \in Seq(Steps) /\ \A i \in 2..Len(t) : t[i] \notin Stills
    BY <1>4 DEF Orderly
  <2>2. /\ Tail(t) \in Seq(Steps) /\ Len(Tail(t)) = Len(t) - 1
        /\ \A i \in 1..Len(Tail(t)) : Tail(t)[i] = t[i + 1]
    BY <1>4, <2>1, HeadTailProperties
  <2>3. Len(t) \in Nat /\ Len(Tail(t)) \in Nat
    BY <2>1, <2>2, LenProperties
  <2>4. ASSUME NEW i \in 1..Len(Tail(t)) PROVE Tail(t)[i] \in Steps \ Stills
    <3>1. i + 1 \in 2..Len(t)
      BY <2>2, <2>3
    <3>2. Tail(t)[i] \in Steps
      BY <2>2, ElementOfSeq
    <3> QED
      BY <2>1, <2>2, <3>1, <3>2
  <2>5. Tail(t) \in [1..Len(Tail(t)) -> Steps]
    BY <2>2, LenProperties
  <2>6. Tail(t) \in [1..Len(Tail(t)) -> Steps \ Stills]
    BY <2>4, <2>5
  <2> QED
    BY <2>3, <2>6, SeqDef DEF Calm
<1> QED
  BY <1>1, <1>2, <1>3, <1>4

\* The series commands and passes begin, and what a settler turns to.
LEMMA CalmSeries ==
  /\ \A step \in Steps \ Stills : <<step>> \in Calm
  /\ StopSteps \in Calm /\ RestartSteps \in Calm /\ PassSteps \in Calm
  /\ Relaunch \in Calm /\ <<"pace">> \o Relaunch \in Calm /\ GivenUp \in Calm
  /\ ArchiveSteps \in Calm
  /\ <<"look", "post">> \in Calm
<1>1. \A step \in Steps \ Stills : <<step>> \in Calm
  BY DEF Calm
<1>2. /\ StopSteps \in Calm /\ PassSteps \in Calm /\ GivenUp \in Calm
      /\ <<"look", "post">> \in Calm /\ <<"live", "unmark">> \in Calm
      /\ <<"pace", "kill", "dead">> \in Calm /\ <<"kill", "dead", "resolve">> \in Calm
      /\ <<"unmark", "file">> \in Calm
  BY DEF StopSteps, PassSteps, GivenUp, Calm, Steps, Stills
<1>3. <<"create">> \in Calm /\ <<"restore">> \in Calm /\ <<"pace">> \in Calm
  BY <1>1 DEF Steps, Stills
<1>4. Relaunch \in Calm
  <2>1. (IF archived THEN <<"restore">> ELSE <<>>) \in Calm
    BY <1>3, CalmProperties
  <2>2. <<"create">> \o (IF archived THEN <<"restore">> ELSE <<>>) \in Calm
    BY <1>3, <2>1, CalmProperties
  <2> QED
    BY <1>2, <2>2, CalmProperties DEF Relaunch
<1>5. RestartSteps \in Calm /\ <<"pace">> \o Relaunch \in Calm
  BY <1>2, <1>3, <1>4, CalmProperties DEF RestartSteps
<1>6. ArchiveSteps \in Calm
  <2>1. (IF pane THEN <<"kill", "dead", "resolve">> ELSE <<>>) \in Calm
    BY <1>2, CalmProperties
  <2> QED
    BY <1>2, <2>1, CalmProperties DEF ArchiveSteps
<1> QED
  BY <1>1, <1>2, <1>4, <1>5, <1>6

LEMMA HibernateOrder ==
  /\ Orderly(HibernateSteps) /\ HibernateSteps # <<>> /\ Head(HibernateSteps) = "mark"
  /\ Orderly(Tail(HibernateSteps)) /\ Head(Tail(HibernateSteps)) # "drop"
<1>1. /\ HibernateSteps \in Seq(Steps) /\ HibernateSteps # <<>>
      /\ Head(HibernateSteps) = "mark" /\ Tail(HibernateSteps) = <<"doze", "dozed">>
  BY DEF HibernateSteps, Steps
<1>2. /\ <<"doze", "dozed">> \in Seq(Steps) /\ Head(<<"doze", "dozed">>) = "doze"
      /\ \A i \in 2..Len(<<"doze", "dozed">>) : <<"doze", "dozed">>[i] \notin Stills
  BY DEF Steps, Stills
<1> QED
  BY <1>1, <1>2 DEF Orderly

LEMMA SleepInit == Init => SleepInv
<1> SUFFICES ASSUME Init PROVE SleepInv
  OBVIOUS
<1>1. /\ DOMAIN todo = Procs /\ \A p \in Procs : todo[p] = <<>>
      /\ forgotten = FALSE /\ asleep = FALSE
  BY DEF Init
<1>2. Orderly(<<>>)
  BY CalmProperties
<1> QED
  BY <1>1, <1>2 DEF SleepInv, At, Idle

\* One process turns to steps.
LEMMA SleepMoves ==
  ASSUME SleepInv, NEW p \in Procs, NEW steps, Go(p, steps), Orderly(steps),
         forgotten' \in BOOLEAN,
         hibernated \/ forgotten => hibernated' \/ forgotten',
         steps # <<>> /\ Head(steps) = "doze" => hibernated' \/ forgotten',
         asleep' => /\ hibernated' /\ \A q \in Procs : ~At(q, "drop")
                    /\ steps = <<>> \/ Head(steps) # "drop"
  PROVE  SleepInv'
<1>1. /\ DOMAIN todo' = Procs
      /\ \A q \in Procs : todo'[q] = IF q = p THEN steps ELSE todo[q]
  BY DEF Go, SleepInv
<1>2. \A q \in Procs : Orderly(todo[q])'
  <2> SUFFICES ASSUME NEW q \in Procs PROVE Orderly(todo'[q])
    BY DEF Orderly, HibernateSteps
  <2> QED
    BY <1>1 DEF SleepInv
<1>3. \A q \in Procs : At(q, "doze")' => hibernated' \/ forgotten'
  <2> SUFFICES ASSUME NEW q \in Procs, At(q, "doze")' PROVE hibernated' \/ forgotten'
    OBVIOUS
  <2>1. CASE q = p
    BY <1>1, <2>1 DEF At, Idle
  <2>2. CASE q # p
    BY <1>1, <2>2 DEF At, Idle, SleepInv
  <2> QED
    BY <2>1, <2>2
<1>4. asleep' => \A q \in Procs : ~At(q, "drop")'
  <2> SUFFICES ASSUME asleep', NEW q \in Procs PROVE ~At(q, "drop")'
    OBVIOUS
  <2>1. CASE q = p
    BY <1>1, <2>1 DEF At, Idle
  <2>2. CASE q # p
    BY <1>1, <2>2 DEF At, Idle
  <2> QED
    BY <2>1, <2>2
<1> QED
  BY <1>1, <1>2, <1>3, <1>4 DEF SleepInv

\* Nearly every step: neither to the stop nor to the drop, and the mark left alone.
LEMMA CalmMoves ==
  ASSUME SleepInv, NEW p \in Procs, NEW steps, Go(p, steps),
         Orderly(steps), steps = <<>> \/ Head(steps) \notin Stills, UNCHANGED sleep,
         hibernated' = hibernated
  PROVE  SleepInv'
<1>1. forgotten' = forgotten /\ asleep' = asleep
  BY DEF sleep
<1> QED
  BY <1>1, SleepMoves DEF SleepInv, Stills

LEMMA CalmGoes ==
  ASSUME SleepInv, NEW p \in Procs, NEW steps \in Calm, Go(p, steps), UNCHANGED sleep,
         hibernated' = hibernated
  PROVE  SleepInv'
  BY CalmProperties, CalmMoves

\* Only the mark is followed by a stop.
LEMMA AfterCalm ==
  ASSUME SleepInv, NEW p \in Procs, NEW step, At(p, step)
  PROVE  /\ step # "mark" => After(p) \in Calm
         /\ Orderly(After(p)) /\ (After(p) = <<>> \/ Head(After(p)) # "drop")
<1>1. Orderly(todo[p]) /\ todo[p] # <<>> /\ Head(todo[p]) = step
  BY DEF SleepInv, At, Idle
<1>2. CASE todo[p] = HibernateSteps
  BY <1>1, <1>2, HibernateOrder DEF After
<1>3. CASE todo[p] # HibernateSteps
  <2>1. After(p) \in Calm
    BY <1>1, <1>3, CalmProperties DEF After
  <2> QED
    BY <2>1, CalmProperties DEF Stills
<1> QED
  BY <1>2, <1>3

LEMMA BeginSleeps ==
  ASSUME SleepInv, NEW c \in Callers, Begin(c) PROVE SleepInv'
<1>1. c \in Procs
  BY DEF Procs
<1>2. /\ UNCHANGED sleep /\ hibernated' = hibernated
  BY DEF Begin, Call, Stop, Restart, Revive, Archive, Restore, Hibernate,
         SendWakes, SendRestores, Send, Relay, NeighbourCommand, history
<1>3. ASSUME NEW steps \in Calm, Go(c, steps) PROVE SleepInv'
  BY <1>1, <1>2, <1>3, CalmGoes
<1>4. /\ <<"restore">> \in Calm /\ <<"post">> \in Calm /\ <<"writeback">> \in Calm
      /\ <<"unmark">> \in Calm /\ <<"look", "post">> \in Calm /\ <<>> \in Calm
  BY CalmSeries, CalmProperties DEF Steps, Stills
<1>5. CASE Hibernate(c)
  <2>1. Go(c, HibernateSteps)
    BY <1>5 DEF Hibernate, Call
  <2>2. Orderly(HibernateSteps) /\ Head(HibernateSteps) \notin Stills
    BY HibernateOrder DEF Stills
  <2> QED
    BY <1>1, <1>2, <2>1, <2>2, CalmMoves
<1>6. CASE Stop(c) \/ Restart(c) \/ Archive(c)
  BY <1>3, <1>6, CalmSeries DEF Stop, Restart, Archive, Call
<1>7. CASE Revive(c) \/ Restore(c) \/ Relay(c) \/ NeighbourCommand(c) \/ Send(c)
  BY <1>3, <1>4, <1>7, CalmSeries
  DEF Revive, Restore, Relay, NeighbourCommand, Send, Call
<1>8. CASE SendWakes(c)
  <2>1. (IF pane THEN <<"unmark">> ELSE <<"pace">> \o Relaunch) \in Calm
    BY <1>4, CalmSeries
  <2>2. (IF pane THEN <<"unmark">> ELSE <<"pace">> \o Relaunch) \o <<"look", "post">> \in Calm
    BY <1>4, <2>1, CalmProperties
  <2> QED
    BY <1>3, <1>8, <2>2 DEF SendWakes, Call
<1>9. CASE SendRestores(c)
  <2>1. /\ (IF pane THEN <<>> ELSE <<"pace">> \o Relaunch) \in Calm
        /\ (IF archived THEN <<"restore">> ELSE <<>>) \in Calm
    BY <1>4, CalmSeries
  <2>2. (IF pane THEN <<>> ELSE <<"pace">> \o Relaunch)
          \o (IF archived THEN <<"restore">> ELSE <<>>) \in Calm
    BY <2>1, CalmProperties
  <2>3. (IF pane THEN <<>> ELSE <<"pace">> \o Relaunch)
          \o (IF archived THEN <<"restore">> ELSE <<>>) \o <<"look", "post">> \in Calm
    BY <1>4, <2>2, CalmProperties
  <2> QED
    BY <1>3, <1>9, <2>3 DEF SendRestores, Call
<1> QED
  BY <1>5, <1>6, <1>7, <1>8, <1>9 DEF Begin

\* A neighbour's writing back takes the mark off or leaves it on.
LEMMA CallerSleeps ==
  ASSUME SleepInv, NEW c \in Callers, WriteBack(c) \/ Look(c) \/ Post(c)
  PROVE  SleepInv'
<1>1. c \in Procs /\ <<>> \in Calm
  BY CalmProperties DEF Procs
<1>2. CASE WriteBack(c)
  <2>1. Go(c, After(c)) /\ At(c, "writeback") /\ hibernated' = copy[c]
        /\ forgotten' = (forgotten \/ ~copy[c]) /\ asleep' = (asleep /\ copy[c])
    BY <1>2 DEF WriteBack
  <2>2. Orderly(After(c)) /\ (After(c) = <<>> \/ Head(After(c)) \notin Stills)
    BY <1>1, <2>1, AfterCalm, CalmProperties
  <2>3. /\ forgotten' \in BOOLEAN /\ (hibernated' \/ forgotten')
        /\ asleep' => hibernated' /\ asleep
    BY <2>1, Zenon
  <2>4. asleep' => \A q \in Procs : ~At(q, "drop")
    BY <2>3 DEF SleepInv
  <2> QED
    BY <1>1, <2>1, <2>2, <2>3, <2>4, SleepMoves DEF Stills
<1>3. CASE Look(c)
  <2>1. After(c) \in Calm
    BY <1>1, <1>3, AfterCalm DEF Look
  <2> QED
    BY <1>1, <1>3, <2>1, CalmGoes DEF Look, history
<1>4. CASE Post(c)
  <2>1. After(c) \in Calm
    BY <1>1, <1>4, AfterCalm DEF Post
  <2> QED
    BY <1>1, <1>4, <2>1, CalmGoes DEF Post, history
<1> QED
  BY <1>2, <1>3, <1>4

LEMMA SettlerSleeps ==
  ASSUME SleepInv, NEW s \in Settlers, Settle(s) \/ Wake(s) \/ WakeFails(s)
  PROVE  SleepInv'
<1>1. s \in Procs
  BY DEF Procs
<1>2. /\ <<"wake">> \in Calm /\ <<"forget">> \in Calm /\ <<"unmark">> \in Calm
      /\ <<"pace">> \o Relaunch \in Calm /\ GivenUp \in Calm
  BY CalmSeries DEF Steps, Stills
<1>3. PICK steps \in Calm : Go(s, steps)
  BY <1>2 DEF Settle, Wake, WakeFails
<1>4. UNCHANGED sleep /\ hibernated' = hibernated
  BY DEF Settle, Wake, WakeFails, history
<1> QED
  BY <1>1, <1>3, <1>4, CalmGoes

LEMMA PassSleeps ==
  ASSUME SleepInv, NEW m \in Managers, BeginPass(m) \/ Pass(m)
  PROVE  SleepInv'
<1>1. m \in Procs
  BY DEF Procs
<1>2. UNCHANGED sleep /\ hibernated' = hibernated
  BY DEF BeginPass, Pass, ReadFiled, ListSessions, ScanPanes, RestoreLiveArchived,
         NothingToMend, Flush, FlushThenFail, NothingToFlush, history
<1>3. /\ PassSteps \in Calm /\ <<>> \in Calm /\ <<"resolve">> \in Calm
      /\ <<"list">> \in Calm
  BY CalmSeries, CalmProperties DEF Steps, Stills
<1>4. CASE ReadFiled(m) \/ ListSessions(m) \/ ScanPanes(m) \/ NothingToMend(m)
  <2>1. PICK step \in {"filed", "list", "scan", "mend"} : At(m, step)
    BY <1>4 DEF ReadFiled, ListSessions, ScanPanes, NothingToMend
  <2>2. After(m) \in Calm
    BY <1>1, <2>1, AfterCalm
  <2>3. Go(m, After(m))
    BY <1>4 DEF ReadFiled, ListSessions, ScanPanes, NothingToMend
  <2> QED
    BY <1>1, <1>2, <2>2, <2>3, CalmGoes
<1>5. CASE RestoreLiveArchived(m)
  <2>1. After(m) \in Calm
    BY <1>1, <1>5, AfterCalm DEF RestoreLiveArchived
  <2>2. <<"list">> \o After(m) \in Calm
    BY <1>3, <2>1, CalmProperties
  <2> QED
    BY <1>1, <1>2, <1>5, <2>2, CalmGoes DEF RestoreLiveArchived
<1>6. CASE BeginPass(m) \/ Flush(m) \/ FlushThenFail(m) \/ NothingToFlush(m)
  <2>1. PICK steps \in Calm : Go(m, steps)
    BY <1>3, <1>6 DEF BeginPass, Flush, FlushThenFail, NothingToFlush, EndPass
  <2> QED
    BY <1>1, <1>2, <2>1, CalmGoes
<1> QED
  BY <1>4, <1>5, <1>6 DEF Pass

\* The steps that put the mark on, take it off, stop under it and launch.
LEMMA MarkSleeps ==
  ASSUME SleepInv, NEW p \in Procs, Mark(p) \/ Unmark(p) \/ Doze(p) \/ Create(p)
  PROVE  SleepInv'
<1>1. CASE Mark(p)
  <2>1. /\ Go(p, After(p)) /\ hibernated' = TRUE /\ forgotten' = FALSE
        /\ asleep' = asleep /\ At(p, "mark")
    BY <1>1 DEF Mark
  <2>2. Orderly(After(p)) /\ (After(p) = <<>> \/ Head(After(p)) # "drop")
    BY <2>1, AfterCalm
  <2> QED
    BY <2>1, <2>2, SleepMoves DEF SleepInv
<1>2. CASE Unmark(p)
  <2>1. Go(p, After(p)) /\ forgotten' = TRUE /\ asleep' = FALSE
    BY <1>2 DEF Unmark
  <2>2. Orderly(After(p))
    BY <1>2, AfterCalm DEF Unmark
  <2> QED
    BY <2>1, <2>2, SleepMoves
<1>3. CASE Doze(p)
  <2>1. /\ Go(p, After(p)) /\ At(p, "doze")
        /\ hibernated' = hibernated /\ forgotten' = forgotten
        /\ asleep' => asleep \/ (~forgotten /\ \A q \in Procs : ~At(q, "drop"))
    BY <1>3, Zenon DEF Doze
  <2>2. After(p) \in Calm
    BY <2>1, AfterCalm
  <2>3. asleep' => hibernated /\ \A q \in Procs : ~At(q, "drop")
    BY <2>1 DEF SleepInv
  <2>4. Orderly(After(p)) /\ (After(p) = <<>> \/ Head(After(p)) \notin Stills)
    BY <2>2, CalmProperties
  <2> QED
    BY <2>1, <2>3, <2>4, SleepMoves DEF SleepInv, Stills
<1>4. CASE Create(p)
  <2>1. /\ Go(p, After(p)) /\ At(p, "create") /\ asleep' = FALSE
        /\ hibernated' = hibernated /\ forgotten' = forgotten
    BY <1>4 DEF Create
  <2>2. After(p) \in Calm
    BY <2>1, AfterCalm
  <2>3. Orderly(After(p)) /\ (After(p) = <<>> \/ Head(After(p)) \notin Stills)
    BY <2>2, CalmProperties
  <2> QED
    BY <2>1, <2>3, SleepMoves DEF SleepInv, Stills
<1> QED
  BY <1>1, <1>2, <1>3, <1>4

\* The end of a queue: what sleeps is in the set, and the look finds it there.
LEMMA ResolvingSleeps ==
  ASSUME SleepInv, NEW p \in Procs, Resolve(p) \/ Drop(p) \/ Tell(p)
  PROVE  SleepInv'
<1>1. UNCHANGED sleep /\ hibernated' = hibernated
  BY DEF Resolve, Drop, Tell, history
<1>2. PICK step \in {"resolve", "drop", "tell"} : At(p, step)
  BY DEF Resolve, Drop, Tell
<1>3. After(p) \in Calm /\ <<>> \in Calm /\ <<"tell">> \in Calm
  BY <1>2, AfterCalm, CalmProperties, CalmSeries DEF Steps, Stills
<1>4. <<>> \o After(p) \in Calm /\ <<"tell">> \o After(p) \in Calm
  BY <1>3, CalmProperties
<1>5. CASE Resolve(p)
  <2>1. CASE hibernated
    BY <1>1, <1>4, <1>5, <2>1, CalmGoes DEF Resolve
  <2>2. CASE ~hibernated
    <3> DEFINE steps == <<"drop">> \o After(p)
    <3>1. Go(p, steps)
      BY <1>5, <2>2 DEF Resolve
    <3>2. /\ <<"drop">> \in Seq(Steps) /\ Len(<<"drop">>) = 1 /\ <<"drop">>[1] = "drop"
          /\ After(p) \in Seq(Steps)
      BY <1>3, CalmProperties DEF Steps, Orderly
    <3>3. /\ steps \in Seq(Steps) /\ Len(steps) = 1 + Len(After(p))
          /\ \A i \in 1..Len(steps) :
               steps[i] = IF i <= 1 THEN "drop" ELSE After(p)[i - 1]
      BY <3>2, ConcatProperties
    <3>4. Len(After(p)) \in Nat
      BY <3>2, LenProperties
    <3>5. \A i \in 1..Len(After(p)) : After(p)[i] \notin Stills
      BY <1>3, ElementOfSeq DEF Calm
    <3>6. \A i \in 2..Len(steps) : steps[i] \notin Stills
      BY <3>3, <3>4, <3>5
    <3>7. Orderly(steps) /\ Head(steps) = "drop"
      <4>1. steps # <<>> /\ Head(steps) = steps[1] /\ steps[1] = "drop"
        BY <3>3, <3>4
      <4> QED
        BY <3>3, <3>6, <4>1 DEF Orderly
    <3>8. ~asleep /\ asleep' = asleep /\ forgotten' = forgotten
      BY <1>1, <2>2 DEF SleepInv, sleep
    <3> HIDE DEF steps
    <3> QED
      BY <1>1, <3>1, <3>7, <3>8, SleepMoves DEF SleepInv
  <2> QED
    BY <2>1, <2>2
<1>6. CASE Drop(p)
  <2>1. Go(p, <<>> \o After(p)) \/ Go(p, <<"tell">> \o After(p))
    BY <1>6 DEF Drop
  <2> QED
    BY <1>1, <1>4, <2>1, CalmGoes
<1>7. CASE Tell(p)
  <2>1. Go(p, After(p)) \/ Go(p, todo[p])
    BY <1>7 DEF Tell
  <2>2. Orderly(todo[p]) /\ Head(todo[p]) \notin Stills
    BY <1>7 DEF Tell, At, SleepInv, Stills
  <2> QED
    BY <1>1, <1>3, <2>1, <2>2, CalmGoes, CalmMoves
<1> QED
  BY <1>5, <1>6, <1>7

LEMMA StepSleeps ==
  ASSUME SleepInv, NEW p \in Procs, Step(p) PROVE SleepInv'
<1>1. CASE \/ Dead(p) \/ Live(p) \/ File(p) \/ RestoreRow(p) \/ Kill(p) \/ Pace(p)
  <2>1. PICK step \in {"dead", "dozed", "live", "file", "restore", "kill", "pace"} :
          At(p, step)
    BY <1>1 DEF Dead, Live, File, RestoreRow, Kill, Pace
  <2>2. After(p) \in Calm
    BY <2>1, AfterCalm
  <2>3. Go(p, After(p)) /\ UNCHANGED sleep /\ hibernated' = hibernated
    BY <1>1 DEF Dead, Live, File, RestoreRow, Kill, Pace, history
  <2> QED
    BY <2>2, <2>3, CalmGoes
<1>2. CASE StopFails(p) \/ CreateFails(p)
  <2>1. <<"unmark">> \in Calm /\ <<>> \in Calm /\ GivenUp \in Calm
    BY CalmSeries, CalmProperties DEF Steps, Stills
  <2>2. PICK steps \in Calm : Go(p, steps)
    BY <1>2, <2>1 DEF StopFails, CreateFails
  <2>3. UNCHANGED sleep /\ hibernated' = hibernated
    BY <1>2 DEF StopFails, CreateFails, history
  <2> QED
    BY <2>2, <2>3, CalmGoes
<1> QED
  BY <1>1, <1>2, MarkSleeps, ResolvingSleeps DEF Step

LEMMA SleepNext == SleepInv /\ [Next]_vars => SleepInv'
<1> SUFFICES ASSUME SleepInv, [Next]_vars PROVE SleepInv'
  OBVIOUS
<1>1. ASSUME NEW c \in Callers, Begin(c) \/ WriteBack(c) \/ Look(c) \/ Post(c)
      PROVE  SleepInv'
  BY <1>1, BeginSleeps, CallerSleeps
<1>2. ASSUME NEW s \in Settlers, Settle(s) \/ Wake(s) \/ WakeFails(s) PROVE SleepInv'
  BY <1>2, SettlerSleeps
<1>3. ASSUME NEW m \in Managers, BeginPass(m) \/ Pass(m) PROVE SleepInv'
  BY <1>3, PassSleeps
<1>4. ASSUME NEW p \in Procs, Step(p) PROVE SleepInv'
  BY <1>4, StepSleeps
<1>5. ASSUME NEW p \in Procs, CutShort(p) PROVE SleepInv'
  <2>1. Go(p, <<>>) /\ UNCHANGED sleep /\ hibernated' = hibernated
    BY <1>5 DEF CutShort, history
  <2> QED
    BY <2>1, CalmProperties, CalmGoes
<1>6. ASSUME UNCHANGED <<todo, hibernated, sleep>> PROVE SleepInv'
  BY <1>6 DEF SleepInv, At, Idle, sleep, Orderly, HibernateSteps
<1>7. CASE AgentExits \/ (\E m \in Managers : Deliver(m)) \/ UNCHANGED vars
  <2>1. UNCHANGED <<todo, hibernated, sleep>>
    BY <1>7 DEF AgentExits, Deliver, vars, history
  <2> QED
    BY <1>6, <2>1
<1> QED
  BY <1>1, <1>2, <1>3, <1>4, <1>5, <1>7 DEF Next

\* A session that hibernate has stopped keeps its queue for as long as nothing takes
\* its mark off or launches it: whatever the board settles and wakes meanwhile, however
\* stale what a pass read, and whichever stop, launch or write fails (hibernate.go, the
\* mark before the stop; recipientended.go, the look at the set before the
\* transaction).  It does not speak of a mark taken off between the two, nor of a
\* resolution past its look when the stop comes: those lose the queue (README,
\* section 4).
THEOREM SleeperKeepsMail == Spec => HibernatedKeepsMail
<1> DEFINE Inv == AccountInv /\ SleepInv
<1>1. Init => Inv
  BY AccountInit, SleepInit
<1>2. Inv /\ [Next]_vars => Inv'
  BY AccountNext, SleepNext
<1>3. AccountInv /\ SleepInv /\ [Next]_vars
        => [asleep /\ asleep' => \A l \in QueuedLetters : mail'[l] # "dropped"]_vars
  <2> SUFFICES ASSUME AccountInv, SleepInv, [Next]_vars, asleep,
                      NEW l \in QueuedLetters
               PROVE  mail'[l] # "dropped"
    OBVIOUS
  <2>1. mail[l] = "queued" /\ l \in Letters /\ l \in DOMAIN mail
    BY DEF QueuedLetters, AccountInv, LettersTyped
  <2>2. \A p \in Procs : ~Drop(p)
    BY DEF SleepInv, Drop
  <2>3. ASSUME mail' = mail PROVE mail'[l] # "dropped"
    BY <2>1, <2>3
  <2>4. ASSUME NEW c \in Callers, Begin(c) \/ WriteBack(c) \/ Look(c)
        PROVE  mail'[l] # "dropped"
    <3>1. CASE Begin(c)
      <4>1. UNCHANGED letters
        BY <3>1, CommandQuiet
      <4> QED
        BY <2>3, <4>1 DEF letters
    <3>2. CASE WriteBack(c)
      BY <2>3, <3>2 DEF WriteBack, letters
    <3>3. CASE Look(c)
      BY <2>3, <3>3 DEF Look, letters
    <3> QED
      BY <2>4, <3>1, <3>2, <3>3
  <2>5. ASSUME NEW c \in Callers, Post(c) PROVE mail'[l] # "dropped"
    BY <2>1, <2>5 DEF Post
  <2>6. ASSUME NEW s \in Settlers, Settle(s) \/ Wake(s) \/ WakeFails(s)
        PROVE  mail'[l] # "dropped"
    BY <2>3, <2>6 DEF Settle, Wake, WakeFails, letters
  <2>7. ASSUME NEW m \in Managers, BeginPass(m) \/ Pass(m) PROVE mail'[l] # "dropped"
    BY <2>3, <2>7, PassQuiet DEF letters
  <2>8. ASSUME NEW m \in Managers, Deliver(m) PROVE mail'[l] # "dropped"
    BY <2>1, <2>8 DEF Deliver
  <2>9. ASSUME NEW p \in Procs, Step(p) PROVE mail'[l] # "dropped"
    <3>1. CASE Tell(p)
      BY <2>3, <3>1 DEF Tell
    <3>2. CASE ~Tell(p)
      BY <2>2, <2>3, <2>9, <3>2, StepQuiet DEF letters
    <3> QED
      BY <3>1, <3>2
  <2>10. ASSUME NEW p \in Procs, CutShort(p) PROVE mail'[l] # "dropped"
    BY <2>3, <2>10 DEF CutShort
  <2>11. CASE AgentExits \/ UNCHANGED vars
    BY <2>3, <2>11 DEF AgentExits, vars, letters
  <2> QED
    BY <2>4, <2>5, <2>6, <2>7, <2>8, <2>9, <2>10, <2>11 DEF Next
<1>4. Inv => AccountInv /\ SleepInv
  OBVIOUS
<1> HIDE DEF Inv
<1> QED
  BY <1>1, <1>2, <1>3, <1>4, PTL DEF Spec, HibernatedKeepsMail

-----------------------------------------------------------------------------
\* The state stays in its types: a session is filed at most once for each command
\* given (archive.go), though an archive is many steps that other commands, passes
\* and failures come between, and a pass's reading names a filing that was made.
THEOREM RecipientTyped == Spec => []TypeOK
<1>1. AccountInv /\ MendInv /\ CallInv /\ SleepInv => TypeOK
  <2> SUFFICES ASSUME AccountInv, MendInv, CallInv, SleepInv PROVE TypeOK
    OBVIOUS
  <2>1. filings \in 0..MaxCalls
    <3>1. Cardinality(Filers) \in Nat
      BY FS_CardinalityType DEF CallInv
    <3> QED
      BY <3>1, RecipientAssumption DEF CallInv
  <2>2. todo \in [Procs -> Seq(Steps)]
    BY PlainProperties, FilingProperties DEF CallInv
  <2>3. seen \in [Managers -> Seen]
    <3>1. ASSUME NEW m \in Managers PROVE seen[m] \in Seen
      <4>1. seen[m] \in Views /\ seen[m].filing <= filings
        BY DEF MendInv, RowTyped, ViewsOld
      <4> QED
        BY <2>1, <4>1, RecipientAssumption DEF Views, Seen
    <3> QED
      BY <3>1 DEF MendInv, RowTyped
  <2> QED
    BY <2>1, <2>2, <2>3
    DEF TypeOK, AccountInv, LettersTyped, MendInv, RowTyped, CallInv, SleepInv
<1> QED
  BY <1>1, AccountInit, AccountNext, MendInit, MendNext, CallInit, CallNext,
     SleepInit, SleepNext, PTL DEF Spec
=============================================================================
