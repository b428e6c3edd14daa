----------------------------- MODULE McpRelay -----------------------------
(***************************************************************************)
(* The MCP relay (internal/mcprelay/relay.go): one process per agent        *)
(* session, in front of a worker it starts when the session's pane is        *)
(* adopted, restarts when a new binary is installed and drops when the pane  *)
(* is let go.  The relay is one loop over client lines, worker lines and a   *)
(* ticker, so a handler is one step, written here as an operator on the      *)
(* relay's record; the client, the worker and the board move between them.   *)
(***************************************************************************)
EXTENDS Naturals, Sequences, FiniteSets, SequencesExt

CONSTANTS
  MaxCalls,     \* tool calls the client makes, numbered as it makes them
  Rows, NoRow,  \* board rows the pane may be adopted as
  MaxBackoff,   \* checks skipped at most after a worker has exited
  MaxMoves, MaxInstalls, MaxFaults  \* bounds: adoptions changed, binaries
                \* installed, workers that exit or cannot be started

ASSUME RelayAssumption ==
  /\ NoRow \notin Rows /\ MaxBackoff \in Nat \ {0}
  /\ {MaxCalls, MaxMoves, MaxInstalls, MaxFaults} \subseteq Nat

VARIABLES
  relay,      \* the relay's own state
  worker,     \* the worker process behind it
  client,     \* what the agent's MCP client has asked and been told
  input,      \* lines the client has written and the relay has not read
  row,        \* the row the pane is adopted as
  installed,  \* the binary's version
  budget

vars == <<relay, worker, client, input, row, installed, budget>>

\* A line is a call's number, tools/list, or one of the handshake's two.
List == 0
Requests == 0..MaxCalls
Hello == MaxCalls + 1   \* initialize, to a worker, and its answer
Ready == MaxCalls + 2   \* notifications/initialized, from the client

NoWorker == [alive |-> FALSE, version |-> 0, in |-> <<>>, out |-> <<>>]
Init ==
  /\ relay = [ready |-> FALSE, up |-> FALSE, row |-> NoRow, handshake |-> FALSE,
              pending |-> {}, buffered |-> <<>>, upgrade |-> FALSE,
              announced |-> FALSE, wait |-> 0, backoff |-> 0]
  /\ worker = NoWorker
  /\ client = [asked |-> 0, answers |-> [r \in 1..MaxCalls |-> 0],
               listing |-> FALSE, stale |-> TRUE, view |-> 0]
  /\ input = <<Ready>> /\ row = NoRow /\ installed = 1
  /\ budget = [moves |-> MaxMoves, installs |-> MaxInstalls, faults |-> MaxFaults]

-----------------------------------------------------------------------------
(* Handlers, on s = [r |-> relay, w |-> worker, c |-> client]. *)

Now == [r |-> relay, w |-> worker, c |-> client]
Becomes(s) == relay' = s.r /\ worker' = s.w /\ client' = s.c

\* Each request of a set is answered: calls count, a list shows a tool set.
Answer(s, set) ==
  [s EXCEPT !.c.answers = [r \in 1..MaxCalls |-> @[r] + IF r \in set THEN 1 ELSE 0],
            !.c.listing = @ /\ List \notin set]
Show(s, set, tools) ==
  IF List \in set THEN [Answer(s, set) EXCEPT !.c.view = tools] ELSE Answer(s, set)
\* idle: a list is empty, and a call fails.
AnswerIdle(s, set) == Show(s, set, 0)

ToolsChanged(s) ==
  IF ~s.r.ready THEN s
  ELSE [s EXCEPT !.r.announced = s.r.up /\ ~s.r.handshake, !.c.stale = TRUE]

Stop(s) ==
  [s EXCEPT !.r.up = FALSE, !.r.row = NoRow, !.r.handshake = FALSE,
            !.r.upgrade = FALSE, !.w = NoWorker]
\* Variant: what waits for the handshake is forgotten with the worker.
DropUnbuffered(s) ==
  [Answer(Stop(s), s.r.pending) EXCEPT !.r.pending = {}, !.r.buffered = <<>>]
Drop(s) ==
  AnswerIdle([Answer(Stop(s), s.r.pending) EXCEPT !.r.pending = {}, !.r.buffered = <<>>],
             ToSet(s.r.buffered))
\* Variant: the client is told of tools that come and not of tools that go.
DroppedQuietly(s) == Drop(s)
Dropped(s) == IF s.r.announced THEN ToolsChanged(Drop(s)) ELSE Drop(s)

Least(a, b) == IF a < b THEN a ELSE b
\* Variant: without an upper end.
LongerEachTime(s) == IF s.r.backoff = 0 THEN 1 ELSE 2 * s.r.backoff
Longer(s) == Least(IF s.r.backoff = 0 THEN 1 ELSE 2 * s.r.backoff, MaxBackoff)
BackOff(s) == [s EXCEPT !.r.wait = Longer(s), !.r.backoff = Longer(s)]
\* Variant: the worker is forgotten with what it was asked.
WorkerForgotten(s) == [Stop(BackOff(s)) EXCEPT !.r.pending = {}]
WorkerGone(s) == Dropped(BackOff(s))

\* How a start may go: refused, up, or gone before the first line is written.
Starts(s, id, how) ==
  IF how = "refused" THEN BackOff(s)
  ELSE LET t == [s EXCEPT !.r.up = TRUE, !.r.row = id, !.r.upgrade = FALSE,
                          !.r.handshake = TRUE,
                          !.w = [alive |-> TRUE, version |-> installed,
                                 in |-> <<Hello>>, out |-> <<>>]]
       IN IF how = "gone" THEN WorkerGone(t) ELSE t
Restart(s, how) ==
  LET t == Starts(Drop(s), s.r.row, how)
  IN IF ~t.r.up /\ t.r.announced THEN ToolsChanged(t) ELSE t

Forward(s, r) ==
  LET t == [s EXCEPT !.r.pending = @ \cup {r}]
  IN IF t.w.alive THEN [t EXCEPT !.w.in = Append(@, r)] ELSE WorkerGone(t)

Check(s, how) ==
  LET left == s.r.up /\ (row = NoRow \/ row # s.r.row)
      newer == s.r.up /\ ~left /\ s.w.version # installed
      t == IF left THEN Dropped(s) ELSE s
  IN IF newer THEN IF s.r.pending = {} /\ ~s.r.handshake
                   THEN Restart([s EXCEPT !.r.upgrade = TRUE], how)
                   ELSE [s EXCEPT !.r.upgrade = TRUE]
     ELSE IF t.r.up THEN t
     ELSE IF row = NoRow THEN [t EXCEPT !.r.wait = 0, !.r.backoff = 0]
     ELSE IF t.r.wait > 0 THEN [t EXCEPT !.r.wait = @ - 1]
     ELSE Starts(t, row, how)

Buffers(s) == s.r.up /\ s.r.handshake
FromClient(s, line, how) ==
  IF line = Ready THEN Check([s EXCEPT !.r.ready = TRUE], how)
  ELSE IF ~s.r.up THEN AnswerIdle(s, {line})
  ELSE IF Buffers(s) THEN [s EXCEPT !.r.buffered = Append(@, line)]
  ELSE Forward(s, line)

\* handshaken: the tools are announced and what waited goes through.
Handshaken(s) ==
  LET t == [s EXCEPT !.r.handshake = FALSE, !.r.wait = 0, !.r.backoff = 0]
      b == s.r.buffered
  IN IF ~t.w.alive THEN WorkerGone(t)
     ELSE [ToolsChanged(t) EXCEPT !.r.buffered = <<>>,
             !.r.pending = @ \cup ToSet(b), !.w.in = @ \o b]
Owed(s, r) == s.r.pending \ {r}
FromWorker(s, line, how) ==
  IF line = Hello THEN Handshaken(s)
  ELSE LET t == [Show(s, {line}, s.w.version) EXCEPT !.r.pending = Owed(s, line)]
       IN IF t.r.upgrade /\ t.r.pending = {} THEN Restart(t, how) ELSE t

-----------------------------------------------------------------------------
(* The loop's three events. *)

Outcomes == {"up"} \cup IF budget.faults > 0 THEN {"refused", "gone"} ELSE {}
\* An outcome is chosen only where the step starts a worker.
Spend(how) ==
  /\ how # "up" => relay'.wait > relay.wait \/ relay'.backoff > relay.backoff
  /\ budget' = [budget EXCEPT !.faults = @ - IF how = "up" THEN 0 ELSE 1]

ReadClient ==
  /\ input # <<>> /\ input' = Tail(input)
  /\ \E how \in Outcomes : Becomes(FromClient(Now, Head(input), how)) /\ Spend(how)
  /\ UNCHANGED <<row, installed>>
ReadWorker ==
  /\ relay.up /\ worker.out # <<>>
  /\ \E how \in Outcomes :
       /\ Becomes(FromWorker([Now EXCEPT !.w.out = Tail(@)], Head(worker.out), how))
       /\ Spend(how)
  /\ UNCHANGED <<input, row, installed>>
\* What the worker wrote before it exited is read first.
WorkerExited ==
  /\ relay.up /\ ~worker.alive /\ worker.out = <<>>
  /\ Becomes(WorkerGone(Now))
  /\ UNCHANGED <<input, row, installed, budget>>
Tick ==
  /\ relay.ready
  /\ \E how \in Outcomes : Becomes(Check(Now, how)) /\ Spend(how)
  /\ UNCHANGED <<input, row, installed>>

-----------------------------------------------------------------------------
(* The client, the worker, and the board. *)

ClientCalls ==
  /\ client.asked < MaxCalls
  /\ client' = [client EXCEPT !.asked = @ + 1]
  /\ input' = Append(input, client.asked + 1)
  /\ UNCHANGED <<relay, worker, row, installed, budget>>
\* It lists the tools when it starts and whenever it is told they changed.
ClientLists ==
  /\ client.stale /\ ~client.listing
  /\ client' = [client EXCEPT !.stale = FALSE, !.listing = TRUE]
  /\ input' = Append(input, List)
  /\ UNCHANGED <<relay, worker, row, installed, budget>>

WorkerAnswers ==
  /\ worker.alive /\ worker.in # <<>>
  /\ \E i \in DOMAIN worker.in :
       /\ worker.in[1] = Hello => i = 1
       /\ worker' = [worker EXCEPT !.in = RemoveAt(@, i), !.out = Append(@, worker.in[i])]
  /\ UNCHANGED <<relay, client, input, row, installed, budget>>
WorkerExits ==
  /\ worker.alive /\ budget.faults > 0
  /\ worker' = [worker EXCEPT !.alive = FALSE, !.in = <<>>]
  /\ budget' = [budget EXCEPT !.faults = @ - 1]
  /\ UNCHANGED <<relay, client, input, row, installed>>

PaneMoves ==
  /\ budget.moves > 0
  /\ \E new \in (Rows \cup {NoRow}) \ {row} : row' = new
  /\ budget' = [budget EXCEPT !.moves = @ - 1]
  /\ UNCHANGED <<relay, worker, client, input, installed>>
BinaryInstalled ==
  /\ budget.installs > 0 /\ installed' = installed + 1
  /\ budget' = [budget EXCEPT !.installs = @ - 1]
  /\ UNCHANGED <<relay, worker, client, input, row>>

Works ==
  ReadClient \/ ReadWorker \/ WorkerExited \/ Tick \/ ClientLists \/ WorkerAnswers
Next ==
  \/ Works
  \/ ClientCalls \/ WorkerExits \/ PaneMoves \/ BinaryInstalled
Spec == Init /\ [][Next]_vars

\* The relay's loop, the client and a worker that stays up go on as long as one
\* of them has something to do; nothing makes the board or the operator move.
Fairness == WF_vars(Works)
FairSpec == Spec /\ Fairness

-----------------------------------------------------------------------------
(* Properties. *)

Lines == Requests \cup {Hello}
TypeOK ==
  /\ relay \in [ready : BOOLEAN, up : BOOLEAN, row : Rows \cup {NoRow},
                handshake : BOOLEAN, pending : SUBSET Requests,
                buffered : Seq(Requests), upgrade : BOOLEAN, announced : BOOLEAN,
                wait : 0..MaxBackoff, backoff : 0..MaxBackoff]
  /\ worker \in [alive : BOOLEAN, version : 0..installed, in : Seq(Lines), out : Seq(Lines)]
  /\ client \in [asked : 0..MaxCalls, answers : [1..MaxCalls -> Nat],
                 listing : BOOLEAN, stale : BOOLEAN, view : 0..installed]
  /\ input \in Seq(Requests \cup {Ready})
  /\ row \in Rows \cup {NoRow} /\ installed \in 1..(MaxInstalls + 1)

\* A call the client waits on is in exactly one place: on its way to the relay,
\* buffered behind a handshake, or owed by a worker that has it, has answered
\* it, or has died and not been seen to.  A call answered is in none, and no
\* call is answered twice, whichever workers come and go meanwhile.  And no call
\* reaches a worker that has not answered its initialize (fromClient).
Among(r, seq) == \E i \in DOMAIN seq : seq[i] = r
Once(r, seq) == Cardinality({i \in DOMAIN seq : seq[i] = r}) = 1
Answered(r) == client.answers[r] > 0
InOnePlace(r) ==
  \/ Once(r, input) /\ ~Among(r, relay.buffered) /\ r \notin relay.pending
  \/ ~Among(r, input) /\ Once(r, relay.buffered) /\ r \notin relay.pending
  \/ ~Among(r, input) /\ ~Among(r, relay.buffered) /\ r \in relay.pending
InNone(r) == ~Among(r, input) /\ ~Among(r, relay.buffered) /\ r \notin relay.pending
CallsAccounted ==
  /\ relay.buffered # <<>> => relay.up /\ relay.handshake
  /\ relay.pending # {} => relay.up /\ ~relay.handshake
  /\ Among(Hello, worker.in) => Len(worker.in) = 1
  /\ \A r \in 1..MaxCalls :
       /\ client.answers[r] <= 1
       /\ IF r <= client.asked /\ ~Answered(r) THEN InOnePlace(r) ELSE InNone(r)
       /\ r \in relay.pending /\ worker.alive =>
            Among(r, worker.in) \/ Among(r, worker.out)

\* Every call the client makes is answered, by a worker or by the relay.
CallsAnswered == <>[](\A r \in 1..client.asked : client.answers[r] = 1)

\* Once the board and the binary stay as they are, the session has a worker for
\* the row it is adopted as, of the binary installed (calls that were under way
\* put that off, and no more), and the client knows that worker's tools, or
\* knows that it has none.
ToolsSettle ==
  <>[](/\ relay.up <=> row # NoRow
       /\ relay.up => relay.row = row /\ worker.version = installed
       /\ client.view = worker.version)
=============================================================================
