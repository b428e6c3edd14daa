--------------------------- MODULE McpRelayProofs ---------------------------
(***************************************************************************)
(* Types of McpRelay, and that every call the client waits on is in one     *)
(* place: for any number of calls and rows, any bounds, and whatever the     *)
(* board, the installer and the workers do.                                 *)
(***************************************************************************)
EXTENDS McpRelay, SequenceTheorems, FiniteSetTheorems, TLAPS

\* The record the handlers work on.
Relays ==
  [ready : BOOLEAN, up : BOOLEAN, row : Rows \cup {NoRow}, handshake : BOOLEAN,
   pending : SUBSET Requests, buffered : Seq(Requests), upgrade : BOOLEAN,
   announced : BOOLEAN, wait : 0..MaxBackoff, backoff : 0..MaxBackoff]
Workers ==
  [alive : BOOLEAN, version : 0..installed, in : Seq(Lines), out : Seq(Lines)]
Clients ==
  [asked : 0..MaxCalls, answers : [1..MaxCalls -> Nat], listing : BOOLEAN,
   stale : BOOLEAN, view : 0..installed]
State == [r : Relays, w : Workers, c : Clients]

\* What the worker has of a call it was handed: the call, or its answer on the way,
\* and of no other call.
Single(r, seq) == \A i, j \in DOMAIN seq : seq[i] = r /\ seq[j] = r => i = j
WithWorker(s, r) ==
  /\ Single(r, s.w.in) /\ Single(r, s.w.out) /\ ~(Among(r, s.w.in) /\ Among(r, s.w.out))
  /\ Among(r, s.w.in) \/ Among(r, s.w.out) => r \in s.r.pending
  /\ r \in s.r.pending /\ s.w.alive => Among(r, s.w.in) \/ Among(r, s.w.out)
Greeting(s) ==
  \/ s.w.in = <<Hello>> /\ s.w.out = <<>>
  \/ s.w.in = <<>> /\ s.w.out \in {<<>>, <<Hello>>}
Sound(s) ==
  /\ ~s.r.up => s.w = NoWorker /\ ~s.r.handshake
  /\ s.r.buffered # <<>> => s.r.handshake
  /\ s.r.pending # {} => s.r.up /\ ~s.r.handshake
  /\ IF s.r.handshake THEN Greeting(s)
     ELSE ~Among(Hello, s.w.in) /\ ~Among(Hello, s.w.out)
  /\ \A r \in 1..MaxCalls : Single(r, s.r.buffered) /\ WithWorker(s, r)

\* The calls the relay has to see to; what becomes of them, and of those in hand,
\* from s to t: each is answered or still had.
Has(s, r) == r \in s.r.pending \/ Among(r, s.r.buffered)
Settles(s, t, hand) ==
  /\ t.c.asked = s.c.asked
  /\ \A r \in 1..MaxCalls :
       \/ /\ Has(s, r) \/ r \in hand
          /\ ~Has(t, r) /\ t.c.answers[r] = s.c.answers[r] + 1
       \/ /\ Has(s, r) \/ r \in hand <=> Has(t, r)
          /\ t.c.answers[r] = s.c.answers[r]

-----------------------------------------------------------------------------
(* A call among the lines of a sequence. *)

LEMMA AppendAmong ==
  ASSUME NEW S, NEW seq \in Seq(S), NEW line \in S, NEW r
  PROVE  /\ Among(r, Append(seq, line)) <=> Among(r, seq) \/ r = line
         /\ Single(r, seq) /\ (r = line => ~Among(r, seq)) => Single(r, Append(seq, line))
<1> DEFINE longer == Append(seq, line)
<1>1. /\ Len(seq) \in Nat /\ DOMAIN seq = 1..Len(seq)
      /\ longer \in Seq(S) /\ Len(longer) = Len(seq) + 1
      /\ DOMAIN longer = 1..(Len(seq) + 1)
      /\ \A i \in 1..Len(seq) : longer[i] = seq[i]
      /\ longer[Len(seq) + 1] = line
  BY AppendProperties, LenProperties
<1> HIDE DEF longer
<1>2. Among(r, longer) <=> Among(r, seq) \/ r = line
  <2>1. ASSUME NEW i \in DOMAIN longer, longer[i] = r PROVE Among(r, seq) \/ r = line
    BY <1>1, <2>1 DEF Among
  <2>2. ASSUME NEW i \in DOMAIN seq, seq[i] = r PROVE Among(r, longer)
    <3>1. i \in DOMAIN longer /\ longer[i] = seq[i]
      BY <1>1
    <3> QED
      BY <2>2, <3>1 DEF Among
  <2>3. ASSUME r = line PROVE Among(r, longer)
    <3>1. Len(seq) + 1 \in DOMAIN longer
      BY <1>1
    <3> QED
      BY <1>1, <2>3, <3>1 DEF Among
  <2> QED
    BY <2>1, <2>2, <2>3 DEF Among
<1>3. ASSUME Single(r, seq), r = line => ~Among(r, seq),
             NEW i \in DOMAIN longer, NEW j \in DOMAIN longer,
             longer[i] = r, longer[j] = r
      PROVE  i = j
  BY <1>1, <1>3 DEF Single, Among
<1> QED
  BY <1>2, <1>3 DEF Single, longer

LEMMA RemoveAmong ==
  ASSUME NEW S, NEW seq \in Seq(S), NEW at \in DOMAIN seq, NEW r
  PROVE  /\ RemoveAt(seq, at) \in Seq(S) /\ Len(RemoveAt(seq, at)) = Len(seq) - 1
         /\ Among(r, seq) <=> Among(r, RemoveAt(seq, at)) \/ r = seq[at]
         /\ Single(r, seq) => /\ Single(r, RemoveAt(seq, at))
                              /\ r = seq[at] => ~Among(r, RemoveAt(seq, at))
<1> DEFINE left == RemoveAt(seq, at)
           before == SubSeq(seq, 1, at - 1)
           after == SubSeq(seq, at + 1, Len(seq))
           Old(i) == IF i < at THEN i ELSE i + 1
<1>1. Len(seq) \in Nat /\ DOMAIN seq = 1..Len(seq) /\ at \in 1..Len(seq)
  BY LenProperties
<1>2. /\ before \in Seq(S) /\ Len(before) = at - 1
      /\ \A i \in 1..(at - 1) : before[i] = seq[i]
  BY <1>1, SubSeqProperties
<1>3. /\ after \in Seq(S) /\ Len(after) = Len(seq) - at
      /\ \A i \in 1..(Len(seq) - at) : after[i] = seq[at + i]
  BY <1>1, SubSeqProperties
<1>4. left = before \o after
  BY DEF RemoveAt
<1> HIDE DEF before, after, left
<1>5. /\ left \in Seq(S) /\ Len(left) = Len(seq) - 1 /\ DOMAIN left = 1..(Len(seq) - 1)
      /\ \A i \in 1..(Len(seq) - 1) :
           left[i] = IF i <= at - 1 THEN before[i] ELSE after[i - (at - 1)]
  <2>1. /\ left \in Seq(S) /\ Len(left) = Len(before) + Len(after)
        /\ \A i \in 1..(Len(before) + Len(after)) :
             left[i] = IF i <= Len(before) THEN before[i] ELSE after[i - Len(before)]
    BY <1>2, <1>3, <1>4, ConcatProperties
  <2>2. Len(before) + Len(after) = Len(seq) - 1
    BY <1>1, <1>2, <1>3
  <2>3. DOMAIN left = 1..Len(left)
    BY <2>1, LenProperties
  <2> QED
    BY <1>2, <2>1, <2>2, <2>3
<1>6. \A i \in DOMAIN left : /\ Old(i) \in DOMAIN seq /\ Old(i) # at
                             /\ left[i] = seq[Old(i)]
  <2> TAKE i \in DOMAIN left
  <2>1. CASE i < at
    BY <1>1, <1>2, <1>5, <2>1
  <2>2. CASE i >= at
    <3>1. i - (at - 1) \in 1..(Len(seq) - at) /\ at + (i - (at - 1)) = i + 1
      BY <1>1, <1>5, <2>2
    <3>2. left[i] = after[i - (at - 1)]
      BY <1>1, <1>5, <2>2
    <3>3. left[i] = seq[i + 1]
      BY <1>3, <3>1, <3>2
    <3> QED
      BY <1>1, <1>5, <2>2, <3>3
  <2> QED
    BY <1>1, <1>5, <2>1, <2>2
<1>7. \A j \in DOMAIN seq : j # at => \E i \in DOMAIN left : Old(i) = j
  <2> TAKE j \in DOMAIN seq
  <2>1. CASE j < at
    BY <1>1, <1>5, <2>1
  <2>2. CASE j > at
    <3>1. j - 1 \in DOMAIN left /\ Old(j - 1) = j
      BY <1>1, <1>5, <2>2
    <3> QED
      BY <3>1
  <2> QED
    BY <1>1, <2>1, <2>2
<1>8. \A i, j \in DOMAIN left : Old(i) = Old(j) => i = j
  BY <1>1, <1>5
<1> HIDE DEF Old
<1>9. Among(r, seq) <=> Among(r, left) \/ r = seq[at]
  BY <1>6, <1>7 DEF Among
<1>10. ASSUME Single(r, seq)
       PROVE  Single(r, left) /\ (r = seq[at] => ~Among(r, left))
  BY <1>6, <1>8, <1>10 DEF Single, Among
<1> QED
  BY <1>5, <1>9, <1>10 DEF left

LEMMA TailAmong ==
  ASSUME NEW S, NEW seq \in Seq(S), seq # <<>>, NEW r
  PROVE  /\ Tail(seq) \in Seq(S) /\ Head(seq) \in S
         /\ Among(r, seq) <=> Among(r, Tail(seq)) \/ r = Head(seq)
         /\ Single(r, seq) => /\ Single(r, Tail(seq))
                              /\ r = Head(seq) => ~Among(r, Tail(seq))
<1> DEFINE left == Tail(seq)
<1>1. /\ Len(seq) \in Nat \ {0} /\ DOMAIN seq = 1..Len(seq) /\ Head(seq) = seq[1]
      /\ left \in Seq(S) /\ DOMAIN left = 1..(Len(seq) - 1)
      /\ \A i \in 1..(Len(seq) - 1) : left[i] = seq[i + 1]
  BY HeadTailProperties, LenProperties, EmptySeq
<1> HIDE DEF left
<1>2. \A i \in DOMAIN left : i + 1 \in DOMAIN seq /\ i + 1 # 1 /\ left[i] = seq[i + 1]
  BY <1>1
<1>3. 1 \in DOMAIN seq /\ \A j \in DOMAIN seq : j # 1 => j - 1 \in DOMAIN left /\ (j - 1) + 1 = j
  BY <1>1
<1>4. Head(seq) \in S
  BY <1>1
<1>5. Among(r, seq) <=> Among(r, left) \/ r = Head(seq)
  <2>1. ASSUME NEW j \in DOMAIN seq, seq[j] = r PROVE Among(r, left) \/ r = Head(seq)
    <3>1. CASE j = 1
      BY <1>1, <2>1, <3>1
    <3>2. CASE j # 1
      <4>1. j - 1 \in DOMAIN left /\ left[j - 1] = seq[j]
        BY <1>2, <1>3, <3>2
      <4> QED
        BY <2>1, <4>1 DEF Among
    <3> QED
      BY <3>1, <3>2
  <2>2. Among(r, left) => Among(r, seq)
    BY <1>2 DEF Among
  <2>3. r = Head(seq) => Among(r, seq)
    BY <1>1, <1>3 DEF Among
  <2> QED
    BY <2>1, <2>2, <2>3 DEF Among
<1>6. ASSUME Single(r, seq) PROVE Single(r, left) /\ (r = Head(seq) => ~Among(r, left))
  <2>1. \A i \in DOMAIN left, j \in DOMAIN left : i + 1 = j + 1 => i = j
    BY <1>1
  <2>2. Single(r, left)
    BY <1>2, <1>6, <2>1 DEF Single
  <2>3. r = Head(seq) => ~Among(r, left)
    BY <1>1, <1>2, <1>3, <1>6 DEF Single, Among
  <2> QED
    BY <2>2, <2>3
<1> QED
  BY <1>1, <1>4, <1>5, <1>6 DEF left

-----------------------------------------------------------------------------
(* The handlers. *)

\* The fields none of the above looks at.
Alike(s, t) ==
  /\ t.w = s.w /\ t.r.up = s.r.up /\ t.r.handshake = s.r.handshake
  /\ t.r.pending = s.r.pending /\ t.r.buffered = s.r.buffered
  /\ t.c.asked = s.c.asked /\ t.c.answers = s.c.answers

LEMMA AlikeSettles ==
  ASSUME NEW s, NEW t, Alike(s, t)
  PROVE  Settles(s, t, {}) /\ (Sound(s) => Sound(t))
<1>1. \A r : Has(t, r) <=> Has(s, r)
  BY DEF Alike, Has
<1>2. Settles(s, t, {})
  BY <1>1 DEF Alike, Settles
<1>3. Sound(s) => Sound(t)
  BY DEF Alike, Sound, WithWorker, Greeting
<1> QED
  BY <1>2, <1>3

LEMMA SettlesOn ==
  ASSUME NEW s, NEW t, NEW u, NEW hand, Settles(s, t, hand), Settles(t, u, {})
  PROVE  Settles(s, u, hand)
  BY DEF Settles

\* No worker, and nothing to see to.
Bare(s) ==
  /\ ~s.r.up /\ s.w = NoWorker /\ ~s.r.handshake
  /\ s.r.pending = {} /\ s.r.buffered = <<>>
LEMMA BareIsSound ==
  ASSUME NEW s, Bare(s)
  PROVE  Sound(s)
  BY DEF Bare, Sound, NoWorker, Among, Single, WithWorker
LEMMA SoundIsBare ==
  ASSUME NEW s, Sound(s), ~s.r.up
  PROVE  Bare(s)
  BY DEF Bare, Sound

LEMMA NoWorkerTyped ==
  ASSUME installed \in Nat
  PROVE  NoWorker \in Workers
  BY DEF NoWorker, Workers

LEMMA AnswerDoes ==
  ASSUME NEW s \in State, NEW set
  PROVE  /\ Answer(s, set) \in State /\ Answer(s, set).r = s.r /\ Answer(s, set).w = s.w
         /\ Answer(s, set).c.asked = s.c.asked
         /\ \A r \in 1..MaxCalls :
              Answer(s, set).c.answers[r] = s.c.answers[r] + IF r \in set THEN 1 ELSE 0
<1> DEFINE counts == [r \in 1..MaxCalls |-> s.c.answers[r] + IF r \in set THEN 1 ELSE 0]
           listing == s.c.listing /\ List \notin set
<1>1. /\ counts \in [1..MaxCalls -> Nat] /\ listing \in BOOLEAN
      /\ \A r \in 1..MaxCalls : counts[r] = s.c.answers[r] + IF r \in set THEN 1 ELSE 0
  <2>1. s.c.answers \in [1..MaxCalls -> Nat] /\ s.c.listing \in BOOLEAN
    BY DEF State, Clients
  <2>2. \A r \in 1..MaxCalls : s.c.answers[r] + (IF r \in set THEN 1 ELSE 0) \in Nat
    <3>1. \A r \in 1..MaxCalls : s.c.answers[r] \in Nat
      BY <2>1
    <3>2. \A n \in Nat : \A r : n + (IF r \in set THEN 1 ELSE 0) \in Nat
      OBVIOUS
    <3> QED
      BY <3>1, <3>2
  <2>3. listing \in BOOLEAN
    BY <2>1, Zenon
  <2> QED
    BY <2>2, <2>3
<1>2. Answer(s, set) = [s EXCEPT !.c.answers = counts, !.c.listing = listing]
  BY DEF Answer
<1> HIDE DEF counts, listing
<1>3. Answer(s, set) = [s EXCEPT !.c = [s.c EXCEPT !.answers = counts, !.listing = listing]]
  BY <1>2 DEF State, Clients
<1>4. [s.c EXCEPT !.answers = counts, !.listing = listing] \in Clients
  BY <1>1 DEF State, Clients
<1> QED
  BY <1>1, <1>3, <1>4 DEF State, Clients

LEMMA ShowDoes ==
  ASSUME NEW s \in State, NEW set, NEW tools \in 0..installed
  PROVE  /\ Show(s, set, tools) \in State
         /\ Show(s, set, tools).r = s.r /\ Show(s, set, tools).w = s.w
         /\ Show(s, set, tools).c.asked = s.c.asked
         /\ \A r \in 1..MaxCalls :
              Show(s, set, tools).c.answers[r] = s.c.answers[r] + IF r \in set THEN 1 ELSE 0
<1> DEFINE t == Answer(s, set)
<1>1. /\ t \in State /\ t.r = s.r /\ t.w = s.w /\ t.c.asked = s.c.asked
      /\ \A r \in 1..MaxCalls : t.c.answers[r] = s.c.answers[r] + IF r \in set THEN 1 ELSE 0
  BY AnswerDoes
<1>2. Show(s, set, tools) = t \/ Show(s, set, tools) = [t EXCEPT !.c.view = tools]
  BY DEF Show
<1> HIDE DEF t
<1> QED
  BY <1>1, <1>2 DEF State, Clients

LEMMA ToolsChangedDoes ==
  ASSUME NEW s \in State
  PROVE  ToolsChanged(s) \in State /\ Alike(s, ToolsChanged(s))
         /\ ToolsChanged(s).r.row = s.r.row
<1>1. CASE ~s.r.ready
  BY <1>1 DEF ToolsChanged, Alike
<1>2. CASE s.r.ready
  <2> DEFINE t == [s EXCEPT !.r.announced = s.r.up /\ ~s.r.handshake, !.c.stale = TRUE]
  <2>1. (s.r.up /\ ~s.r.handshake) \in BOOLEAN
    BY DEF State, Relays
  <2>2. t \in State /\ Alike(s, t) /\ t.r.row = s.r.row
    BY <2>1 DEF State, Relays, Clients, Alike
  <2> QED
    BY <1>2, <2>2 DEF ToolsChanged
<1> QED
  BY <1>1, <1>2

LEMMA BackOffDoes ==
  ASSUME NEW s \in State
  PROVE  BackOff(s) \in State /\ Alike(s, BackOff(s)) /\ BackOff(s).r.row = s.r.row
<1>1. Longer(s) \in 0..MaxBackoff
  BY RelayAssumption DEF Longer, Least, State, Relays
<1> QED
  BY <1>1 DEF BackOff, State, Relays, Alike

\* Whoever waits for the worker is told that it is gone.
LEMMA DropDoes ==
  ASSUME installed \in Nat, NEW s \in State,
         \A r \in 1..MaxCalls : ~(r \in s.r.pending /\ Among(r, s.r.buffered))
  PROVE  /\ Drop(s) \in State /\ Bare(Drop(s)) /\ Settles(s, Drop(s), {})
<1> DEFINE t == Stop(s)
           u == Answer(t, s.r.pending)
           v == [u EXCEPT !.r.pending = {}, !.r.buffered = <<>>]
<1>1. /\ t \in State /\ ~t.r.up /\ t.w = NoWorker /\ ~t.r.handshake /\ t.c = s.c
  BY NoWorkerTyped DEF Stop, State, Relays
<1>2. /\ u \in State /\ u.r = t.r /\ u.w = t.w /\ u.c.asked = t.c.asked
      /\ \A r \in 1..MaxCalls :
           u.c.answers[r] = t.c.answers[r] + IF r \in s.r.pending THEN 1 ELSE 0
  <2> HIDE DEF t
  <2> QED
    BY <1>1, AnswerDoes
<1>3. v \in State /\ Bare(v) /\ v.c = u.c
  <2> HIDE DEF t, u
  <2>1. {} \in SUBSET Requests /\ <<>> \in Seq(Requests)
    BY EmptySeq
  <2> QED
    BY <1>1, <1>2, <2>1 DEF State, Relays, Bare
<1>4. Drop(s) = AnswerIdle(v, ToSet(s.r.buffered))
  BY DEF Drop
<1>5. /\ Drop(s) \in State /\ Drop(s).r = v.r /\ Drop(s).w = v.w
      /\ Drop(s).c.asked = v.c.asked
      /\ \A r \in 1..MaxCalls : Drop(s).c.answers[r]
           = v.c.answers[r] + IF r \in ToSet(s.r.buffered) THEN 1 ELSE 0
  <2> HIDE DEF v
  <2>1. 0 \in 0..installed
    OBVIOUS
  <2> QED
    BY <1>3, <1>4, <2>1, ShowDoes DEF AnswerIdle
<1>6. Bare(Drop(s))
  <2> HIDE DEF v
  <2> QED
    BY <1>3, <1>5 DEF Bare
<1>7. \A r \in 1..MaxCalls : /\ r \in ToSet(s.r.buffered) <=> Among(r, s.r.buffered)
                             /\ s.c.answers[r] \in Nat
  BY DEF ToSet, Among, State, Clients
<1>8. \A r \in 1..MaxCalls : ~Has(Drop(s), r)
  BY <1>6 DEF Bare, Has, Among
<1>9. Settles(s, Drop(s), {})
  <2> HIDE DEF t, u, v
  <2>1. \A r \in 1..MaxCalls :
          Drop(s).c.answers[r] = s.c.answers[r] + IF Has(s, r) THEN 1 ELSE 0
    BY <1>1, <1>2, <1>3, <1>5, <1>7 DEF Has
  <2>2. Drop(s).c.asked = s.c.asked
    BY <1>1, <1>2, <1>3, <1>5
  <2> QED
    BY <1>7, <1>8, <2>1, <2>2 DEF Settles
<1> QED
  BY <1>5, <1>6, <1>9

LEMMA DroppedDoes ==
  ASSUME installed \in Nat, NEW s \in State,
         \A r \in 1..MaxCalls : ~(r \in s.r.pending /\ Among(r, s.r.buffered))
  PROVE  /\ Dropped(s) \in State /\ Bare(Dropped(s)) /\ Settles(s, Dropped(s), {})
<1> DEFINE t == Drop(s)
<1>1. t \in State /\ Bare(t) /\ Settles(s, t, {})
  BY DropDoes
<1>2. Dropped(s) = t \/ Dropped(s) = ToolsChanged(t)
  BY DEF Dropped
<1> HIDE DEF t
<1>3. ToolsChanged(t) \in State /\ Alike(t, ToolsChanged(t))
  BY <1>1, ToolsChangedDoes
<1>4. Bare(ToolsChanged(t)) /\ Settles(t, ToolsChanged(t), {})
  BY <1>1, <1>3, AlikeSettles DEF Alike, Bare
<1>5. Settles(s, ToolsChanged(t), {})
  BY <1>1, <1>4, SettlesOn
<1> QED
  BY <1>1, <1>2, <1>3, <1>4, <1>5

LEMMA WorkerGoneDoes ==
  ASSUME installed \in Nat, NEW s \in State,
         \A r \in 1..MaxCalls : ~(r \in s.r.pending /\ Among(r, s.r.buffered))
  PROVE  /\ WorkerGone(s) \in State /\ Bare(WorkerGone(s))
         /\ Settles(s, WorkerGone(s), {})
<1> DEFINE t == BackOff(s)
<1>1. t \in State /\ Alike(s, t)
  BY BackOffDoes
<1>2. WorkerGone(s) = Dropped(t)
  BY DEF WorkerGone
<1> HIDE DEF t
<1>3. \A r \in 1..MaxCalls : ~(r \in t.r.pending /\ Among(r, t.r.buffered))
  BY <1>1 DEF Alike
<1>4. Dropped(t) \in State /\ Bare(Dropped(t)) /\ Settles(t, Dropped(t), {})
  BY <1>1, <1>3, DroppedDoes
<1>5. Settles(s, t, {})
  BY <1>1, AlikeSettles
<1> QED
  BY <1>2, <1>4, <1>5, SettlesOn

LEMMA StartsDoes ==
  ASSUME installed \in Nat, NEW s \in State, Bare(s), NEW id \in Rows \cup {NoRow}, NEW how
  PROVE  /\ Starts(s, id, how) \in State /\ Sound(Starts(s, id, how))
         /\ Settles(s, Starts(s, id, how), {})
<1>1. CASE how = "refused"
  <2>1. Starts(s, id, how) = BackOff(s)
    BY <1>1 DEF Starts
  <2> QED
    BY <2>1, BackOffDoes, AlikeSettles, BareIsSound
<1>2. CASE how # "refused"
  <2> DEFINE new == [alive |-> TRUE, version |-> installed, in |-> <<Hello>>, out |-> <<>>]
             t == [s EXCEPT !.r.up = TRUE, !.r.row = id, !.r.upgrade = FALSE,
                            !.r.handshake = TRUE, !.w = new]
  <2>1. new \in Workers
    <3>1. Hello \in Lines
      BY DEF Lines
    <3>2. <<Hello>> \in Seq(Lines) /\ <<>> \in Seq(Lines)
      BY <3>1, EmptySeq
    <3> QED
      BY <3>2 DEF Workers
  <2>2. new.in = <<Hello>> /\ new.out = <<>> /\ new.alive
    OBVIOUS
  <2>3. /\ t \in State /\ t.r.up /\ t.r.handshake /\ t.w = new /\ t.c = s.c
        /\ t.r.pending = {} /\ t.r.buffered = <<>>
    <3> HIDE DEF new
    <3> QED
      BY <2>1 DEF Bare, State, Relays
  <2>4. Starts(s, id, how) = IF how = "gone" THEN WorkerGone(t) ELSE t
    BY <1>2 DEF Starts
  <2> HIDE DEF t, new
  <2>5. Sound(t)
    <3>1. ASSUME NEW r \in 1..MaxCalls
          PROVE  ~Among(r, t.w.in) /\ ~Among(r, t.w.out) /\ Single(r, t.w.in)
                 /\ Single(r, t.w.out) /\ Single(r, t.r.buffered)
      <4>1. r # Hello
        BY RelayAssumption DEF Hello
      <4> QED
        BY <2>2, <2>3, <4>1 DEF Among, Single
    <3> QED
      BY <2>2, <2>3, <3>1 DEF Sound, Greeting, WithWorker
  <2>6. Settles(s, t, {})
    BY <2>3 DEF Settles, Has, Bare
  <2>7. /\ WorkerGone(t) \in State /\ Sound(WorkerGone(t))
        /\ Settles(t, WorkerGone(t), {})
    BY <2>3, WorkerGoneDoes, BareIsSound
  <2>8. Settles(s, WorkerGone(t), {})
    BY <2>6, <2>7, SettlesOn
  <2> QED
    BY <2>3, <2>4, <2>5, <2>6, <2>7, <2>8
<1> QED
  BY <1>1, <1>2

LEMMA SoundApart ==
  ASSUME NEW s, Sound(s), NEW r
  PROVE  ~(r \in s.r.pending /\ Among(r, s.r.buffered))
  BY DEF Sound, Among

LEMMA RestartDoes ==
  ASSUME installed \in Nat, NEW s \in State, Sound(s), NEW how
  PROVE  /\ Restart(s, how) \in State /\ Sound(Restart(s, how))
         /\ Settles(s, Restart(s, how), {})
<1> DEFINE d == Drop(s)
           t == Starts(d, s.r.row, how)
<1>1. d \in State /\ Bare(d) /\ Settles(s, d, {})
  BY DropDoes, SoundApart
<1>2. s.r.row \in Rows \cup {NoRow}
  BY DEF State, Relays
<1>3. t \in State /\ Sound(t) /\ Settles(d, t, {})
  <2> HIDE DEF d
  <2> QED
    BY <1>1, <1>2, StartsDoes
<1>4. Restart(s, how) = t \/ Restart(s, how) = ToolsChanged(t)
  BY DEF Restart
<1> HIDE DEF d, t
<1>5. Settles(s, t, {})
  BY <1>1, <1>3, SettlesOn
<1>6. /\ ToolsChanged(t) \in State /\ Sound(ToolsChanged(t))
      /\ Settles(t, ToolsChanged(t), {})
  BY <1>3, ToolsChangedDoes, AlikeSettles
<1>7. Settles(s, ToolsChanged(t), {})
  BY <1>5, <1>6, SettlesOn
<1> QED
  BY <1>3, <1>4, <1>5, <1>6, <1>7

LEMMA ForwardDoes ==
  ASSUME installed \in Nat, NEW s \in State, Sound(s), s.r.up, ~s.r.handshake,
         NEW r \in Requests, r \in 1..MaxCalls => ~Has(s, r)
  PROVE  /\ Forward(s, r) \in State /\ Sound(Forward(s, r))
         /\ Settles(s, Forward(s, r), {r})
<1> DEFINE t == [s EXCEPT !.r.pending = @ \cup {r}]
           u == [t EXCEPT !.w.in = Append(@, r)]
<1>1. /\ t \in State /\ t.w = s.w /\ t.c = s.c /\ t.r.pending = s.r.pending \cup {r}
      /\ t.r.buffered = s.r.buffered /\ t.r.up /\ ~t.r.handshake
  BY DEF State, Relays
<1>2. s.r.buffered = <<>>
  BY DEF Sound
<1>3. Settles(s, t, {r})
  BY <1>1, <1>2 DEF Settles, Has, Among
<1>4. Forward(s, r) = IF t.w.alive THEN u ELSE WorkerGone(t)
  BY DEF Forward
<1>5. ASSUME t.w.alive
      PROVE  u \in State /\ Sound(u) /\ Settles(t, u, {})
  <2>1. s.w.in \in Seq(Lines) /\ r \in Lines /\ r # Hello
    BY RelayAssumption DEF State, Workers, Lines, Requests, Hello
  <2>2. Append(s.w.in, r) \in Seq(Lines)
    BY <2>1, AppendProperties
  <2>3. /\ u \in State /\ u.w.in = Append(s.w.in, r) /\ u.w.out = s.w.out /\ u.r = t.r
        /\ u.c = t.c
    <3> HIDE DEF t
    <3> QED
      BY <1>1, <2>2 DEF State, Workers
  <2> HIDE DEF t, u
  <2>4. ~Among(Hello, u.w.in) /\ ~Among(Hello, u.w.out)
    <3>1. ~Among(Hello, s.w.in) /\ ~Among(Hello, s.w.out)
      BY DEF Sound
    <3> QED
      BY <2>1, <2>3, <3>1, AppendAmong
  <2>5. ASSUME NEW q \in 1..MaxCalls PROVE Single(q, u.r.buffered) /\ WithWorker(u, q)
    <3>1. WithWorker(s, q)
      BY DEF Sound
    <3>2. q = r => ~Among(q, s.w.in) /\ ~Among(q, s.w.out)
      BY <3>1 DEF WithWorker, Has
    <3>3. /\ Among(q, u.w.in) <=> Among(q, s.w.in) \/ q = r
          /\ Single(q, s.w.in) => Single(q, u.w.in)
      BY <2>1, <2>3, <3>2, AppendAmong
    <3>4. q \in u.r.pending <=> q \in s.r.pending \/ q = r
      BY <1>1, <2>3
    <3>5. WithWorker(u, q)
      <4>1. CASE q = r
        BY <2>3, <3>1, <3>2, <3>3, <3>4, <4>1 DEF WithWorker
      <4>2. CASE q # r
        <5>1. u.w.alive => s.w.alive
          BY <1>1, <1>5
        <5> QED
          BY <2>3, <3>1, <3>3, <3>4, <4>2, <5>1 DEF WithWorker
      <4> QED
        BY <4>1, <4>2
    <3>6. Single(q, u.r.buffered)
      BY <1>1, <1>2, <2>3 DEF Single
    <3> QED
      BY <3>5, <3>6
  <2>6. Sound(u)
    BY <1>1, <1>2, <2>3, <2>4, <2>5 DEF Sound
  <2>7. Settles(t, u, {})
    BY <2>3 DEF Settles, Has
  <2> QED
    BY <2>3, <2>6, <2>7
<1>6. /\ WorkerGone(t) \in State /\ Sound(WorkerGone(t)) /\ Settles(t, WorkerGone(t), {})
  <2> HIDE DEF t
  <2>1. \A q \in 1..MaxCalls : ~(q \in t.r.pending /\ Among(q, t.r.buffered))
    BY <1>1, <1>2 DEF Among
  <2> QED
    BY <1>1, <2>1, WorkerGoneDoes, BareIsSound
<1> HIDE DEF t, u
<1>7. /\ t.w.alive => Settles(s, u, {r})
      /\ Settles(s, WorkerGone(t), {r})
  BY <1>3, <1>5, <1>6, SettlesOn
<1> QED
  BY <1>4, <1>5, <1>6, <1>7

LEMMA CheckDoes ==
  ASSUME installed \in Nat, row \in Rows \cup {NoRow}, NEW s \in State, Sound(s), NEW how
  PROVE  /\ Check(s, how) \in State /\ Sound(Check(s, how))
         /\ Settles(s, Check(s, how), {})
<1> DEFINE left == s.r.up /\ (row = NoRow \/ row # s.r.row)
           newer == s.r.up /\ ~left /\ s.w.version # installed
           marked == [s EXCEPT !.r.upgrade = TRUE]
           t == IF left THEN Dropped(s) ELSE s
           rested == [t EXCEPT !.r.wait = 0, !.r.backoff = 0]
           waited == [t EXCEPT !.r.wait = @ - 1]
<1>1. Check(s, how) =
        IF newer THEN IF s.r.pending = {} /\ ~s.r.handshake
                      THEN Restart(marked, how) ELSE marked
        ELSE IF t.r.up THEN t ELSE IF row = NoRow THEN rested
        ELSE IF t.r.wait > 0 THEN waited ELSE Starts(t, row, how)
  BY DEF Check
<1>2. marked \in State /\ Alike(s, marked)
  BY DEF State, Relays, Alike
<1>3. t \in State /\ Sound(t) /\ Settles(s, t, {})
  <2>1. /\ Dropped(s) \in State /\ Sound(Dropped(s)) /\ Settles(s, Dropped(s), {})
    BY DroppedDoes, SoundApart, BareIsSound
  <2>2. Settles(s, s, {})
    BY AlikeSettles DEF Alike
  <2> QED
    BY <2>1, <2>2
<1> HIDE DEF left, newer, t
<1>4. rested \in State /\ Alike(t, rested)
  <2>1. 0 \in 0..MaxBackoff
    BY RelayAssumption
  <2> QED
    BY <1>3, <2>1 DEF State, Relays, Alike
<1>5. t.r.wait > 0 => waited \in State /\ Alike(t, waited)
  <2> SUFFICES ASSUME t.r.wait > 0 PROVE waited \in State /\ Alike(t, waited)
    OBVIOUS
  <2>1. t.r.wait - 1 \in 0..MaxBackoff
    BY <1>3, RelayAssumption DEF State, Relays
  <2> QED
    BY <1>3, <2>1 DEF State, Relays, Alike
<1> HIDE DEF marked, rested, waited
<1>6. Sound(marked) /\ Settles(s, marked, {})
  BY <1>2, AlikeSettles
<1>7. /\ Restart(marked, how) \in State /\ Sound(Restart(marked, how))
      /\ Settles(s, Restart(marked, how), {})
  BY <1>2, <1>6, RestartDoes, SettlesOn
<1>8. Sound(rested) /\ Settles(s, rested, {})
  BY <1>3, <1>4, AlikeSettles, SettlesOn
<1>9. t.r.wait > 0 => Sound(waited) /\ Settles(s, waited, {})
  BY <1>3, <1>5, AlikeSettles, SettlesOn
<1>10. ~t.r.up => /\ Starts(t, row, how) \in State /\ Sound(Starts(t, row, how))
                  /\ Settles(s, Starts(t, row, how), {})
  BY <1>3, SoundIsBare, StartsDoes, SettlesOn
<1> QED
  BY <1>1, <1>2, <1>3, <1>4, <1>5, <1>6, <1>7, <1>8, <1>9, <1>10

\* A line of the client: a request the relay does not have yet, or its `initialized'.
LEMMA FromClientDoes ==
  ASSUME installed \in Nat, row \in Rows \cup {NoRow}, NEW s \in State, Sound(s),
         NEW line \in Requests \cup {Ready}, line \in 1..MaxCalls => ~Has(s, line), NEW how
  PROVE  /\ FromClient(s, line, how) \in State /\ Sound(FromClient(s, line, how))
         /\ Settles(s, FromClient(s, line, how), {line})
<1>1. CASE line = Ready
  <2> DEFINE t == [s EXCEPT !.r.ready = TRUE]
  <2>1. t \in State /\ Alike(s, t) /\ FromClient(s, line, how) = Check(t, how)
    BY <1>1 DEF FromClient, State, Relays, Alike
  <2> HIDE DEF t
  <2>2. Sound(t) /\ Settles(s, t, {})
    BY <2>1, AlikeSettles
  <2>3. /\ Check(t, how) \in State /\ Sound(Check(t, how)) /\ Settles(t, Check(t, how), {})
    BY <2>1, <2>2, CheckDoes
  <2>4. Settles(s, Check(t, how), {})
    BY <2>2, <2>3, SettlesOn
  <2>5. line \notin 1..MaxCalls
    BY <1>1, RelayAssumption DEF Ready
  <2> QED
    BY <2>1, <2>3, <2>4, <2>5 DEF Settles
<1>2. CASE line # Ready /\ ~s.r.up
  <2>1. FromClient(s, line, how) = Show(s, {line}, 0)
    BY <1>2 DEF FromClient, AnswerIdle
  <2> DEFINE t == Show(s, {line}, 0)
  <2>2. /\ t \in State /\ t.r = s.r /\ t.w = s.w /\ t.c.asked = s.c.asked
        /\ \A r \in 1..MaxCalls :
             t.c.answers[r] = s.c.answers[r] + IF r \in {line} THEN 1 ELSE 0
    <3>1. 0 \in 0..installed
      OBVIOUS
    <3> QED
      BY <3>1, ShowDoes
  <2> HIDE DEF t
  <2>3. Bare(t)
    BY <1>2, <2>2, SoundIsBare DEF Bare
  <2>4. \A r \in 1..MaxCalls : ~Has(t, r) /\ ~Has(s, r)
    BY <2>2, <2>3 DEF Bare, Has, Among
  <2>5. \A r \in 1..MaxCalls : s.c.answers[r] \in Nat
    BY DEF State, Clients
  <2>6. Settles(s, t, {line})
    BY <2>2, <2>4, <2>5 DEF Settles
  <2> QED
    BY <2>1, <2>2, <2>3, <2>6, BareIsSound DEF t
<1>3. CASE line # Ready /\ s.r.up /\ s.r.handshake
  <2> DEFINE longer == Append(s.r.buffered, line)
             t == [s EXCEPT !.r.buffered = longer]
  <2>1. FromClient(s, line, how) = t
    BY <1>3 DEF FromClient, Buffers
  <2>2. longer \in Seq(Requests) /\ s.r.buffered \in Seq(Requests) /\ line \in Requests
    BY <1>3, AppendProperties DEF State, Relays
  <2>3. /\ \A r : Among(r, longer) <=> Among(r, s.r.buffered) \/ r = line
        /\ \A r \in 1..MaxCalls : Single(r, longer)
    <3>1. \A r \in 1..MaxCalls : Single(r, s.r.buffered)
      BY DEF Sound
    <3>2. line \in 1..MaxCalls => ~Among(line, s.r.buffered)
      BY DEF Has
    <3> QED
      BY <2>2, <3>1, <3>2, AppendAmong
  <2> HIDE DEF longer
  <2>4. /\ t \in State /\ t.r.buffered = longer /\ t.w = s.w /\ t.c = s.c
        /\ t.r.pending = s.r.pending /\ t.r.up = s.r.up /\ t.r.handshake = s.r.handshake
    BY <2>2 DEF State, Relays
  <2> HIDE DEF t
  <2>5. Sound(t)
    BY <1>3, <2>3, <2>4 DEF Sound, Greeting, WithWorker
  <2>6. Settles(s, t, {line})
    BY <2>3, <2>4 DEF Settles, Has
  <2> QED
    BY <2>1, <2>4, <2>5, <2>6
<1>4. CASE line # Ready /\ s.r.up /\ ~s.r.handshake
  <2>1. FromClient(s, line, how) = Forward(s, line)
    BY <1>4 DEF FromClient, Buffers
  <2> QED
    BY <1>4, <2>1, ForwardDoes
<1> QED
  BY <1>1, <1>2, <1>3, <1>4

\* The worker's answer to the handshake: what waited for it goes through.
LEMMA HandshakenDoes ==
  ASSUME installed \in Nat, NEW s \in State, s.r.up, s.r.pending = {},
         s.w.in = <<>>, s.w.out = <<>>, \A r \in 1..MaxCalls : Single(r, s.r.buffered)
  PROVE  /\ Handshaken(s) \in State /\ Sound(Handshaken(s))
         /\ Settles(s, Handshaken(s), {})
<1> DEFINE t == [s EXCEPT !.r.handshake = FALSE, !.r.wait = 0, !.r.backoff = 0]
           b == s.r.buffered
           a == ToolsChanged(t)
           u == [a EXCEPT !.r.buffered = <<>>, !.r.pending = @ \cup ToSet(b),
                          !.w.in = @ \o b]
<1>1. Handshaken(s) = IF ~t.w.alive THEN WorkerGone(t) ELSE u
  BY DEF Handshaken
<1>2. /\ t \in State /\ t.r.up /\ ~t.r.handshake /\ t.w = s.w /\ t.c = s.c
      /\ t.r.pending = {} /\ t.r.buffered = b
  <2>1. 0 \in 0..MaxBackoff
    BY RelayAssumption
  <2> QED
    BY <2>1 DEF State, Relays
<1> HIDE DEF t
<1>3. Settles(s, t, {})
  BY <1>2 DEF Settles, Has
<1>4. /\ WorkerGone(t) \in State /\ Sound(WorkerGone(t)) /\ Settles(t, WorkerGone(t), {})
  BY <1>2, WorkerGoneDoes, BareIsSound
<1>5. a \in State /\ Alike(t, a)
  BY <1>2, ToolsChangedDoes
<1>6. b \in Seq(Requests) /\ b \in Seq(Lines) /\ a.w.in \o b = b
  <2>1. b \in Seq(Requests)
    BY DEF State, Relays
  <2>2. b \in Seq(Lines)
    BY <2>1, SeqMonotonic DEF Lines
  <2>3. a.w.in = <<>>
    BY <1>2, <1>5 DEF Alike
  <2> QED
    BY <2>1, <2>2, <2>3, ConcatEmptySeq
<1>7. /\ \A r : r \in ToSet(b) <=> Among(r, b)
      /\ ToSet(b) \in SUBSET Requests
  <2>1. \A i \in DOMAIN b : b[i] \in Requests
    BY <1>6
  <2> QED
    BY <2>1 DEF ToSet, Among
<1>8. /\ u \in State /\ u.r.up /\ ~u.r.handshake /\ u.r.buffered = <<>>
      /\ u.r.pending = ToSet(b) /\ u.w.in = b /\ u.w.out = <<>> /\ u.c = a.c
  <2> HIDE DEF a
  <2>1. a.r.pending = {} /\ a.r.up /\ ~a.r.handshake /\ a.w.out = <<>>
    BY <1>2, <1>5 DEF Alike
  <2>2. a.r.pending \cup ToSet(b) \in SUBSET Requests /\ <<>> \in Seq(Requests)
    BY <1>7, <2>1, EmptySeq
  <2> HIDE DEF b
  <2> QED
    BY <1>5, <1>6, <1>7, <2>1, <2>2 DEF State, Relays, Workers
<1> HIDE DEF a, u
<1>9. Sound(u)
  <2>1. ~Among(Hello, u.w.in) /\ ~Among(Hello, u.w.out)
    <3>1. \A i \in DOMAIN b : b[i] # Hello
      BY <1>6, RelayAssumption DEF Requests, Hello
    <3> QED
      BY <1>8, <3>1 DEF Among
  <2>2. ASSUME NEW r \in 1..MaxCalls PROVE Single(r, u.r.buffered) /\ WithWorker(u, r)
    BY <1>7, <1>8 DEF Single, Among, WithWorker
  <2> QED
    BY <1>8, <2>1, <2>2 DEF Sound
<1>10. Settles(t, u, {})
  <2>1. \A r : Has(t, r) <=> Among(r, b)
    BY <1>2 DEF Has
  <2>2. \A r : Has(u, r) <=> Among(r, b)
    BY <1>7, <1>8 DEF Has, Among
  <2> QED
    BY <1>5, <1>8, <2>1, <2>2 DEF Settles, Alike
<1> QED
  BY <1>1, <1>3, <1>4, <1>8, <1>9, <1>10, SettlesOn

\* A line of the worker's: its answer to the handshake, or to a call it has.
LEMMA FromWorkerDoes ==
  ASSUME installed \in Nat, NEW s \in State, Sound(s), s.r.up, s.w.out # <<>>, NEW how
  PROVE  LET t == FromWorker([s EXCEPT !.w.out = Tail(@)], Head(s.w.out), how)
         IN t \in State /\ Sound(t) /\ Settles(s, t, {})
<1> DEFINE line == Head(s.w.out)
           v == [s EXCEPT !.w.out = Tail(@)]
<1>1. /\ s.w.out \in Seq(Lines) /\ line \in Lines /\ Tail(s.w.out) \in Seq(Lines)
      /\ \A r : Among(r, s.w.out) <=> Among(r, Tail(s.w.out)) \/ r = line
      /\ \A r : Single(r, s.w.out) => /\ Single(r, Tail(s.w.out))
                                      /\ r = line => ~Among(r, Tail(s.w.out))
  <2>1. s.w.out \in Seq(Lines)
    BY DEF State, Workers
  <2> QED
    BY <2>1, TailAmong
<1>2. /\ v \in State /\ v.r = s.r /\ v.c = s.c /\ v.w.in = s.w.in /\ v.w.alive = s.w.alive
      /\ v.w.version = s.w.version /\ v.w.out = Tail(s.w.out)
  BY <1>1 DEF State, Workers
<1> HIDE DEF v, line
<1>3. CASE line = Hello
  <2>1. s.r.handshake
    BY <1>1, <1>3 DEF Sound
  <2>2. s.w.in = <<>> /\ s.w.out = <<Hello>> /\ s.r.pending = {}
    BY <2>1 DEF Sound, Greeting
  <2>3. Tail(s.w.out) = <<>>
    BY <2>2
  <2>4. \A r \in 1..MaxCalls : Single(r, s.r.buffered)
    BY DEF Sound
  <2>5. FromWorker(v, line, how) = Handshaken(v)
    BY <1>3 DEF FromWorker
  <2>6. /\ Handshaken(v) \in State /\ Sound(Handshaken(v)) /\ Settles(v, Handshaken(v), {})
    BY <1>2, <2>2, <2>3, <2>4, HandshakenDoes
  <2>7. Settles(s, Handshaken(v), {})
    BY <1>2, <2>6 DEF Settles, Has
  <2> QED
    BY <2>5, <2>6, <2>7 DEF v, line
<1>4. CASE line # Hello
  <2> DEFINE shown == Show(v, {line}, v.w.version)
             t == [shown EXCEPT !.r.pending = Owed(v, line)]
  <2>1. FromWorker(v, line, how) = IF t.r.upgrade /\ t.r.pending = {} THEN Restart(t, how)
                                   ELSE t
    BY <1>4 DEF FromWorker
  <2>2. ~s.r.handshake
    <3> SUFFICES ASSUME s.r.handshake PROVE FALSE
      OBVIOUS
    <3>1. s.w.out = <<Hello>>
      BY DEF Sound, Greeting
    <3> QED
      BY <1>4, <3>1 DEF line
  <2>3. s.r.buffered = <<>>
    BY <2>2 DEF Sound
  <2>4. /\ shown \in State /\ shown.r = s.r /\ shown.w = v.w /\ shown.c.asked = s.c.asked
        /\ \A r \in 1..MaxCalls :
             shown.c.answers[r] = s.c.answers[r] + IF r \in {line} THEN 1 ELSE 0
    <3>1. v.w.version \in 0..installed
      BY <1>2 DEF State, Workers
    <3> QED
      BY <1>2, <3>1, ShowDoes
  <2> HIDE DEF shown
  <2>5. /\ t \in State /\ t.r.up /\ ~t.r.handshake /\ t.w = v.w /\ t.c = shown.c
        /\ t.r.buffered = <<>> /\ t.r.pending = s.r.pending \ {line}
    <3>1. Owed(v, line) = s.r.pending \ {line} /\ s.r.pending \in SUBSET Requests
      BY <1>2 DEF Owed, State, Relays
    <3> QED
      BY <2>2, <2>3, <2>4, <3>1 DEF State, Relays
  <2> HIDE DEF t
  <2>6. ASSUME NEW r \in 1..MaxCalls PROVE Single(r, t.r.buffered) /\ WithWorker(t, r)
    <3>1. WithWorker(s, r)
      BY DEF Sound
    <3>2. Single(r, t.r.buffered)
      BY <2>5 DEF Single
    <3>3. /\ t.w.in = s.w.in /\ t.w.out = Tail(s.w.out) /\ t.w.alive = s.w.alive
          /\ r \in t.r.pending <=> r \in s.r.pending /\ r # line
      BY <1>2, <2>5
    <3>4. CASE r = line
      <4>1. ~Among(r, t.w.in) /\ ~Among(r, t.w.out)
        BY <1>1, <3>1, <3>3, <3>4 DEF WithWorker
      <4> QED
        BY <3>2, <3>3, <3>4, <4>1 DEF WithWorker, Single, Among
    <3>5. CASE r # line
      <4>1. Single(r, t.w.out) /\ (Among(r, t.w.out) <=> Among(r, s.w.out))
        BY <1>1, <3>1, <3>3, <3>5 DEF WithWorker
      <4> QED
        BY <3>1, <3>2, <3>3, <3>5, <4>1 DEF WithWorker
    <3> QED
      BY <3>4, <3>5
  <2>7. Sound(t)
    <3>1. ~Among(Hello, s.w.in) /\ ~Among(Hello, s.w.out)
      BY <2>2 DEF Sound
    <3>2. ~Among(Hello, t.w.in) /\ ~Among(Hello, t.w.out)
      BY <1>1, <1>2, <2>5, <3>1
    <3> QED
      BY <2>5, <2>6, <3>2 DEF Sound
  <2>8. Settles(s, t, {})
    <3>1. \A r : ~Among(r, <<>>)
      BY DEF Among
    <3>2. line \in 1..MaxCalls => line \in s.r.pending
      <4> SUFFICES ASSUME line \in 1..MaxCalls PROVE line \in s.r.pending
        OBVIOUS
      <4>1. WithWorker(s, line)
        BY DEF Sound
      <4> QED
        BY <1>1, <4>1 DEF WithWorker
    <3>3. \A r \in 1..MaxCalls : s.c.answers[r] \in Nat
      BY DEF State, Clients
    <3> QED
      BY <2>3, <2>4, <2>5, <3>1, <3>2, <3>3 DEF Settles, Has
  <2>9. /\ Restart(t, how) \in State /\ Sound(Restart(t, how))
        /\ Settles(s, Restart(t, how), {})
    BY <2>5, <2>7, <2>8, RestartDoes, SettlesOn
  <2> QED
    BY <2>1, <2>5, <2>7, <2>8, <2>9 DEF v, line
<1> QED
  BY <1>3, <1>4

-----------------------------------------------------------------------------
(* The steps. *)

\* Every call made is on its way in, with the relay or answered; and in no two of
\* these at once.
Ledger ==
  \A r \in 1..MaxCalls :
    /\ Single(r, input) /\ client.answers[r] \in {0, 1}
    /\ client.answers[r] = 1 => r <= client.asked
    /\ ~(Among(r, input) /\ Has(Now, r))
    /\ Among(r, input) \/ Has(Now, r) <=> r <= client.asked /\ client.answers[r] = 0
Budgets == [moves : Nat, installs : Nat, faults : Nat]
Around ==
  /\ budget \in Budgets
  /\ installed \in Nat \ {0} /\ installed + budget.installs = MaxInstalls + 1
  /\ input \in Seq(Requests \cup {Ready}) /\ row \in Rows \cup {NoRow}
RelayInv == Now \in State /\ Sound(Now) /\ Ledger /\ Around

LEMMA RelayInit == Init => RelayInv
<1> SUFFICES ASSUME Init PROVE RelayInv
  OBVIOUS
<1>1. /\ 0 \in 0..MaxBackoff /\ {} \in SUBSET Requests /\ <<>> \in Seq(Requests)
      /\ 0 \in 0..MaxCalls /\ 0 \in 0..installed /\ installed = 1 /\ installed \in Nat
      /\ Ready \notin 1..MaxCalls
  BY RelayAssumption, EmptySeq DEF Init, Ready
<1>2. relay \in Relays /\ client \in Clients /\ worker \in Workers
  <2>1. relay \in Relays
    BY <1>1 DEF Init, Relays
  <2>2. client \in Clients
    BY <1>1 DEF Init, Clients
  <2>3. worker \in Workers
    BY <1>1, NoWorkerTyped DEF Init
  <2> QED
    BY <2>1, <2>2, <2>3
<1>3. Now \in State
  BY <1>2 DEF Now, State
<1>4. Bare(Now)
  BY DEF Init, Now, Bare
<1>5. input = <<Ready>>
  BY DEF Init
<1>6. ASSUME NEW r \in 1..MaxCalls
      PROVE  /\ ~Among(r, input) /\ Single(r, input) /\ ~Has(Now, r)
             /\ client.answers[r] = 0 /\ ~(r <= client.asked)
  <2>1. ~Among(r, input) /\ Single(r, input)
    BY <1>1, <1>5 DEF Among, Single
  <2>2. ~Has(Now, r)
    BY <1>4 DEF Bare, Has, Among
  <2>3. client.answers[r] = 0 /\ client.asked = 0
    BY DEF Init
  <2> QED
    BY <2>1, <2>2, <2>3
<1>7. Ledger
  BY <1>6 DEF Ledger
<1>8. Around
  BY <1>1, <1>5, RelayAssumption DEF Init, Around, Budgets
<1> QED
  BY <1>3, <1>4, <1>7, <1>8, BareIsSound DEF RelayInv

\* A handler has run, with what it had in hand off the client's input.
LEMMA HandlerKeeps ==
  ASSUME RelayInv, NEW t \in State, Sound(t), Becomes(t), NEW hand, Settles(Now, t, hand),
         \/ input' = input /\ hand = {}
         \/ input # <<>> /\ input' = Tail(input) /\ hand = {Head(input)},
         UNCHANGED <<row, installed>>, budget' \in Budgets, budget'.installs = budget.installs
  PROVE  RelayInv'
<1>1. t = [r |-> relay', w |-> worker', c |-> client']
  BY DEF Becomes, State
<1>2. Now' = t /\ Now' \in State'
  BY <1>1 DEF Now, State, Workers, Clients
<1>3. Sound(Now)'
  BY <1>2 DEF Sound, WithWorker, Greeting
<1>4. input \in Seq(Requests \cup {Ready}) /\ input' \in Seq(Requests \cup {Ready})
  BY TailAmong DEF RelayInv, Around
<1>5. Around'
  BY <1>4 DEF RelayInv, Around
<1>6. ASSUME NEW r \in 1..MaxCalls
      PROVE  /\ Single(r, input)' /\ client'.answers[r] \in {0, 1}
             /\ client'.answers[r] = 1 => r <= client'.asked
             /\ ~(Among(r, input)' /\ Has(t, r))
             /\ Among(r, input)' \/ Has(t, r) <=> r <= client'.asked /\ client'.answers[r] = 0
  <2>1. /\ Single(r, input) /\ client.answers[r] \in {0, 1}
        /\ client.answers[r] = 1 => r <= client.asked
        /\ ~(Among(r, input) /\ Has(Now, r))
        /\ Among(r, input) \/ Has(Now, r) <=> r <= client.asked /\ client.answers[r] = 0
    BY DEF RelayInv, Ledger
  <2>2. /\ Single(r, input')
        /\ Among(r, input) <=> Among(r, input') \/ r \in hand
        /\ r \in hand => ~Among(r, input')
    <3>1. CASE input' = input /\ hand = {}
      BY <2>1, <3>1
    <3>2. CASE input # <<>> /\ input' = Tail(input) /\ hand = {Head(input)}
      <4>1. /\ Among(r, input) <=> Among(r, Tail(input)) \/ r = Head(input)
            /\ Single(r, Tail(input))
            /\ r = Head(input) => ~Among(r, Tail(input))
        BY <1>4, <2>1, <3>2, TailAmong
      <4> QED
        BY <3>2, <4>1
    <3> QED
      BY <3>1, <3>2
  <2>3. /\ client'.asked = client.asked
        /\ \/ /\ Has(Now, r) \/ r \in hand
              /\ ~Has(t, r) /\ client'.answers[r] = client.answers[r] + 1
           \/ /\ Has(Now, r) \/ r \in hand <=> Has(t, r)
              /\ client'.answers[r] = client.answers[r]
    BY <1>1 DEF Settles, Now
  <2>4. Single(r, input)' /\ (Among(r, input)' <=> Among(r, input'))
    BY <2>2 DEF Single, Among
  <2> QED
    BY <2>1, <2>2, <2>3, <2>4
<1>7. Ledger'
  <2>1. \A r : Has(Now, r)' <=> Has(t, r)
    BY <1>2 DEF Has
  <2> QED
    BY <1>6, <2>1 DEF Ledger
<1> QED
  BY <1>2, <1>3, <1>5, <1>7 DEF RelayInv

LEMMA SpentIsBudget ==
  ASSUME budget \in Budgets, NEW how \in Outcomes, Spend(how)
  PROVE  budget' \in Budgets /\ budget'.installs = budget.installs
<1>1. how # "up" => budget.faults > 0
  BY DEF Outcomes
<1>2. budget.faults - (IF how = "up" THEN 0 ELSE 1) \in Nat
  BY <1>1 DEF Budgets
<1>3. budget' = [budget EXCEPT !.faults = budget.faults - (IF how = "up" THEN 0 ELSE 1)]
  BY DEF Spend
<1> QED
  BY <1>2, <1>3 DEF Budgets

LEMMA LoopKeeps ==
  ASSUME RelayInv, ReadClient \/ ReadWorker \/ WorkerExited \/ Tick
  PROVE  RelayInv'
<1>1. /\ Now \in State /\ Sound(Now) /\ Ledger /\ installed \in Nat
      /\ row \in Rows \cup {NoRow} /\ input \in Seq(Requests \cup {Ready})
      /\ budget \in Budgets
      /\ Now.r = relay /\ Now.w = worker /\ Now.c = client
  BY DEF RelayInv, Around, Now
<1>2. CASE ReadClient
  <2>1. PICK how \in Outcomes :
          Becomes(FromClient(Now, Head(input), how)) /\ Spend(how)
    BY <1>2 DEF ReadClient
  <2>2. input # <<>> /\ input' = Tail(input) /\ UNCHANGED <<row, installed>>
    BY <1>2 DEF ReadClient
  <2>3. /\ Head(input) \in Requests \cup {Ready}
        /\ \A r : r = Head(input) => Among(r, input)
    BY <1>1, <2>2, TailAmong
  <2>4. Head(input) \in 1..MaxCalls => ~Has(Now, Head(input))
    BY <1>1, <2>3 DEF Ledger
  <2> DEFINE t == FromClient(Now, Head(input), how)
  <2>5. t \in State /\ Sound(t) /\ Settles(Now, t, {Head(input)})
    BY <1>1, <2>3, <2>4, FromClientDoes
  <2>6. budget' \in Budgets /\ budget'.installs = budget.installs
    BY <1>1, <2>1, SpentIsBudget
  <2>7. Becomes(t)
    BY <2>1
  <2> HIDE DEF t
  <2> QED
    BY <2>2, <2>5, <2>6, <2>7, HandlerKeeps
<1>3. CASE ReadWorker
  <2> DEFINE t(how) == FromWorker([Now EXCEPT !.w.out = Tail(@)], Head(Now.w.out), how)
  <2>1. PICK how \in Outcomes : Becomes(t(how)) /\ Spend(how)
    BY <1>1, <1>3 DEF ReadWorker
  <2>2. Now.r.up /\ Now.w.out # <<>> /\ UNCHANGED <<input, row, installed>>
    BY <1>1, <1>3 DEF ReadWorker
  <2>3. t(how) \in State /\ Sound(t(how)) /\ Settles(Now, t(how), {})
    BY <1>1, <2>2, FromWorkerDoes
  <2>4. budget' \in Budgets /\ budget'.installs = budget.installs
    BY <1>1, <2>1, SpentIsBudget
  <2> HIDE DEF t
  <2> QED
    BY <2>1, <2>2, <2>3, <2>4, HandlerKeeps
<1>4. CASE WorkerExited
  <2> DEFINE t == WorkerGone(Now)
  <2>1. t \in State /\ Sound(t) /\ Settles(Now, t, {})
    BY <1>1, WorkerGoneDoes, SoundApart, BareIsSound
  <2>2. Becomes(t) /\ UNCHANGED <<input, row, installed, budget>>
    BY <1>4 DEF WorkerExited
  <2> HIDE DEF t
  <2> QED
    BY <1>1, <2>1, <2>2, HandlerKeeps
<1>5. CASE Tick
  <2>1. PICK how \in Outcomes : Becomes(Check(Now, how)) /\ Spend(how)
    BY <1>5 DEF Tick
  <2> DEFINE t == Check(Now, how)
  <2>2. t \in State /\ Sound(t) /\ Settles(Now, t, {})
    BY <1>1, CheckDoes
  <2>3. budget' \in Budgets /\ budget'.installs = budget.installs
    BY <1>1, <2>1, SpentIsBudget
  <2>4. Becomes(t) /\ UNCHANGED <<input, row, installed>>
    BY <1>5, <2>1 DEF Tick
  <2> HIDE DEF t
  <2> QED
    BY <2>2, <2>3, <2>4, HandlerKeeps
<1> QED
  BY <1>2, <1>3, <1>4, <1>5

\* The client writes a line the relay has not seen.
LEMMA LineWritten ==
  ASSUME RelayInv, NEW line \in Requests, input' = Append(input, line),
         UNCHANGED <<relay, worker, row, installed, budget>>,
         client' \in Clients, client'.answers = client.answers,
         \/ line = List /\ client'.asked = client.asked
         \/ line = client.asked + 1 /\ client'.asked = line
  PROVE  RelayInv'
<1>1. /\ Now \in State /\ Sound(Now) /\ Ledger /\ Around
      /\ Now.r = relay /\ Now.w = worker /\ Now.c = client
      /\ Now.r' = relay /\ Now.w' = worker /\ Now.c' = client'
  BY DEF RelayInv, Now
<1>2. client.asked \in 0..MaxCalls /\ client'.asked \in 0..MaxCalls /\ MaxCalls \in Nat
  BY <1>1, RelayAssumption DEF State, Clients
<1>3. Now' \in State'
  BY <1>1 DEF Now, State, Workers, Clients
<1>4. Sound(Now)'
  BY <1>1 DEF Now, Sound, WithWorker, Greeting
<1>5. input' \in Seq(Requests \cup {Ready}) /\ input \in Seq(Requests \cup {Ready})
  BY <1>1, AppendProperties DEF Around
<1>6. ASSUME NEW r \in 1..MaxCalls
      PROVE  /\ Single(r, input)' /\ client'.answers[r] \in {0, 1}
             /\ client'.answers[r] = 1 => r <= client'.asked
             /\ ~(Among(r, input)' /\ Has(Now, r))
             /\ Among(r, input)' \/ Has(Now, r)
                  <=> r <= client'.asked /\ client'.answers[r] = 0
  <2>1. /\ Single(r, input) /\ client.answers[r] \in {0, 1}
        /\ client.answers[r] = 1 => r <= client.asked
        /\ ~(Among(r, input) /\ Has(Now, r))
        /\ Among(r, input) \/ Has(Now, r) <=> r <= client.asked /\ client.answers[r] = 0
    BY <1>1 DEF Ledger
  <2>2. r = line => r > client.asked /\ ~Among(r, input) /\ ~Has(Now, r)
    BY <1>2, <2>1 DEF List
  <2>3. r = line => client.answers[r] = 0
    BY <1>2, <2>1, <2>2
  <2>4. /\ Among(r, Append(input, line)) <=> Among(r, input) \/ r = line
        /\ Single(r, Append(input, line))
    BY <1>1, <2>1, <2>2, AppendAmong DEF Around
  <2>5. Single(r, input)' /\ (Among(r, input)' <=> Among(r, input) \/ r = line)
    BY <2>4 DEF Single, Among
  <2>6. r <= client'.asked <=> r <= client.asked \/ r = line
    BY <1>2 DEF List
  <2> QED
    BY <2>1, <2>2, <2>3, <2>5, <2>6
<1>7. Ledger'
  <2>1. \A r : Has(Now, r)' <=> Has(Now, r)
    BY <1>1 DEF Has
  <2> QED
    BY <1>6, <2>1 DEF Ledger
<1> QED
  BY <1>1, <1>3, <1>4, <1>5, <1>7 DEF RelayInv, Around

LEMMA ClientKeeps ==
  ASSUME RelayInv, ClientCalls \/ ClientLists
  PROVE  RelayInv'
<1>1. client \in Clients /\ MaxCalls \in Nat
  BY RelayAssumption DEF RelayInv, State, Now
<1>2. CASE ClientCalls
  <2>1. client.asked + 1 \in 0..MaxCalls
    BY <1>1, <1>2 DEF ClientCalls, Clients
  <2>2. /\ client' \in Clients /\ client'.asked = client.asked + 1
        /\ client'.answers = client.answers
    BY <1>1, <1>2, <2>1 DEF ClientCalls, Clients
  <2> QED
    BY <1>2, <2>1, <2>2, LineWritten DEF ClientCalls, Requests
<1>3. CASE ClientLists
  <2>1. /\ client' \in Clients /\ client'.asked = client.asked
        /\ client'.answers = client.answers
    BY <1>1, <1>3 DEF ClientLists, Clients
  <2>2. List \in Requests
    BY <1>1 DEF List, Requests
  <2> QED
    BY <1>3, <2>1, <2>2, LineWritten DEF ClientLists
<1> QED
  BY <1>2, <1>3

\* The worker moves, with the relay and the client as they are.
LEMMA WorkerKeeps ==
  ASSUME RelayInv, UNCHANGED <<relay, client, input, row, installed>>,
         worker' \in Workers, Sound([r |-> relay, w |-> worker', c |-> client]),
         budget' \in Budgets, budget'.installs = budget.installs
  PROVE  RelayInv'
<1>1. Now' = [r |-> relay, w |-> worker', c |-> client]
  BY DEF Now
<1>2. Now' \in State'
  BY DEF RelayInv, Now, State, Workers, Clients
<1>3. Sound(Now)'
  BY <1>1 DEF Sound, WithWorker, Greeting
<1>4. Ledger'
  BY DEF RelayInv, Ledger, Has, Now, Single, Among
<1> QED
  BY <1>2, <1>3, <1>4 DEF RelayInv, Around

LEMMA WorkerAnswersKeeps ==
  ASSUME RelayInv, WorkerAnswers
  PROVE  RelayInv'
<1>1. /\ worker \in Workers /\ Sound(Now) /\ budget \in Budgets
      /\ Now.r = relay /\ Now.w = worker /\ Now.c = client
  BY DEF RelayInv, State, Now, Around
<1>2. PICK i \in DOMAIN worker.in :
        /\ worker.in[1] = Hello => i = 1
        /\ worker' = [worker EXCEPT !.in = RemoveAt(@, i), !.out = Append(@, worker.in[i])]
  BY DEF WorkerAnswers
<1> DEFINE line == worker.in[i]
           new == [r |-> relay, w |-> worker', c |-> client]
<1>3. /\ worker.in \in Seq(Lines) /\ worker.out \in Seq(Lines) /\ line \in Lines
      /\ DOMAIN worker.in = 1..Len(worker.in) /\ Len(worker.in) \in Nat
  <2>1. worker.in \in Seq(Lines) /\ worker.out \in Seq(Lines)
    BY <1>1 DEF Workers
  <2> QED
    BY <1>2, <2>1, LenProperties, ElementOfSeq
<1>4. /\ RemoveAt(worker.in, i) \in Seq(Lines)
      /\ Len(RemoveAt(worker.in, i)) = Len(worker.in) - 1
      /\ Append(worker.out, line) \in Seq(Lines)
  BY <1>2, <1>3, RemoveAmong, AppendProperties
<1>5. /\ worker' \in Workers /\ worker'.in = RemoveAt(worker.in, i)
      /\ worker'.out = Append(worker.out, line) /\ worker'.alive = worker.alive
  <2> HIDE DEF line
  <2>1. worker' = [worker EXCEPT !.in = RemoveAt(worker.in, i), !.out = Append(worker.out, line)]
    BY <1>2 DEF line
  <2> QED
    BY <1>1, <1>4, <2>1 DEF Workers
<1>6. \A r : /\ Among(r, worker.in) <=> Among(r, worker'.in) \/ r = line
             /\ Single(r, worker.in) => /\ Single(r, worker'.in)
                                        /\ r = line => ~Among(r, worker'.in)
  <2> HIDE DEF line
  <2> QED
    BY <1>2, <1>3, <1>5, RemoveAmong DEF line
<1>7. \A r : /\ Among(r, worker'.out) <=> Among(r, worker.out) \/ r = line
             /\ Single(r, worker.out) /\ (r = line => ~Among(r, worker.out))
                  => Single(r, worker'.out)
  BY <1>3, <1>5, AppendAmong
<1> HIDE DEF line
<1>8. /\ new.r = relay /\ new.w = worker' /\ new.c = client
  OBVIOUS
<1> HIDE DEF new
<1>9. ASSUME NEW r \in 1..MaxCalls PROVE Single(r, new.r.buffered) /\ WithWorker(new, r)
  <2>1. WithWorker(Now, r) /\ Single(r, relay.buffered)
    BY <1>1 DEF Sound
  <2>2. CASE r = line
    <3>1. Among(r, worker.in) /\ ~Among(r, worker.out)
      BY <1>1, <1>6, <2>1, <2>2 DEF WithWorker
    <3> QED
      BY <1>1, <1>5, <1>6, <1>7, <1>8, <2>1, <2>2, <3>1 DEF WithWorker
  <2>3. CASE r # line
    BY <1>1, <1>5, <1>6, <1>7, <1>8, <2>1, <2>3 DEF WithWorker
  <2> QED
    BY <2>2, <2>3
<1>10. IF relay.handshake THEN Greeting(new)
       ELSE ~Among(Hello, worker'.in) /\ ~Among(Hello, worker'.out)
  <2>1. CASE relay.handshake
    <3>1. worker.in # <<>>
      BY <1>2, <1>3
    <3>2. worker.in = <<Hello>> /\ worker.out = <<>>
      BY <1>1, <2>1, <3>1 DEF Sound, Greeting
    <3>3. i = 1 /\ line = Hello
      BY <1>2, <1>3, <3>2 DEF line
    <3>4. worker'.in = <<>>
      <4>1. Len(worker'.in) = 0
        BY <1>4, <1>5, <3>2
      <4> QED
        BY <1>4, <1>5, <4>1, EmptySeq
    <3>5. worker'.out = <<Hello>>
      BY <1>5, <3>2, <3>3
    <3> QED
      BY <1>8, <2>1, <3>4, <3>5 DEF Greeting
  <2>2. CASE ~relay.handshake
    <3>1. ~Among(Hello, worker.in) /\ ~Among(Hello, worker.out)
      BY <1>1, <2>2 DEF Sound
    <3> QED
      BY <1>6, <1>7, <2>2, <3>1
  <2> QED
    BY <2>1, <2>2
<1>11. relay.up
  <2> SUFFICES ASSUME ~relay.up PROVE FALSE
    OBVIOUS
  <2>1. worker.in = <<>>
    BY <1>1 DEF Sound, NoWorker
  <2> QED
    BY <1>2, <2>1
<1>12. Sound(new)
  BY <1>1, <1>8, <1>9, <1>10, <1>11 DEF Sound
<1> QED
  BY <1>1, <1>5, <1>12, WorkerKeeps DEF WorkerAnswers, new

LEMMA WorkerExitsKeeps ==
  ASSUME RelayInv, WorkerExits
  PROVE  RelayInv'
<1> DEFINE new == [r |-> relay, w |-> worker', c |-> client]
<1>1. /\ worker \in Workers /\ Sound(Now) /\ budget \in Budgets
      /\ Now.r = relay /\ Now.w = worker /\ Now.c = client
  BY DEF RelayInv, State, Now, Around
<1>2. /\ worker' \in Workers /\ ~worker'.alive /\ worker'.in = <<>>
      /\ worker'.out = worker.out
  <2>1. <<>> \in Seq(Lines)
    BY EmptySeq
  <2> QED
    BY <1>1, <2>1 DEF WorkerExits, Workers
<1>3. budget' \in Budgets /\ budget'.installs = budget.installs
  <2>1. budget.faults - 1 \in Nat
    BY <1>1 DEF WorkerExits, Budgets
  <2> QED
    BY <1>1, <2>1 DEF WorkerExits, Budgets
<1>4. new.r = relay /\ new.w = worker' /\ new.c = client /\ worker.alive
  BY DEF WorkerExits
<1> HIDE DEF new
<1>5. \A r : ~Among(r, worker'.in) /\ Single(r, worker'.in)
  BY <1>2 DEF Among, Single
<1>6. relay.up
  BY <1>1, <1>4 DEF Sound, NoWorker
<1>7. relay.handshake => Greeting(new)
  <2>1. relay.handshake => worker.out \in {<<>>, <<Hello>>}
    BY <1>1 DEF Sound, Greeting
  <2> QED
    BY <1>2, <1>4, <2>1 DEF Greeting
<1>8. \A r \in 1..MaxCalls : Single(r, new.r.buffered) /\ WithWorker(new, r)
  BY <1>1, <1>2, <1>4, <1>5 DEF Sound, WithWorker
<1>9. Sound(new)
  BY <1>1, <1>2, <1>4, <1>5, <1>6, <1>7, <1>8 DEF Sound
<1> QED
  BY <1>2, <1>3, <1>9, WorkerKeeps DEF WorkerExits, new

\* The pane moves, or a binary is installed.
LEMMA BoardKeeps ==
  ASSUME RelayInv, PaneMoves \/ BinaryInstalled
  PROVE  RelayInv'
<1>1. UNCHANGED <<relay, worker, client, input>> /\ budget \in Budgets
  BY DEF PaneMoves, BinaryInstalled, RelayInv, Around
<1>2. Sound(Now)' /\ Ledger'
  BY <1>1 DEF RelayInv, Sound, WithWorker, Greeting, Ledger, Has, Now, Single, Among
<1>3. CASE PaneMoves
  <2>1. row' \in Rows \cup {NoRow} /\ installed' = installed
    BY <1>3 DEF PaneMoves
  <2>2. budget' \in Budgets /\ budget'.installs = budget.installs
    <3>1. budget.moves - 1 \in Nat
      BY <1>1, <1>3 DEF PaneMoves, Budgets
    <3> QED
      BY <1>1, <1>3, <3>1 DEF PaneMoves, Budgets
  <2>3. Now' \in State'
    BY <1>1, <2>1 DEF RelayInv, Now, State, Workers, Clients
  <2> QED
    BY <1>1, <1>2, <2>1, <2>2, <2>3 DEF RelayInv, Around
<1>4. CASE BinaryInstalled
  <2>1. row' = row /\ installed' = installed + 1 /\ installed \in Nat
    BY <1>4 DEF BinaryInstalled, RelayInv, Around
  <2>2. budget' \in Budgets /\ budget'.installs = budget.installs - 1
    <3>1. budget.installs - 1 \in Nat
      BY <1>1, <1>4 DEF BinaryInstalled, Budgets
    <3> QED
      BY <1>1, <1>4, <3>1 DEF BinaryInstalled, Budgets
  <2>3. Now' \in State'
    <3>1. 0..installed \subseteq 0..installed'
      BY <2>1
    <3>2. worker \in Workers /\ client \in Clients /\ relay \in Relays
      BY DEF RelayInv, Now, State
    <3>3. worker \in Workers' /\ client \in Clients'
      BY <3>1, <3>2 DEF Workers, Clients
    <3> QED
      BY <1>1, <3>2, <3>3 DEF Now, State, Relays
  <2>4. installed' \in Nat \ {0} /\ installed' + budget'.installs = MaxInstalls + 1
    BY <1>1, <2>1, <2>2, RelayAssumption DEF RelayInv, Around, Budgets
  <2> QED
    BY <1>1, <1>2, <2>1, <2>2, <2>3, <2>4 DEF RelayInv, Around
<1> QED
  BY <1>3, <1>4

LEMMA RelayNext == RelayInv /\ [Next]_vars => RelayInv'
<1> SUFFICES ASSUME RelayInv, [Next]_vars PROVE RelayInv'
  OBVIOUS
<1>1. CASE UNCHANGED vars
  BY <1>1 DEF vars, RelayInv, State, Relays, Workers, Clients, Sound, WithWorker, Greeting,
              Ledger, Has, Around, Now, Single, Among
<1> QED
  BY <1>1, LoopKeeps, ClientKeeps, WorkerAnswersKeeps, WorkerExitsKeeps, BoardKeeps
  DEF Next, Works

\* The relay's state, the worker's and the client's keep their types, and the
\* versions they speak of are of binaries that were installed (relay.go).
THEOREM RelayTyped == Spec => []TypeOK
<1>1. RelayInv => TypeOK
  <2> SUFFICES ASSUME RelayInv PROVE TypeOK
    OBVIOUS
  <2>1. installed \in 1..(MaxInstalls + 1)
    BY RelayAssumption DEF RelayInv, Around, Budgets
  <2> QED
    BY <2>1 DEF RelayInv, Around, Now, State, Relays, Workers, Clients, TypeOK
<1> QED
  BY <1>1, RelayInit, RelayNext, PTL DEF Spec

\* Every call the client waits on is in one place, none is answered twice, and no
\* call reaches a worker that has not answered its initialize (relay.go, fromClient):
\* however many calls, workers and adoptions there are.
THEOREM CallsInOnePlace == Spec => []CallsAccounted
<1>1. ASSUME RelayInv PROVE CallsAccounted
  <2>1. /\ Sound(Now) /\ Ledger /\ Now.r = relay /\ Now.w = worker /\ Now.c = client
        /\ client.asked \in 0..MaxCalls
    BY <1>1 DEF RelayInv, Now, State, Clients
  <2>2. /\ relay.buffered # <<>> => relay.up /\ relay.handshake
        /\ relay.pending # {} => relay.up /\ ~relay.handshake
    BY <2>1 DEF Sound
  <2>3. Among(Hello, worker.in) => Len(worker.in) = 1
    <3>1. CASE relay.handshake
      <4>1. worker.in = <<Hello>> \/ worker.in = <<>>
        BY <2>1, <3>1 DEF Sound, Greeting
      <4>2. Len(<<Hello>>) = 1 /\ ~Among(Hello, <<>>)
        BY DEF Among
      <4> QED
        BY <4>1, <4>2
    <3>2. CASE ~relay.handshake
      BY <2>1, <3>2 DEF Sound
    <3> QED
      BY <3>1, <3>2
  <2>4. ASSUME NEW r, NEW seq, Single(r, seq), Among(r, seq) PROVE Once(r, seq)
    <3>1. PICK i \in DOMAIN seq : seq[i] = r
      BY <2>4 DEF Among
    <3>2. {j \in DOMAIN seq : seq[j] = r} = {i}
      BY <2>4, <3>1 DEF Single
    <3> QED
      BY <3>2, FS_Singleton DEF Once
  <2>5. ASSUME NEW r \in 1..MaxCalls
        PROVE  /\ client.answers[r] <= 1
               /\ IF r <= client.asked /\ ~Answered(r) THEN InOnePlace(r) ELSE InNone(r)
               /\ r \in relay.pending /\ worker.alive =>
                    Among(r, worker.in) \/ Among(r, worker.out)
    <3>1. /\ Single(r, input) /\ client.answers[r] \in {0, 1}
          /\ ~(Among(r, input) /\ Has(Now, r))
          /\ Among(r, input) \/ Has(Now, r) <=> r <= client.asked /\ client.answers[r] = 0
      BY <2>1 DEF Ledger
    <3>2. Single(r, relay.buffered) /\ WithWorker(Now, r)
      BY <2>1 DEF Sound
    <3>3. ~(r \in relay.pending /\ Among(r, relay.buffered))
      BY <2>1, SoundApart
    <3>4. Has(Now, r) <=> r \in relay.pending \/ Among(r, relay.buffered)
      BY <2>1 DEF Has
    <3>5. Answered(r) <=> client.answers[r] = 1
      BY <3>1 DEF Answered
    <3>6. /\ Among(r, input) => Once(r, input)
          /\ Among(r, relay.buffered) => Once(r, relay.buffered)
      BY <2>4, <3>1, <3>2
    <3>7. IF r <= client.asked /\ ~Answered(r) THEN InOnePlace(r) ELSE InNone(r)
      BY <3>1, <3>3, <3>4, <3>5, <3>6 DEF InOnePlace, InNone
    <3>8. r \in relay.pending /\ worker.alive => Among(r, worker.in) \/ Among(r, worker.out)
      BY <2>1, <3>2 DEF WithWorker
    <3> QED
      BY <3>1, <3>7, <3>8
  <2> QED
    BY <2>2, <2>3, <2>5 DEF CallsAccounted
<1> QED
  BY <1>1, RelayInit, RelayNext, PTL DEF Spec
=============================================================================
