---------------------------- MODULE GateChannel ----------------------------
(***************************************************************************)
(* The gate channel (internal/gatechannel): a question an agent asks is     *)
(* held by the hook process of its call while an outside consumer may        *)
(* answer it, and drawn on the agent's screen when nobody does.  Consumers,  *)
(* hooks and `channel deliver' commands share only files: the lease, and     *)
(* for each call .hold, which a rename turns into .claimed or .ended,        *)
(* .answer and .taken.  Each step below is one look at, or one change of,    *)
(* those files, and any other process may run between two of them.           *)
(***************************************************************************)
EXTENDS Naturals, FiniteSets

CONSTANTS
  Calls,       \* AskUserQuestion calls, each with its own hook process
  Consumers,   \* programs that may answer
  Deliveries,  \* deliver commands
  None,        \* no delivery, no call, no consumer
  MaxTokens, MaxTurns, \* bounds: leases minted; leases taken, renewed, released
  MaxProcs, MaxFaults  \* or lapsed; hooks and delivers started; of those killed
                       \* or starved while they wait

ASSUME ChannelAssumption ==
  /\ None \notin Calls \cup Consumers \cup Deliveries
  /\ MaxTokens \in Nat /\ MaxTurns \in Nat /\ MaxProcs \in Nat /\ MaxFaults \in Nat

VARIABLES
  lease,     \* lease.json
  minted,    \* tokens are numbered in the order they were minted
  turns,     \* changes of the lease so far
  known,     \* the token each consumer last got, 0 for none
  files,     \* which of .hold, .claimed, .ended, .taken each call has
  answer,    \* the delivery whose answer is in .answer
  overdue,   \* has the deadline in its .hold or .claimed passed?
  hook,      \* where each hook process is
  mine,      \* the lease its hold was opened under
  listed,    \* calls it has listed as held and not yet read
  took,      \* the delivery whose answer it read
  deliv,     \* each deliver command: where it is, for which call, with what
  faults,    \* processes killed, and waits that ended early
  hasty      \* history: a wait of three seconds ended before the other's next step

leases == <<lease, minted, turns, known>>
disk == <<files, answer>>
hooks == <<hook, mine, listed, took>>
vars == <<leases, disk, overdue, hooks, deliv, faults, hasty>>

NoLease == [owner |-> None, token |-> 0, deliverable |-> FALSE, lapsed |-> TRUE]
Idle == [at |-> "idle", call |-> None, token |-> 0, by |-> None]
Init ==
  /\ lease = NoLease /\ minted = 0 /\ turns = 0 /\ known = [k \in Consumers |-> 0]
  /\ files = [c \in Calls |-> {}] /\ answer = [c \in Calls |-> None]
  /\ overdue = [c \in Calls |-> FALSE]
  /\ hook = [c \in Calls |-> "idle"] /\ mine = [c \in Calls |-> NoLease]
  /\ listed = [c \in Calls |-> {}] /\ took = [c \in Calls |-> None]
  /\ deliv = [d \in Deliveries |-> Idle]
  /\ faults = 0 /\ hasty = FALSE

Live(l) == l.token # 0 /\ l.deliverable /\ ~l.lapsed
Started == Cardinality({c \in Calls : hook[c] # "idle"})
           + Cardinality({d \in Deliveries : deliv[d].at # "idle"})
Go(c, place) == hook' = [hook EXCEPT ![c] = place]
DeliverGoes(d, place) == deliv' = [deliv EXCEPT ![d].at = place]

-----------------------------------------------------------------------------
(* The lease, under its lock. *)

Turn == turns < MaxTurns /\ turns' = turns + 1
Grant(k, token, deliverable) ==
  /\ Turn
  /\ lease' = [owner |-> k, token |-> token, deliverable |-> deliverable,
               lapsed |-> FALSE]
  /\ known' = [known EXCEPT ![k] = token]
  /\ UNCHANGED <<disk, overdue, hooks, deliv, faults, hasty>>
\* A new lease, with no token: only where none stands.
TakeLease(k, deliverable) ==
  /\ lease.lapsed /\ minted < MaxTokens
  /\ minted' = minted + 1 /\ Grant(k, minted + 1, deliverable)
\* A renewal, of a lapsed lease too as long as nobody has taken another.
Renew(k, deliverable) ==
  /\ lease.token # 0 /\ known[k] = lease.token
  /\ UNCHANGED minted /\ Grant(k, lease.token, deliverable)
Release(k) ==
  /\ lease.token # 0 /\ known[k] = lease.token
  /\ Turn /\ lease' = NoLease
  /\ UNCHANGED <<minted, known, disk, overdue, hooks, deliv, faults, hasty>>
\* Whether a lapsed lease was deliverable no longer matters: a renewal says anew.
LeaseLapses ==
  /\ ~lease.lapsed /\ Turn
  /\ lease' = [lease EXCEPT !.lapsed = TRUE, !.deliverable = FALSE]
  /\ UNCHANGED <<minted, known, disk, overdue, hooks, deliv, faults, hasty>>

-----------------------------------------------------------------------------
(* HoldCall. *)

HoldBegins(c) ==
  /\ hook[c] = "idle" /\ Live(lease) /\ Started < MaxProcs
  /\ mine' = [mine EXCEPT ![c] = lease] /\ Go(c, "write")
  /\ UNCHANGED <<leases, disk, overdue, listed, took, deliv, faults, hasty>>
WriteHold(c) ==
  /\ hook[c] = "write" /\ Go(c, "list")
  /\ files' = [files EXCEPT ![c] = @ \cup {"hold"}]
  /\ UNCHANGED <<leases, answer, overdue, mine, listed, took, deliv, faults, hasty>>

\* anotherHeld lists the directory, then reads the files it listed by the names
\* they had: one that has been claimed since cannot be read and does not count.
Held(c) == files[c] \cap {"hold", "claimed"}
\* Variant: only a call the consumer has claimed counts.
ToReadClaimed(c) ==
  {x \in (Calls \ {c}) \X {"claimed"} : x[2] \in Held(x[1])}
\* Variant: one that has ended counts too.
ToReadEnded(c) ==
  {x \in (Calls \ {c}) \X {"hold", "claimed", "ended"} : x[2] \in files[x[1]]}
ToRead(c) == {x \in (Calls \ {c}) \X {"hold", "claimed"} : x[2] \in Held(x[1])}
AfterLooking(left) == IF left = {} THEN "poll" ELSE "look"
ListHolds(c) ==
  /\ hook[c] = "list" /\ Go(c, AfterLooking(ToRead(c)))
  /\ listed' = [listed EXCEPT ![c] = ToRead(c)]
  /\ UNCHANGED <<leases, disk, overdue, mine, took, deliv, faults, hasty>>
Counts(x) == x[2] \in files[x[1]] /\ ~overdue[x[1]]
LookAtOther(c) ==
  /\ hook[c] = "look"
  /\ \E x \in listed[c] :
       IF Counts(x)
       THEN Go(c, "crowded") /\ listed' = [listed EXCEPT ![c] = {}]
       ELSE /\ Go(c, AfterLooking(listed[c] \ {x}))
            /\ listed' = [listed EXCEPT ![c] = @ \ {x}]
  /\ UNCHANGED <<leases, disk, overdue, mine, took, deliv, faults, hasty>>

\* takeAnswer: the answer is read and removed, then judged, then receipted.
Waiting == {"poll", "late"}
ReadAnswer(c) ==
  /\ hook[c] \in Waiting /\ answer[c] # None
  /\ took' = [took EXCEPT ![c] = answer[c]]
  /\ answer' = [answer EXCEPT ![c] = None]
  /\ Go(c, IF hook[c] = "poll" THEN "judge" ELSE "judge late")
  /\ UNCHANGED <<leases, files, overdue, mine, listed, deliv, faults, hasty>>
\* Variant: any consumer's answer will do.
AcceptsAny(c) == took[c] # None
Accepts(c) == deliv[took[c]].token = mine[c].token
Judging == {"judge", "judge late"}
TakeAnswer(c) ==
  /\ hook[c] \in Judging /\ Accepts(c) /\ Go(c, "output")
  /\ files' = [files EXCEPT ![c] = @ \cup {"taken"}]
  /\ UNCHANGED <<leases, answer, overdue, mine, listed, took, deliv, faults, hasty>>
DiscardAnswer(c) ==
  /\ hook[c] \in Judging /\ ~Accepts(c)
  /\ Go(c, IF hook[c] = "judge" THEN "poll" ELSE "late")
  /\ UNCHANGED <<leases, disk, overdue, mine, listed, took, deliv, faults, hasty>>

\* Variant: only the lease ends a hold.
StandsWithLease(c) == lease.token = mine[c].token /\ Live(lease)
Stands(c) == lease.token = mine[c].token /\ Live(lease) /\ ~overdue[c]
\* Variant: the rename's failure is ignored.
AfterEndDraw(c) == "leave"
\* The rename fails when a consumer's came first: its answer is on the way.
AfterEnd(c) == IF "hold" \in files[c] THEN "leave" ELSE "late"
\* The look for an answer that finds none, the look at the lease and the rename
\* are one step: a claim between them is a claim before them.
EndHold(c) ==
  /\ hook[c] = "poll" /\ answer[c] = None /\ ~Stands(c) /\ Go(c, AfterEnd(c))
  /\ files' = [files EXCEPT ![c] = IF "hold" \in @ THEN (@ \ {"hold"}) \cup {"ended"}
                                   ELSE @]
  /\ UNCHANGED <<leases, answer, overdue, mine, listed, took, deliv, faults, hasty>>
\* A wait of receiptWait is up: in time, or with a step it waited for still due.
InTime(settled) ==
  IF settled THEN UNCHANGED <<faults, hasty>>
  ELSE faults < MaxFaults /\ faults' = faults + 1 /\ hasty' = TRUE
Sending(c) == \E d \in Deliveries : deliv[d].call = c /\ deliv[d].at = "write"
AwaitTimesOut(c) ==
  /\ hook[c] = "late" /\ answer[c] = None
  /\ InTime(~Sending(c)) /\ Go(c, "leave")
  /\ UNCHANGED <<leases, disk, overdue, mine, listed, took, deliv>>

\* Every way out runs the deferred cleanup, and leaves .taken to its reader.
Outcome == [leave |-> "drawn", crowded |-> "passed", output |-> "answered"]
Leave(c) ==
  /\ hook[c] \in DOMAIN Outcome /\ Go(c, Outcome[hook[c]])
  /\ files' = [files EXCEPT ![c] = @ \ {"hold", "claimed", "ended"}]
  /\ answer' = [answer EXCEPT ![c] = None]
  /\ overdue' = [overdue EXCEPT ![c] = FALSE]
  /\ UNCHANGED <<leases, mine, listed, took, deliv, faults, hasty>>

Done == {"drawn", "passed", "answered", "killed"}
DeadlinePasses(c) ==
  /\ Held(c) # {} /\ ~overdue[c]
  /\ overdue' = [overdue EXCEPT ![c] = TRUE]
  /\ UNCHANGED <<leases, disk, hooks, deliv, faults, hasty>>
KillHook(c) ==
  /\ hook[c] \notin Done \cup {"idle"} /\ faults < MaxFaults
  /\ Go(c, "killed") /\ faults' = faults + 1
  /\ UNCHANGED <<leases, disk, overdue, mine, listed, took, deliv, hasty>>

-----------------------------------------------------------------------------
(* Deliver, with an answer that fits the call's questions. *)

\* The token is checked and the hold read; refused at once, it changes nothing.
DeliverBegins(d, k, c) ==
  /\ deliv[d].at = "idle" /\ Started < MaxProcs
  /\ ~lease.lapsed /\ known[k] = lease.token
  /\ "hold" \in files[c] /\ ~overdue[c]
  /\ deliv' = [deliv EXCEPT ![d] = [at |-> "claim", call |-> c, token |-> known[k],
                                    by |-> k]]
  /\ UNCHANGED <<leases, disk, overdue, hooks, faults, hasty>>
Claims(d) == "hold" \in files[deliv[d].call]
ClaimHold(d) ==
  /\ deliv[d].at = "claim" /\ Claims(d)
  /\ files' = [files EXCEPT ![deliv[d].call] = (@ \ {"hold"}) \cup {"claimed"}]
  /\ DeliverGoes(d, "write")
  /\ UNCHANGED <<leases, answer, overdue, hooks, faults, hasty>>
ClaimFails(d) ==
  /\ deliv[d].at = "claim" /\ ~Claims(d) /\ DeliverGoes(d, "refused")
  /\ UNCHANGED <<leases, disk, overdue, hooks, faults, hasty>>
WriteAnswer(d) ==
  /\ deliv[d].at = "write" /\ DeliverGoes(d, "wait")
  /\ answer' = [answer EXCEPT ![deliv[d].call] = d]
  /\ UNCHANGED <<leases, files, overdue, hooks, faults, hasty>>
\* Variant: an answer that has been read counts as taken.
ReceiptedByReading(d) == answer[deliv[d].call] # d
Receipted(d) == "taken" \in files[deliv[d].call]
SeeReceipt(d) ==
  /\ deliv[d].at = "wait" /\ Receipted(d) /\ DeliverGoes(d, "ok")
  /\ files' = [files EXCEPT ![deliv[d].call] = @ \ {"taken"}]
  /\ UNCHANGED <<leases, answer, overdue, hooks, faults, hasty>>
\* The hook may still read the answer, or is about to write its receipt.
Landing(d) ==
  LET c == deliv[d].call IN
  \/ answer[c] = d /\ hook[c] \notin Done \cup DOMAIN Outcome
  \/ took[c] = d /\ hook[c] \in Judging
ReceiptTimesOut(d) ==
  /\ deliv[d].at = "wait" /\ ~Receipted(d) /\ InTime(~Landing(d))
  /\ DeliverGoes(d, "undelivered")
  /\ answer' = [answer EXCEPT ![deliv[d].call] = None]
  /\ UNCHANGED <<leases, files, overdue, hooks>>
KillDeliver(d) ==
  /\ deliv[d].at \in {"claim", "write", "wait"} /\ faults < MaxFaults
  /\ DeliverGoes(d, "killed") /\ faults' = faults + 1
  /\ UNCHANGED <<leases, disk, overdue, hooks, hasty>>

-----------------------------------------------------------------------------
HookStep(c) ==
  \/ WriteHold(c) \/ ListHolds(c) \/ LookAtOther(c)
  \/ ReadAnswer(c) \/ TakeAnswer(c) \/ DiscardAnswer(c)
  \/ EndHold(c) \/ AwaitTimesOut(c) \/ Leave(c)
DeliverStep(d) ==
  \/ ClaimHold(d) \/ ClaimFails(d) \/ WriteAnswer(d)
  \/ SeeReceipt(d) \/ ReceiptTimesOut(d)

Next ==
  \/ \E k \in Consumers : \/ Release(k)
                          \/ \E b \in BOOLEAN : TakeLease(k, b) \/ Renew(k, b)
  \/ LeaseLapses
  \/ \E c \in Calls : HoldBegins(c) \/ HookStep(c) \/ DeadlinePasses(c) \/ KillHook(c)
  \/ \E d \in Deliveries :
       \/ \E k \in Consumers, c \in Calls : DeliverBegins(d, k, c)
       \/ DeliverStep(d) \/ KillDeliver(d)

Spec == Init /\ [][Next]_vars

\* Processes run and clocks advance; nothing makes a consumer answer or renew.
Fairness ==
  WF_vars(\/ \E c \in Calls : HookStep(c) \/ DeadlinePasses(c)
          \/ \E d \in Deliveries : DeliverStep(d))
FairSpec == Spec /\ Fairness

-----------------------------------------------------------------------------
(* Properties. *)

HookPlaces == {"idle", "write", "list", "look", "poll", "judge",
               "late", "judge late"} \cup DOMAIN Outcome \cup Done
DeliverPlaces == {"idle", "claim", "write", "wait", "ok", "undelivered",
                  "refused", "killed"}
Tokens == 0..MaxTokens
Leases == [owner : Consumers \cup {None}, token : Tokens, deliverable : BOOLEAN,
           lapsed : BOOLEAN]
TypeOK ==
  /\ lease \in Leases /\ minted \in Tokens /\ turns \in 0..MaxTurns
  /\ known \in [Consumers -> Tokens]
  /\ files \in [Calls -> SUBSET {"hold", "claimed", "ended", "taken"}]
  /\ answer \in [Calls -> Deliveries \cup {None}]
  /\ overdue \in [Calls -> BOOLEAN]
  /\ hook \in [Calls -> HookPlaces] /\ mine \in [Calls -> Leases]
  /\ listed \in [Calls -> SUBSET (Calls \X {"hold", "claimed"})]
  /\ took \in [Calls -> Deliveries \cup {None}]
  /\ deliv \in [Deliveries -> [at : DeliverPlaces, call : Calls \cup {None},
                               token : Tokens, by : Consumers \cup {None}]]
  /\ faults \in 0..MaxFaults /\ hasty \in BOOLEAN

\* A consumer told that its answer was delivered is told so of the answer the
\* hook took, and the question is never drawn on the screen as well (Deliver):
\* whatever other consumers, late hooks and killed processes do with the files.
Took(c) == hook[c] \in {"output", "answered", "killed"}
ReceiptTruthful ==
  \A d \in Deliveries : deliv[d].at = "ok" =>
    took[deliv[d].call] = d /\ Took(deliv[d].call)

\* The answer the agent gets came from the consumer the output names, and only
\* one answer ever gets past the claim (takeAnswer, Deliver).
CreditedRight ==
  \A c \in Calls : hook[c] \in {"output", "answered"} =>
    deliv[took[c]].by = mine[c].owner

\* No two calls wait for the consumer at once: of two that race, at least one
\* draws (HoldCall, anotherHeld).
Unexpired(c) == "hold" \in files[c] /\ ~overdue[c] /\ hook[c] \in {"poll", "judge"}
OneWaits == \A b, c \in Calls : Unexpired(b) /\ Unexpired(c) => b = c

\* An answer that claimed a waiting call is used, though the lease ends or the
\* deadline passes the moment after, and a consumer told that its answer did not
\* land may rely on the dialog being on screen (Deliver's comment): its hook was
\* killed or has drawn, or read the answer and found another lease's token in it.
\* Only where each wait outlasted the other side's two steps.
UndeliveredIsDrawn ==
  ~hasty => \A d \in Deliveries : deliv[d].at = "undelivered" =>
    LET c == deliv[d].call IN
    \/ hook[c] \in {"killed", "crowded", "passed"}
    \/ deliv[d].token # mine[c].token /\ hook[c] \notin {"output", "answered"}

\* Whatever consumers do or fail to do, a held question is answered or drawn.
HoldEnds == \A c \in Calls : hook[c] = "write" ~> hook[c] \in Done
=============================================================================
