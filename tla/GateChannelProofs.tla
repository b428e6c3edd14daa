-------------------------- MODULE GateChannelProofs --------------------------
(***************************************************************************)
(* Type correctness of GateChannel; that at most one call waits for the       *)
(* consumer; that a receipt is for the answer the hook took, and an answer    *)
(* that did not land is left to the dialog; and that the answer the agent     *)
(* gets is credited to the consumer it came from: for any number of calls,    *)
(* consumers and deliveries, and whatever is killed.                          *)
(***************************************************************************)
EXTENDS GateChannel, TLAPS

LEMMA InitType == Init => TypeOK
<1> SUFFICES ASSUME Init PROVE TypeOK
  OBVIOUS
<1>1. 0 \in Tokens /\ NoLease \in Leases
  BY ChannelAssumption DEF Tokens, Leases, NoLease
<1>2. "idle" \in HookPlaces /\ "idle" \in DeliverPlaces
  BY DEF HookPlaces, DeliverPlaces
<1>3. Idle \in [at : DeliverPlaces, call : Calls \cup {None}, token : Tokens,
                by : Consumers \cup {None}]
  BY <1>1, <1>2 DEF Idle
<1>4. /\ lease \in Leases /\ minted \in Tokens /\ turns \in 0..MaxTurns
      /\ known \in [Consumers -> Tokens] /\ faults \in 0..MaxFaults
  BY <1>1, ChannelAssumption DEF Init, Tokens
<1> QED
  BY <1>1, <1>2, <1>3, <1>4 DEF Init, TypeOK

-----------------------------------------------------------------------------
(* Types. *)

LEMMA GoTyped ==
  ASSUME TypeOK, NEW c \in Calls, NEW place \in HookPlaces, Go(c, place)
  PROVE  /\ hook' \in [Calls -> HookPlaces] /\ hook'[c] = place
         /\ \A b \in Calls \ {c} : hook'[b] = hook[b]
BY DEF TypeOK, Go

DeliverRecords == [at : DeliverPlaces, call : Calls \cup {None}, token : Tokens,
                   by : Consumers \cup {None}]
LEMMA DeliverGoesTyped ==
  ASSUME TypeOK, NEW d \in Deliveries, NEW place \in DeliverPlaces, DeliverGoes(d, place)
  PROVE  /\ deliv' \in [Deliveries -> DeliverRecords] /\ deliv'[d].at = place
         /\ deliv'[d].call = deliv[d].call /\ deliv'[d].token = deliv[d].token
         /\ deliv'[d].by = deliv[d].by
         /\ \A e \in Deliveries \ {d} : deliv'[e] = deliv[e]
<1>1. deliv \in [Deliveries -> DeliverRecords]
  BY DEF TypeOK, DeliverRecords
<1>2. [deliv[d] EXCEPT !.at = place] \in DeliverRecords
  BY <1>1 DEF DeliverRecords
<1>3. deliv' = [deliv EXCEPT ![d] = [deliv[d] EXCEPT !.at = place]]
  BY DEF DeliverGoes
<1> QED
  BY <1>1, <1>2, <1>3 DEF DeliverRecords

LEMMA PlacesFacts ==
  /\ {"idle", "write", "list", "look", "poll", "judge", "late", "judge late", "leave",
      "crowded", "output", "drawn", "passed", "answered", "killed"} \subseteq HookPlaces
  /\ {"idle", "claim", "write", "wait", "ok", "undelivered", "refused", "killed"}
       \subseteq DeliverPlaces
  /\ DOMAIN Outcome = {"leave", "crowded", "output"}
  /\ Outcome["leave"] = "drawn" /\ Outcome["crowded"] = "passed"
  /\ Outcome["output"] = "answered"
<1>1. /\ DOMAIN Outcome = {"leave", "crowded", "output"}
      /\ Outcome["leave"] = "drawn" /\ Outcome["crowded"] = "passed"
      /\ Outcome["output"] = "answered"
  BY DEF Outcome
<1> QED
  BY <1>1 DEF HookPlaces, DeliverPlaces, Done

LEMMA LeaseKeepsType ==
  ASSUME TypeOK, NEW k \in Consumers,
         Release(k) \/ \E b \in BOOLEAN : TakeLease(k, b) \/ Renew(k, b)
  PROVE  TypeOK'
<1>1. turns' \in 0..MaxTurns
  BY ChannelAssumption DEF TypeOK, Turn, Release, TakeLease, Renew, Grant
<1>2. ASSUME NEW token \in Tokens, NEW b \in BOOLEAN, Grant(k, token, b)
      PROVE  lease' \in Leases /\ known' \in [Consumers -> Tokens]
  BY <1>2 DEF Grant, Leases, TypeOK
<1>3. CASE Release(k)
  <2>1. NoLease \in Leases
    BY ChannelAssumption DEF NoLease, Leases, Tokens
  <2> QED
    BY <1>1, <1>3, <2>1 DEF Release, TypeOK, disk, hooks
<1>4. CASE \E b \in BOOLEAN : TakeLease(k, b)
  <2>1. PICK b \in BOOLEAN : TakeLease(k, b)
    BY <1>4
  <2>2. minted + 1 \in Tokens
    BY <2>1, ChannelAssumption DEF TakeLease, TypeOK, Tokens
  <2> QED
    BY <1>1, <1>2, <2>1, <2>2 DEF TakeLease, Grant, TypeOK, disk, hooks
<1>5. CASE \E b \in BOOLEAN : Renew(k, b)
  <2>1. PICK b \in BOOLEAN : Renew(k, b)
    BY <1>5
  <2>2. lease.token \in Tokens
    BY DEF TypeOK, Leases
  <2> QED
    BY <1>1, <1>2, <2>1, <2>2 DEF Renew, Grant, TypeOK, disk, hooks
<1> QED
  BY <1>3, <1>4, <1>5

Counted ==
  /\ faults' = faults \/ (faults < MaxFaults /\ faults' = faults + 1)
  /\ hasty' = hasty \/ hasty' = TRUE
LEMMA CountedTyped ==
  ASSUME TypeOK, Counted
  PROVE  faults' \in 0..MaxFaults /\ hasty' \in BOOLEAN
<1>1. faults' \in 0..MaxFaults
  BY ChannelAssumption DEF TypeOK, Counted
<1>2. hasty' \in BOOLEAN
  BY DEF TypeOK, Counted
<1> QED
  BY <1>1, <1>2

HookActs(c) ==
  \/ HoldBegins(c) \/ HookStep(c) \/ DeadlinePasses(c) \/ KillHook(c)

LEMMA HookKeepsType ==
  ASSUME TypeOK, NEW c \in Calls, HookActs(c)
  PROVE  TypeOK'
<1>1. UNCHANGED <<leases, deliv>>
  BY DEF HookActs, HookStep, HoldBegins, WriteHold, ListHolds, LookAtOther, ReadAnswer,
         TakeAnswer, DiscardAnswer, EndHold, AwaitTimesOut, Leave, DeadlinePasses, KillHook,
         hooks
<1>2. hook' \in [Calls -> HookPlaces]
  <2>1. \A place \in HookPlaces : Go(c, place) => hook' \in [Calls -> HookPlaces]
    BY GoTyped
  <2>2. \A left : AfterLooking(left) \in HookPlaces
    BY PlacesFacts DEF AfterLooking
  <2>3. AfterEnd(c) \in HookPlaces /\ (hook[c] \in DOMAIN Outcome => Outcome[hook[c]] \in HookPlaces)
    BY PlacesFacts DEF AfterEnd
  <2>4. CASE DeadlinePasses(c)
    BY <2>4 DEF DeadlinePasses, hooks, TypeOK
  <2>5. CASE HoldBegins(c) \/ WriteHold(c) \/ ListHolds(c) \/ LookAtOther(c)
    BY <2>5, <2>1, <2>2, PlacesFacts DEF HoldBegins, WriteHold, ListHolds, LookAtOther
  <2>6. CASE ReadAnswer(c) \/ TakeAnswer(c) \/ DiscardAnswer(c)
    BY <2>6, <2>1, PlacesFacts DEF ReadAnswer, TakeAnswer, DiscardAnswer
  <2>7. CASE EndHold(c) \/ AwaitTimesOut(c) \/ Leave(c) \/ KillHook(c)
    BY <2>7, <2>1, <2>3, PlacesFacts DEF EndHold, AwaitTimesOut, Leave, KillHook
  <2> QED
    BY <2>4, <2>5, <2>6, <2>7 DEF HookActs, HookStep
<1>3. files' \in [Calls -> SUBSET {"hold", "claimed", "ended", "taken"}]
  <2>1. CASE \E set \in SUBSET {"hold", "claimed", "ended", "taken"} :
               files' = [files EXCEPT ![c] = set]
    BY <2>1 DEF TypeOK
  <2>2. files[c] \in SUBSET {"hold", "claimed", "ended", "taken"}
    BY DEF TypeOK
  <2>3. CASE WriteHold(c) \/ TakeAnswer(c) \/ EndHold(c) \/ Leave(c)
    BY <2>1, <2>2, <2>3 DEF WriteHold, TakeAnswer, EndHold, Leave
  <2>4. CASE UNCHANGED files
    BY <2>4 DEF TypeOK
  <2> QED
    BY <2>3, <2>4
    DEF HookActs, HookStep, HoldBegins, ListHolds, LookAtOther, ReadAnswer, DiscardAnswer,
        AwaitTimesOut, DeadlinePasses, KillHook, disk
<1>4. answer' \in [Calls -> Deliveries \cup {None}]
  BY DEF HookActs, HookStep, HoldBegins, WriteHold, ListHolds, LookAtOther, ReadAnswer,
         TakeAnswer, DiscardAnswer, EndHold, AwaitTimesOut, Leave, DeadlinePasses, KillHook,
         disk, TypeOK
<1>5. overdue' \in [Calls -> BOOLEAN] /\ mine' \in [Calls -> Leases]
  <2>1. \/ overdue' = overdue \/ overdue' = [overdue EXCEPT ![c] = TRUE]
        \/ overdue' = [overdue EXCEPT ![c] = FALSE]
    BY DEF HookActs, HookStep, HoldBegins, WriteHold, ListHolds, LookAtOther, ReadAnswer,
           TakeAnswer, DiscardAnswer, EndHold, AwaitTimesOut, Leave, DeadlinePasses, KillHook
  <2>2. mine' = mine \/ mine' = [mine EXCEPT ![c] = lease]
    BY DEF HookActs, HookStep, HoldBegins, WriteHold, ListHolds, LookAtOther, ReadAnswer,
           TakeAnswer, DiscardAnswer, EndHold, AwaitTimesOut, Leave, DeadlinePasses, KillHook,
           hooks
  <2> QED
    BY <2>1, <2>2 DEF TypeOK
<1>6. took' \in [Calls -> Deliveries \cup {None}]
  BY DEF HookActs, HookStep, HoldBegins, WriteHold, ListHolds, LookAtOther, ReadAnswer,
         TakeAnswer, DiscardAnswer, EndHold, AwaitTimesOut, Leave, DeadlinePasses, KillHook,
         hooks, TypeOK
<1>7. listed' \in [Calls -> SUBSET (Calls \X {"hold", "claimed"})]
  <2>1. ToRead(c) \subseteq Calls \X {"hold", "claimed"}
    BY DEF ToRead
  <2>2. CASE UNCHANGED listed
    BY <2>2 DEF TypeOK
  <2>3. CASE ListHolds(c)
    BY <2>1, <2>3 DEF ListHolds, TypeOK
  <2>4. CASE LookAtOther(c)
    BY <2>4 DEF LookAtOther, TypeOK
  <2> QED
    BY <2>2, <2>3, <2>4 DEF HookActs, HookStep, HoldBegins, WriteHold, ReadAnswer,
         TakeAnswer, DiscardAnswer, EndHold, AwaitTimesOut, Leave, DeadlinePasses, KillHook, hooks
<1>8. faults' \in 0..MaxFaults /\ hasty' \in BOOLEAN
  <2>1. Counted
    BY DEF Counted, HookActs, HookStep, HoldBegins, WriteHold, ListHolds, LookAtOther,
           ReadAnswer, TakeAnswer, DiscardAnswer, EndHold, AwaitTimesOut, InTime, Leave,
           DeadlinePasses, KillHook
  <2> QED
    BY <2>1, CountedTyped
<1> QED
  BY <1>1, <1>2, <1>3, <1>4, <1>5, <1>6, <1>7, <1>8 DEF TypeOK, leases

DeliverActs(d) ==
  \/ \E k \in Consumers, c \in Calls : DeliverBegins(d, k, c)
  \/ DeliverStep(d) \/ KillDeliver(d)

LEMMA DeliverKeepsType ==
  ASSUME TypeOK, NEW d \in Deliveries, DeliverActs(d)
  PROVE  TypeOK'
<1>1. UNCHANGED <<leases, overdue, hooks>>
  BY DEF DeliverActs, DeliverStep, DeliverBegins, ClaimHold, ClaimFails, WriteAnswer,
         SeeReceipt, ReceiptTimesOut, KillDeliver
<1>2. deliv' \in [Deliveries -> DeliverRecords]
  <2>1. CASE \E k \in Consumers, c \in Calls : DeliverBegins(d, k, c)
    <3>1. PICK k \in Consumers, c \in Calls : DeliverBegins(d, k, c)
      BY <2>1
    <3>2. [at |-> "claim", call |-> c, token |-> known[k], by |-> k] \in DeliverRecords
      BY PlacesFacts DEF DeliverRecords, TypeOK
    <3> QED
      BY <3>1, <3>2 DEF DeliverBegins, TypeOK, DeliverRecords
  <2>2. CASE DeliverStep(d) \/ KillDeliver(d)
    BY <2>2, DeliverGoesTyped, PlacesFacts
    DEF DeliverStep, ClaimHold, ClaimFails, WriteAnswer, SeeReceipt, ReceiptTimesOut, KillDeliver
  <2> QED
    BY <2>1, <2>2 DEF DeliverActs
<1>3. files' \in [Calls -> SUBSET {"hold", "claimed", "ended", "taken"}]
  BY DEF DeliverActs, DeliverStep, DeliverBegins, ClaimHold, ClaimFails, WriteAnswer,
         SeeReceipt, ReceiptTimesOut, KillDeliver, disk, TypeOK
<1>4. answer' \in [Calls -> Deliveries \cup {None}]
  BY DEF DeliverActs, DeliverStep, DeliverBegins, ClaimHold, ClaimFails, WriteAnswer,
         SeeReceipt, ReceiptTimesOut, KillDeliver, disk, TypeOK
<1>5. faults' \in 0..MaxFaults /\ hasty' \in BOOLEAN
  <2>1. Counted
    BY DEF Counted, DeliverActs, DeliverStep, DeliverBegins, ClaimHold, ClaimFails,
           WriteAnswer, SeeReceipt, ReceiptTimesOut, InTime, KillDeliver
  <2> QED
    BY <2>1, CountedTyped
<1> QED
  BY <1>1, <1>2, <1>3, <1>4, <1>5 DEF TypeOK, DeliverRecords, leases, hooks

LEMMA Split ==
  ASSUME [Next]_vars
  PROVE  \/ \E k \in Consumers : \/ Release(k)
                                 \/ \E b \in BOOLEAN : TakeLease(k, b) \/ Renew(k, b)
         \/ LeaseLapses
         \/ \E c \in Calls : HookActs(c)
         \/ \E d \in Deliveries : DeliverActs(d)
         \/ UNCHANGED vars
BY DEF Next, HookActs, DeliverActs

LEMMA LapseKeepsType ==
  ASSUME TypeOK, LeaseLapses
  PROVE  TypeOK'
<1>1. lease' \in Leases
  BY DEF LeaseLapses, TypeOK, Leases
<1> QED
  BY <1>1, ChannelAssumption DEF LeaseLapses, Turn, TypeOK, disk, hooks

LEMMA NextKeepsType ==
  ASSUME TypeOK, [Next]_vars
  PROVE  TypeOK'
<1>1. CASE UNCHANGED vars
  BY <1>1 DEF vars, leases, disk, hooks, TypeOK
<1> QED
  BY <1>1, Split, LeaseKeepsType, LapseKeepsType, HookKeepsType, DeliverKeepsType

\* The files, leases and processes keep their types (gatechannel.go).
THEOREM ChannelTyped == Spec => []TypeOK
<1> QED
  BY InitType, NextKeepsType, PTL DEF Spec

-----------------------------------------------------------------------------
(* One waits. *)

\* A hold in time, and whether c's hook goes by b's: it has still to look, or it
\* has b's hold on its list, or it does not wait for an answer.
InForce(b) == "hold" \in files[b] /\ ~overdue[b]
GivesWay(c, b) ==
  \/ hook[c] \notin {"poll", "judge", "look"}
  \/ hook[c] = "look" /\ <<b, "hold">> \in listed[c]
OneGivesWay ==
  \A b, c \in Calls : b # c /\ InForce(b) /\ InForce(c) => GivesWay(b, c) \/ GivesWay(c, b)

LEMMA OneGivesWayInit == Init => OneGivesWay
BY DEF Init, OneGivesWay, InForce

\* What the step of c's hook must keep for the others.
LEMMA HookLeavesOthers ==
  ASSUME TypeOK, NEW c \in Calls, HookActs(c)
  PROVE  \A b \in Calls \ {c} : /\ files'[b] = files[b] /\ overdue'[b] = overdue[b]
                                /\ hook'[b] = hook[b] /\ listed'[b] = listed[b]
                                /\ answer'[b] = answer[b] /\ took'[b] = took[b]
                                /\ mine'[b] = mine[b]
BY DEF TypeOK, Go, HookActs, HookStep, HoldBegins, WriteHold, ListHolds, LookAtOther,
       ReadAnswer, TakeAnswer, DiscardAnswer, EndHold, AwaitTimesOut, Leave, DeadlinePasses,
       KillHook, disk, hooks

\* A hook that goes to wait goes there past no hold in force.
LEMMA HookGivesWay ==
  ASSUME TypeOK, NEW c \in Calls, HookActs(c), NEW b \in Calls \ {c}, InForce(b)
  PROVE  /\ InForce(c)' => InForce(c) \/ GivesWay(c, b)'
         /\ GivesWay(c, b) => GivesWay(c, b)'
<1>1. CASE HoldBegins(c) \/ WriteHold(c) \/ AwaitTimesOut(c) \/ KillHook(c)
  BY <1>1 DEF HoldBegins, WriteHold, AwaitTimesOut, KillHook, Go, GivesWay, InForce, TypeOK,
              Done, disk
<1>2. CASE ListHolds(c)
  <2>1. <<b, "hold">> \in ToRead(c)
    BY DEF InForce, ToRead, Held
  <2>2. hook'[c] = "look" /\ listed'[c] = ToRead(c) /\ InForce(c)' = InForce(c)
    BY <1>2, <2>1 DEF ListHolds, AfterLooking, Go, TypeOK, InForce, disk
  <2> QED
    BY <2>1, <2>2 DEF GivesWay
<1>3. CASE LookAtOther(c)
  <2>1. InForce(c)' = InForce(c)
    BY <1>3 DEF LookAtOther, InForce, disk
  <2>2. PICK x \in listed[c] :
          IF Counts(x)
          THEN Go(c, "crowded") /\ listed' = [listed EXCEPT ![c] = {}]
          ELSE /\ Go(c, AfterLooking(listed[c] \ {x}))
               /\ listed' = [listed EXCEPT ![c] = @ \ {x}]
    BY <1>3 DEF LookAtOther
  <2>3. CASE Counts(x)
    BY <2>1, <2>2, <2>3 DEF Go, GivesWay, TypeOK
  <2>4. CASE ~Counts(x)
    <3>1. x # <<b, "hold">>
      BY <2>4 DEF Counts, InForce
    <3>2. hook[c] = "look"
      BY <1>3 DEF LookAtOther
    <3>3. /\ hook'[c] = AfterLooking(listed[c] \ {x})
          /\ listed'[c] = listed[c] \ {x}
      BY <2>2, <2>4 DEF Go, TypeOK
    <3> QED
      BY <2>1, <3>1, <3>2, <3>3 DEF GivesWay, AfterLooking
  <2> QED
    BY <2>3, <2>4
<1>4. CASE ReadAnswer(c) \/ TakeAnswer(c) \/ DiscardAnswer(c)
  <2>1. InForce(c)' = InForce(c) \/ hook'[c] = "output"
    BY <1>4 DEF ReadAnswer, TakeAnswer, DiscardAnswer, InForce, Go, TypeOK, disk
  <2>2. \/ hook'[c] \in {"output", "late", "judge late"}
        \/ hook[c] \in {"poll", "judge"} /\ hook'[c] \in {"poll", "judge"}
    BY <1>4 DEF ReadAnswer, TakeAnswer, DiscardAnswer, Go, TypeOK, Waiting, Judging
  <2> QED
    BY <2>1, <2>2 DEF GivesWay
<1>5. CASE EndHold(c) \/ Leave(c)
  <2>1. ~InForce(c)' /\ hook'[c] \notin {"poll", "judge", "look"}
    <3>1. CASE EndHold(c)
      BY <3>1 DEF EndHold, AfterEnd, InForce, Go, TypeOK
    <3>2. CASE Leave(c)
      <4>1. hook'[c] \in {"drawn", "passed", "answered"}
        BY <3>2, PlacesFacts DEF Leave, Go, TypeOK
      <4>2. "hold" \notin files'[c]
        BY <3>2 DEF Leave, TypeOK
      <4> QED
        BY <4>1, <4>2 DEF InForce
    <3> QED
      BY <1>5, <3>1, <3>2
  <2> QED
    BY <2>1 DEF GivesWay
<1>6. CASE DeadlinePasses(c)
  BY <1>6 DEF DeadlinePasses, InForce, GivesWay, hooks, disk, TypeOK
<1> QED
  BY <1>1, <1>2, <1>3, <1>4, <1>5, <1>6 DEF HookActs, HookStep

LEMMA NextGivesWay ==
  ASSUME TypeOK, OneGivesWay, [Next]_vars
  PROVE  OneGivesWay'
<1>1. CASE \E c \in Calls : HookActs(c)
  <2>1. PICK c \in Calls : HookActs(c)
    BY <1>1
  <2>2. \A b \in Calls \ {c} : /\ InForce(b)' = InForce(b)
                               /\ \A a \in Calls : GivesWay(b, a)' = GivesWay(b, a)
    BY <2>1, HookLeavesOthers DEF InForce, GivesWay
  <2>3. \A b \in Calls \ {c} : InForce(b) =>
           (InForce(c)' => InForce(c) \/ GivesWay(c, b)') /\ (GivesWay(c, b) => GivesWay(c, b)')
    BY <2>1, HookGivesWay
  <2> QED
    BY <2>2, <2>3 DEF OneGivesWay
<1>2. CASE \E d \in Deliveries : DeliverActs(d)
  <2>1. UNCHANGED <<overdue, hook, listed>>
    BY <1>2 DEF DeliverActs, DeliverStep, DeliverBegins, ClaimHold, ClaimFails, WriteAnswer,
           SeeReceipt, ReceiptTimesOut, KillDeliver, hooks
  <2>2. \A b \in Calls : "hold" \in files'[b] => "hold" \in files[b]
    <3>1. PICK d \in Deliveries : DeliverActs(d)
      BY <1>2
    <3>2. \/ files' = files
          \/ files' = [files EXCEPT ![deliv[d].call] = (@ \ {"hold"}) \cup {"claimed"}]
          \/ files' = [files EXCEPT ![deliv[d].call] = @ \ {"taken"}]
      BY <3>1 DEF DeliverActs, DeliverStep, DeliverBegins, ClaimHold, ClaimFails, WriteAnswer,
             SeeReceipt, ReceiptTimesOut, KillDeliver, disk
    <3> QED
      BY <3>2 DEF TypeOK
  <2> QED
    BY <2>1, <2>2 DEF OneGivesWay, InForce, GivesWay
<1>3. CASE UNCHANGED <<disk, overdue, hooks>>
  BY <1>3 DEF disk, hooks, OneGivesWay, InForce, GivesWay
<1>4. CASE \/ LeaseLapses \/ UNCHANGED vars
           \/ \E k \in Consumers : \/ Release(k)
                                   \/ \E b \in BOOLEAN : TakeLease(k, b) \/ Renew(k, b)
  BY <1>3, <1>4 DEF LeaseLapses, Release, TakeLease, Renew, Grant, vars
<1> QED
  BY <1>1, <1>2, <1>4, Split

\* Of two calls that begin at once, at least one draws its dialog (anotherHeld),
\* however many begin and however their looks at the directory interleave.
THEOREM OneWaitsAlways == Spec => []OneWaits
<1>1. OneGivesWay => OneWaits
  BY DEF OneGivesWay, OneWaits, Unexpired, InForce, GivesWay
<1> QED
  BY <1>1, InitType, NextKeepsType, OneGivesWayInit, NextGivesWay, PTL DEF Spec

-----------------------------------------------------------------------------
(* Receipts. *)

\* The delivery a call has to do with, once one has claimed it: it is the only one,
\* whatever is left of it, and while a call can be claimed there is none.
Claimants == {"write", "wait", "ok", "undelivered"}
Owns(d, c) ==
  (deliv[d].call = c /\ deliv[d].at \in Claimants) \/ answer[c] = d \/ took[c] = d
OneOwner ==
  /\ \A c \in Calls, d, e \in Deliveries : Owns(d, c) /\ Owns(e, c) => d = e
  /\ \A c \in Calls, d \in Deliveries :
       "hold" \in files[c] \/ hook[c] \in {"idle", "write"} => ~Owns(d, c)
  /\ \A c \in Calls : hook[c] \in {"idle", "write"} => "hold" \notin files[c]
  /\ \A c \in Calls, d \in Deliveries : answer[c] = d \/ took[c] = d =>
       deliv[d].call = c /\ deliv[d].at \notin {"idle", "claim", "write"}
  /\ \A d \in Deliveries : deliv[d].at # "idle" => deliv[d].call \in Calls
Receipts ==
  /\ \A c \in Calls : hook[c] \in Judging \cup {"output", "answered"} => took[c] # None
  /\ \A c \in Calls : "taken" \in files[c] => took[c] # None /\ Took(c)
Truthful == OneOwner /\ Receipts /\ ReceiptTruthful

LEMMA TruthfulInit == Init => Truthful
<1> SUFFICES ASSUME Init PROVE Truthful
  OBVIOUS
<1>1. \A d \in Deliveries : deliv[d].at = "idle" /\ d # None
  BY ChannelAssumption DEF Init, Idle
<1>2. \A c \in Calls, d \in Deliveries : ~Owns(d, c)
  BY <1>1 DEF Init, Owns, Claimants
<1> QED
  BY <1>1, <1>2 DEF Init, Truthful, OneOwner, Receipts, ReceiptTruthful, Judging

\* What a hook's step does to what its call has to do with.
LEMMA HookHands ==
  ASSUME TypeOK, NEW c \in Calls, HookActs(c)
  PROVE  /\ took'[c] \in {took[c], answer[c]} /\ answer'[c] \in {answer[c], None}
         /\ "hold" \in files'[c] => "hold" \in files[c] \/ hook[c] = "write"
         /\ hook'[c] \in {"idle", "write"} => hook[c] \in {"idle", "write"} /\ files' = files
         /\ Took(c) => Took(c)' /\ took' = took
         /\ "taken" \in files'[c] =>
              "taken" \in files[c] \/ (hook[c] \in Judging /\ hook'[c] = "output" /\ took' = took)
         /\ hook'[c] \in Judging \cup {"output", "answered"} =>
              \/ took'[c] # None
              \/ hook[c] \in Judging \cup {"output"} /\ took' = took
              \/ hook'[c] = hook[c] /\ took' = took
<1>1. CASE HoldBegins(c) \/ WriteHold(c)
  <2>1. \/ hook[c] = "idle" /\ hook'[c] = "write" /\ files' = files
        \/ /\ hook[c] = "write" /\ hook'[c] = "list"
           /\ files'[c] = files[c] \cup {"hold"}
    BY <1>1 DEF HoldBegins, WriteHold, Go, TypeOK, disk
  <2>2. took' = took /\ answer' = answer
    BY <1>1 DEF HoldBegins, WriteHold, disk
  <2> QED
    BY <2>1, <2>2 DEF Took, Judging
<1>2. CASE ListHolds(c) \/ LookAtOther(c)
  <2>1. hook[c] \in {"list", "look"} /\ hook'[c] \in {"look", "poll", "crowded"}
    BY <1>2 DEF ListHolds, LookAtOther, AfterLooking, Go, TypeOK
  <2> QED
    BY <1>2, <2>1 DEF ListHolds, LookAtOther, Took, Judging, disk
<1>3. CASE ReadAnswer(c)
  BY <1>3 DEF ReadAnswer, Go, TypeOK, Took, Waiting, Judging
<1>4. CASE TakeAnswer(c)
  BY <1>4 DEF TakeAnswer, Go, TypeOK, Took, Judging
<1>5. CASE DiscardAnswer(c)
  BY <1>5 DEF DiscardAnswer, Go, TypeOK, Took, Judging, disk
<1>6. CASE EndHold(c)
  BY <1>6 DEF EndHold, AfterEnd, Go, TypeOK, Took, Judging
<1>7. CASE AwaitTimesOut(c)
  BY <1>7 DEF AwaitTimesOut, Go, TypeOK, Took, Judging, disk
<1>8. CASE Leave(c)
  <2>1. \/ hook[c] = "leave" /\ hook'[c] = "drawn"
        \/ hook[c] = "crowded" /\ hook'[c] = "passed"
        \/ hook[c] = "output" /\ hook'[c] = "answered"
    BY <1>8, PlacesFacts DEF Leave, Go, TypeOK
  <2>2. took' = took /\ answer'[c] = None
    BY <1>8 DEF Leave, TypeOK
  <2>3. files'[c] = files[c] \ {"hold", "claimed", "ended"}
    BY <1>8 DEF Leave, TypeOK
  <2> QED
    BY <2>1, <2>2, <2>3 DEF Took, Judging
<1>9. CASE DeadlinePasses(c)
  BY <1>9 DEF DeadlinePasses, Took, disk, hooks
<1>10. CASE KillHook(c)
  BY <1>10 DEF KillHook, Go, TypeOK, Took, Judging, disk
<1> QED
  BY <1>1, <1>2, <1>3, <1>4, <1>5, <1>6, <1>7, <1>8, <1>9, <1>10 DEF HookActs, HookStep

LEMMA HookKeepsTruthful ==
  ASSUME TypeOK, Truthful, NEW c \in Calls, HookActs(c)
  PROVE  Truthful'
<1>1. deliv' = deliv
  BY DEF HookActs, HookStep, HoldBegins, WriteHold, ListHolds, LookAtOther, ReadAnswer,
         TakeAnswer, DiscardAnswer, EndHold, AwaitTimesOut, Leave, DeadlinePasses, KillHook
<1>2. None \notin Deliveries
  BY ChannelAssumption
<1>3. \A b \in Calls, d \in Deliveries : Owns(d, b)' => Owns(d, b)
  BY <1>1, <1>2, HookLeavesOthers, HookHands DEF Owns
<1>4. OneOwner'
  <2>1. \A b \in Calls, d, e \in Deliveries : Owns(d, b)' /\ Owns(e, b)' => d = e
    BY <1>3 DEF Truthful, OneOwner
  <2>2. \A b \in Calls, d \in Deliveries :
          "hold" \in files'[b] \/ hook'[b] \in {"idle", "write"} => ~Owns(d, b)'
    BY <1>3, HookLeavesOthers, HookHands DEF Truthful, OneOwner
  <2>3. \A b \in Calls : hook'[b] \in {"idle", "write"} => "hold" \notin files'[b]
    BY HookLeavesOthers, HookHands DEF Truthful, OneOwner
  <2>4. \A b \in Calls, d \in Deliveries : answer'[b] = d \/ took'[b] = d =>
          deliv'[d].call = b /\ deliv'[d].at \notin {"idle", "claim", "write"}
    BY <1>1, <1>2, HookLeavesOthers, HookHands DEF Truthful, OneOwner
  <2> QED
    BY <1>1, <2>1, <2>2, <2>3, <2>4 DEF Truthful, OneOwner
<1>5. Receipts'
  <2>1. \A b \in Calls : hook'[b] \in Judging \cup {"output", "answered"} => took'[b] # None
    BY HookLeavesOthers, HookHands DEF Truthful, Receipts
  <2>2. \A b \in Calls : "taken" \in files'[b] => took'[b] # None /\ Took(b)'
    BY HookLeavesOthers, HookHands DEF Truthful, Receipts, Took
  <2> QED
    BY <2>1, <2>2 DEF Receipts
<1>6. ReceiptTruthful'
  <2>1. \A b \in Calls : Took(b) => Took(b)' /\ took'[b] = took[b]
    BY HookLeavesOthers, HookHands DEF Took
  <2> QED
    BY <1>1, <2>1 DEF Truthful, ReceiptTruthful, OneOwner
<1> QED
  BY <1>4, <1>5, <1>6 DEF Truthful

\* What a deliver command's step does.
LEMMA DeliverHands ==
  ASSUME TypeOK, OneOwner, NEW d \in Deliveries, DeliverActs(d)
  PROVE  /\ UNCHANGED <<hook, took>>
         /\ \A e \in Deliveries \ {d} : deliv'[e] = deliv[e]
         /\ deliv'[d].call \in Calls
         /\ deliv[d].at # "idle" => deliv'[d].call = deliv[d].call
         /\ \A c \in Calls : files'[c] \subseteq files[c] \cup {"claimed"}
         /\ \A c \in Calls :
              \/ answer'[c] \in {answer[c], None}
              \/ answer'[c] = d /\ deliv[d].call = c /\ deliv[d].at = "write"
         /\ deliv'[d].at \in Claimants =>
              \/ deliv[d].at \in {"write", "wait"}
              \/ /\ deliv[d].at = "claim" /\ "hold" \in files[deliv[d].call]
                 /\ "hold" \notin files'[deliv[d].call]
         /\ deliv'[d].at \in {"idle", "claim", "write"} => deliv[d].at \in {"idle", "claim"}
         /\ deliv'[d].at = "ok" => deliv[d].at = "wait" /\ "taken" \in files[deliv[d].call]
<1>1. CASE \E k \in Consumers, c \in Calls : DeliverBegins(d, k, c)
  <2>1. PICK k \in Consumers, c \in Calls : DeliverBegins(d, k, c)
    BY <1>1
  <2>2. deliv'[d].at = "claim" /\ deliv'[d].call = c /\ deliv[d].at = "idle"
    BY <2>1 DEF DeliverBegins, TypeOK
  <2>3. \A e \in Deliveries \ {d} : deliv'[e] = deliv[e]
    BY <2>1 DEF DeliverBegins, TypeOK
  <2>4. UNCHANGED <<hook, took, files, answer>>
    BY <2>1 DEF DeliverBegins, disk, hooks
  <2> QED
    BY <2>2, <2>3, <2>4 DEF Claimants
<1>2. CASE DeliverStep(d) \/ KillDeliver(d)
  <2>1. deliv[d].at # "idle" /\ deliv[d].call \in Calls /\ UNCHANGED <<hook, took>>
    BY <1>2 DEF DeliverStep, ClaimHold, ClaimFails, WriteAnswer, SeeReceipt, ReceiptTimesOut,
           KillDeliver, OneOwner, hooks
  <2>2. /\ \A e \in Deliveries \ {d} : deliv'[e] = deliv[e]
        /\ deliv'[d].call = deliv[d].call
    BY <1>2, DeliverGoesTyped, PlacesFacts
    DEF DeliverStep, ClaimHold, ClaimFails, WriteAnswer, SeeReceipt, ReceiptTimesOut, KillDeliver
  <2>3. CASE ClaimHold(d)
    <3>1. deliv'[d].at = "write" /\ answer' = answer
      BY <2>3, DeliverGoesTyped, PlacesFacts DEF ClaimHold
    <3>2. /\ deliv[d].at = "claim" /\ "hold" \in files[deliv[d].call]
          /\ files' = [files EXCEPT ![deliv[d].call] = (@ \ {"hold"}) \cup {"claimed"}]
      BY <2>3 DEF ClaimHold, Claims
    <3>3. "hold" \notin files'[deliv[d].call]
          /\ \A c \in Calls : files'[c] \subseteq files[c] \cup {"claimed"}
      BY <2>1, <3>2 DEF TypeOK
    <3> QED
      BY <2>1, <2>2, <3>1, <3>2, <3>3
  <2>4. CASE ClaimFails(d) \/ KillDeliver(d)
    <3>1. deliv'[d].at \in {"refused", "killed"} /\ UNCHANGED <<files, answer>>
      BY <2>4, DeliverGoesTyped, PlacesFacts DEF ClaimFails, KillDeliver, disk
    <3> QED
      BY <2>1, <2>2, <3>1 DEF Claimants
  <2>5. CASE WriteAnswer(d)
    <3>1. deliv'[d].at = "wait" /\ deliv[d].at = "write" /\ files' = files
      BY <2>5, DeliverGoesTyped, PlacesFacts DEF WriteAnswer
    <3>2. \A c \in Calls : answer'[c] = answer[c] \/ (answer'[c] = d /\ c = deliv[d].call)
      BY <2>5 DEF WriteAnswer, TypeOK
    <3> QED
      BY <2>1, <2>2, <3>1, <3>2
  <2>6. CASE SeeReceipt(d)
    <3>1. /\ deliv'[d].at = "ok" /\ deliv[d].at = "wait" /\ answer' = answer
          /\ "taken" \in files[deliv[d].call]
      BY <2>6, DeliverGoesTyped, PlacesFacts DEF SeeReceipt, Receipted
    <3>2. \A c \in Calls : files'[c] \subseteq files[c]
      BY <2>6 DEF SeeReceipt, TypeOK
    <3> QED
      BY <2>1, <2>2, <3>1, <3>2
  <2>7. CASE ReceiptTimesOut(d)
    <3>1. deliv'[d].at = "undelivered" /\ deliv[d].at = "wait" /\ files' = files
      BY <2>7, DeliverGoesTyped, PlacesFacts DEF ReceiptTimesOut
    <3>2. \A c \in Calls : answer'[c] \in {answer[c], None}
      BY <2>7 DEF ReceiptTimesOut, TypeOK
    <3> QED
      BY <2>1, <2>2, <3>1, <3>2
  <2> QED
    BY <1>2, <2>3, <2>4, <2>5, <2>6, <2>7 DEF DeliverStep
<1> QED
  BY <1>1, <1>2 DEF DeliverActs

LEMMA DeliverKeepsTruthful ==
  ASSUME TypeOK, Truthful, NEW d \in Deliveries, DeliverActs(d)
  PROVE  Truthful'
<1>1. OneOwner /\ Receipts /\ ReceiptTruthful /\ None \notin Deliveries
  BY ChannelAssumption DEF Truthful
<1>2. \A c \in Calls, e \in Deliveries \ {d} : Owns(e, c)' => Owns(e, c)
  BY <1>1, DeliverHands DEF Owns
<1>3. ASSUME NEW c \in Calls, Owns(d, c)'
      PROVE  Owns(d, c) \/ ("hold" \in files[c] /\ "hold" \notin files'[c])
  <2>1. CASE answer'[c] = d
    BY <1>1, <2>1, DeliverHands DEF Owns, Claimants
  <2>2. CASE took'[c] = d
    BY <2>2, <1>1, DeliverHands DEF Owns
  <2>3. CASE deliv'[d].call = c /\ deliv'[d].at \in Claimants
    <3>1. deliv[d].call = c
      BY <1>1, <2>3, DeliverHands
    <3> QED
      BY <1>1, <2>3, <3>1, DeliverHands DEF Owns, Claimants
  <2> QED
    BY <1>3, <2>1, <2>2, <2>3 DEF Owns
<1>4. OneOwner'
  <2>1. \A c \in Calls, e, g \in Deliveries : Owns(e, c)' /\ Owns(g, c)' => e = g
    BY <1>1, <1>2, <1>3 DEF OneOwner
  <2>2. \A c \in Calls, e \in Deliveries :
          "hold" \in files'[c] \/ hook'[c] \in {"idle", "write"} => ~Owns(e, c)'
    BY <1>1, <1>2, <1>3, DeliverHands DEF OneOwner
  <2>3. \A c \in Calls : hook'[c] \in {"idle", "write"} => "hold" \notin files'[c]
    BY <1>1, DeliverHands DEF OneOwner
  <2>4. \A c \in Calls, e \in Deliveries : answer'[c] = e \/ took'[c] = e =>
          deliv'[e].call = c /\ deliv'[e].at \notin {"idle", "claim", "write"}
    BY <1>1, DeliverHands DEF OneOwner
  <2>5. \A e \in Deliveries : deliv'[e].at # "idle" => deliv'[e].call \in Calls
    BY <1>1, DeliverHands DEF OneOwner
  <2> QED
    BY <2>1, <2>2, <2>3, <2>4, <2>5 DEF OneOwner
<1>5. Receipts'
  BY <1>1, DeliverHands DEF Receipts, Took
<1>6. ReceiptTruthful'
  <2>1. ASSUME deliv'[d].at = "ok"
        PROVE  took'[deliv'[d].call] = d /\ Took(deliv[d].call)'
    <3>1. /\ deliv[d].at = "wait" /\ deliv[d].call \in Calls /\ deliv'[d].call = deliv[d].call
          /\ "taken" \in files[deliv[d].call]
      BY <1>1, <2>1, DeliverHands DEF OneOwner
    <3>2. took[deliv[d].call] \in Deliveries /\ Took(deliv[d].call)
      BY <1>1, <3>1 DEF Receipts, TypeOK
    <3>3. Owns(d, deliv[d].call) /\ Owns(took[deliv[d].call], deliv[d].call)
      BY <3>1 DEF Owns, Claimants
    <3>4. took[deliv[d].call] = d
      BY <1>1, <3>1, <3>2, <3>3 DEF OneOwner
    <3> QED
      BY <3>1, <3>2, <3>4, DeliverHands, <1>1 DEF Took
  <2>2. \A e \in Deliveries \ {d} : deliv'[e].at = "ok" =>
          took'[deliv'[e].call] = e /\ Took(deliv[e].call)'
    BY <1>1, DeliverHands DEF ReceiptTruthful, Took
  <2> QED
    BY <2>1, <2>2 DEF ReceiptTruthful
<1> QED
  BY <1>4, <1>5, <1>6 DEF Truthful

LEMMA NextTruthful ==
  ASSUME TypeOK, Truthful, [Next]_vars
  PROVE  Truthful'
<1>1. CASE UNCHANGED <<disk, overdue, hooks, deliv>>
  BY <1>1 DEF disk, hooks, Truthful, OneOwner, Receipts, ReceiptTruthful, Owns, Took
<1>2. CASE \/ LeaseLapses \/ UNCHANGED vars
           \/ \E k \in Consumers : \/ Release(k)
                                   \/ \E b \in BOOLEAN : TakeLease(k, b) \/ Renew(k, b)
  BY <1>1, <1>2 DEF LeaseLapses, Release, TakeLease, Renew, Grant, vars
<1> QED
  BY <1>2, Split, HookKeepsTruthful, DeliverKeepsTruthful

\* A consumer is told that its answer was delivered only of an answer the hook took
\* (Deliver), however many consumers, deliveries and calls there are, and wherever
\* they are killed or a wait is cut short.
THEOREM ReceiptsTruthful == Spec => []ReceiptTruthful
<1>1. Truthful => ReceiptTruthful
  BY DEF Truthful
<1> QED
  BY <1>1, InitType, NextKeepsType, TruthfulInit, NextTruthful, PTL DEF Spec

-----------------------------------------------------------------------------
(* Credit. *)

\* Who holds which token, wherever it is written down.  A token is minted once, for
\* one consumer, and only copied from then on.
Grants == {<<lease.token, lease.owner>>}
          \cup {<<known[k], k>> : k \in Consumers}
          \cup {<<mine[c].token, mine[c].owner>> : c \in Calls}
          \cup {<<deliv[d].token, deliv[d].by>> : d \in Deliveries}
OneHolder ==
  /\ \A g, h \in Grants : g[1] = h[1] /\ g[1] # 0 => g[2] = h[2]
  /\ \A g \in Grants : g[1] <= minted
Credited ==
  /\ \A c \in Calls : hook[c] # "idle" => mine[c].token # 0
  /\ \A c \in Calls : hook[c] \in {"output", "answered"} =>
       deliv[took[c]].token = mine[c].token

LEMMA OneHolderInit == Init => OneHolder
<1> SUFFICES ASSUME Init PROVE OneHolder
  OBVIOUS
<1>1. \A g \in Grants : g[1] = 0
  BY DEF Init, Grants, NoLease, Idle
<1> QED
  BY <1>1 DEF OneHolder, Init

LEMMA GrantsTyped ==
  ASSUME TypeOK
  PROVE  \A g \in Grants : g[1] \in Nat
BY ChannelAssumption DEF TypeOK, Grants, Tokens, Leases

\* A step that writes one more pair keeps them apart, if it is no holder's, new, or a copy.
LEMMA GrantsGrow ==
  ASSUME TypeOK, OneHolder, NEW t \in Nat, NEW k,
         t = 0 \/ t > minted \/ <<t, k>> \in Grants,
         Grants' \subseteq Grants \cup {<<t, k>>},
         minted' \in Nat, minted <= minted', t <= minted'
  PROVE  OneHolder'
<1>1. minted \in Nat /\ \A g \in Grants : g[1] \in Nat /\ g[1] <= minted
  BY ChannelAssumption, GrantsTyped DEF OneHolder, TypeOK, Tokens
<1>2. \A g \in Grants' : g[1] \in Nat /\ g[1] <= minted'
  BY <1>1
<1>3. ASSUME NEW g \in Grants', NEW h \in Grants', g[1] = h[1], g[1] # 0
      PROVE  g[2] = h[2]
  <2>1. CASE g \in Grants /\ h \in Grants
    BY <1>3, <2>1 DEF OneHolder
  <2>2. CASE t > minted
    BY <1>1, <1>3, <2>1, <2>2
  <2>3. CASE t = 0
    BY <1>3, <2>1, <2>3
  <2>4. CASE <<t, k>> \in Grants
    BY <2>1, <2>4
  <2> QED
    BY <2>2, <2>3, <2>4
<1> QED
  BY <1>2, <1>3 DEF OneHolder

LEMMA LeaseKeepsHolders ==
  ASSUME TypeOK, OneHolder,
         \/ LeaseLapses
         \/ \E k \in Consumers : \/ Release(k)
                                 \/ \E b \in BOOLEAN : TakeLease(k, b) \/ Renew(k, b)
  PROVE  OneHolder'
<1>1. UNCHANGED <<hooks, deliv>> /\ minted \in Nat /\ lease.token \in Nat /\ lease.token <= minted
  <2>1. <<lease.token, lease.owner>> \in Grants
    BY DEF Grants
  <2> QED
    BY <2>1, ChannelAssumption
    DEF LeaseLapses, Release, TakeLease, Renew, Grant, TypeOK, Tokens, Leases, OneHolder
<1>2. ASSUME NEW k \in Consumers, NEW t, NEW b \in BOOLEAN, Grant(k, t, b)
      PROVE  Grants' \subseteq Grants \cup {<<t, k>>}
  BY <1>1, <1>2 DEF Grant, Grants, hooks, TypeOK
<1>3. CASE LeaseLapses
  <2>1. lease'.token = lease.token /\ lease'.owner = lease.owner /\ UNCHANGED <<known, minted>>
    BY <1>3 DEF LeaseLapses, TypeOK, Leases
  <2>2. Grants' = Grants
    BY <1>1, <2>1 DEF Grants, hooks
  <2> QED
    BY <2>1, <2>2 DEF OneHolder
<1>4. CASE \E k \in Consumers : Release(k)
  <2>1. lease' = NoLease /\ UNCHANGED <<known, minted>>
    BY <1>4 DEF Release
  <2>2. Grants' \subseteq Grants \cup {<<0, None>>}
    BY <1>1, <2>1 DEF Grants, hooks, NoLease
  <2>3. 0 \in Nat /\ minted' \in Nat /\ minted <= minted' /\ 0 <= minted'
    BY <1>1, <2>1
  <2> QED
    BY <2>2, <2>3, GrantsGrow, Zenon
<1>5. CASE \E k \in Consumers, b \in BOOLEAN : TakeLease(k, b)
  <2>1. PICK k \in Consumers, b \in BOOLEAN : TakeLease(k, b)
    BY <1>5
  <2>2. minted' = minted + 1 /\ Grant(k, minted + 1, b)
    BY <2>1 DEF TakeLease
  <2>3. Grants' \subseteq Grants \cup {<<minted + 1, k>>}
    BY <1>2, <2>2
  <2>4. /\ minted + 1 \in Nat /\ minted + 1 > minted
        /\ minted' \in Nat /\ minted <= minted' /\ minted + 1 <= minted'
    BY <1>1, <2>2
  <2> QED
    BY <2>3, <2>4, GrantsGrow, Zenon
<1>6. CASE \E k \in Consumers, b \in BOOLEAN : Renew(k, b)
  <2>1. PICK k \in Consumers, b \in BOOLEAN : Renew(k, b)
    BY <1>6
  <2>2. minted' = minted /\ Grant(k, lease.token, b)
    BY <2>1 DEF Renew
  <2>4. Grants' \subseteq Grants \cup {<<lease.token, k>>}
    BY <1>2, <2>2
  <2>3. <<lease.token, k>> \in Grants
    BY <2>1 DEF Renew, Grants
  <2> QED
    BY <1>1, <2>2, <2>3, <2>4, GrantsGrow
<1> QED
  BY <1>3, <1>4, <1>5, <1>6

LEMMA ActsKeepHolders ==
  ASSUME TypeOK, OneHolder, UNCHANGED <<lease, minted, known>>,
         \A c \in Calls : mine'[c] \in {mine[c], lease},
         \A d \in Deliveries :
           \/ deliv'[d].token = deliv[d].token /\ deliv'[d].by = deliv[d].by
           \/ \E k \in Consumers : deliv'[d].token = known[k] /\ deliv'[d].by = k
  PROVE  OneHolder'
<1>1. Grants' \subseteq Grants
  <2>1. \A c \in Calls : <<mine'[c].token, mine'[c].owner>> \in Grants
    BY DEF Grants
  <2>2. \A d \in Deliveries : <<deliv'[d].token, deliv'[d].by>> \in Grants
    BY DEF Grants
  <2> QED
    BY <2>1, <2>2 DEF Grants
<1> QED
  BY <1>1 DEF OneHolder

LEMMA NextCredited ==
  ASSUME TypeOK, OneOwner, Receipts, OneHolder, Credited, [Next]_vars
  PROVE  OneHolder' /\ Credited'
<1>1. CASE \E c \in Calls : HookActs(c)
  <2>1. PICK c \in Calls : HookActs(c)
    BY <1>1
  <2>2. UNCHANGED <<leases, deliv>>
    BY <2>1 DEF HookActs, HookStep, HoldBegins, WriteHold, ListHolds, LookAtOther, ReadAnswer,
           TakeAnswer, DiscardAnswer, EndHold, AwaitTimesOut, Leave, DeadlinePasses, KillHook
  <2>3. \/ mine' = mine /\ (hook[c] # "idle" \/ hook' = hook)
        \/ mine'[c] = lease /\ hook[c] = "idle" /\ hook'[c] = "write" /\ lease.token # 0
    BY <2>1 DEF HookActs, HookStep, HoldBegins, WriteHold, ListHolds, LookAtOther, ReadAnswer,
           TakeAnswer, DiscardAnswer, EndHold, AwaitTimesOut, Leave, DeadlinePasses, KillHook,
           hooks, Live, Waiting, Judging, Done, Go, TypeOK, Outcome
  <2>4. hook'[c] \in {"output", "answered"} =>
          /\ took' = took /\ mine' = mine
          /\ hook[c] \in {"output", "answered"} \/ Accepts(c)
    <3>1. CASE HoldBegins(c) \/ WriteHold(c) \/ ListHolds(c) \/ LookAtOther(c)
      BY <3>1 DEF HoldBegins, WriteHold, ListHolds, LookAtOther, AfterLooking, Go, TypeOK
    <3>2. CASE ReadAnswer(c) \/ DiscardAnswer(c) \/ EndHold(c) \/ AwaitTimesOut(c)
      BY <3>2 DEF ReadAnswer, DiscardAnswer, EndHold, AfterEnd, AwaitTimesOut, Go, TypeOK
    <3>3. CASE TakeAnswer(c) \/ KillHook(c) \/ DeadlinePasses(c)
      BY <3>3 DEF TakeAnswer, KillHook, DeadlinePasses, Go, TypeOK, hooks
    <3>4. CASE Leave(c)
      BY <3>4, PlacesFacts DEF Leave, Go, TypeOK
    <3> QED
      BY <2>1, <3>1, <3>2, <3>3, <3>4 DEF HookActs, HookStep
  <2>5. OneHolder'
    BY <2>1, <2>2, <2>3, HookLeavesOthers, ActsKeepHolders DEF leases
  <2>6. \A b \in Calls : hook'[b] # "idle" => mine'[b].token # 0
    BY <2>1, <2>3, HookLeavesOthers DEF Credited
  <2>7. \A b \in Calls : hook'[b] \in {"output", "answered"} =>
           deliv'[took'[b]].token = mine'[b].token
    BY <2>1, <2>2, <2>4, HookLeavesOthers DEF Credited, Accepts
  <2> QED
    BY <2>5, <2>6, <2>7 DEF Credited
<1>2. CASE \E d \in Deliveries : DeliverActs(d)
  <2>1. PICK d \in Deliveries : DeliverActs(d)
    BY <1>2
  <2>2. UNCHANGED <<leases, hook, mine, took>>
    BY <2>1 DEF DeliverActs, DeliverStep, DeliverBegins, ClaimHold, ClaimFails, WriteAnswer,
           SeeReceipt, ReceiptTimesOut, KillDeliver, hooks
  <2>3. \/ deliv'[d].token = deliv[d].token /\ deliv'[d].by = deliv[d].by
        \/ /\ deliv[d].at = "idle"
           /\ \E k \in Consumers : deliv'[d].token = known[k] /\ deliv'[d].by = k
    <3>1. CASE \E k \in Consumers, c \in Calls : DeliverBegins(d, k, c)
      BY <3>1 DEF DeliverBegins, TypeOK
    <3>2. CASE DeliverStep(d) \/ KillDeliver(d)
      BY <3>2, DeliverGoesTyped, PlacesFacts
      DEF DeliverStep, ClaimHold, ClaimFails, WriteAnswer, SeeReceipt, ReceiptTimesOut, KillDeliver
    <3> QED
      BY <2>1, <3>1, <3>2 DEF DeliverActs
  <2>4. \A e \in Deliveries \ {d} : deliv'[e] = deliv[e]
    BY <2>1, DeliverHands
  <2>5. OneHolder'
    BY <2>2, <2>3, <2>4, ActsKeepHolders DEF leases
  <2>6. \A c \in Calls : hook[c] \in {"output", "answered"} =>
          deliv'[took[c]].token = deliv[took[c]].token
    <3> SUFFICES ASSUME NEW c \in Calls, hook[c] \in {"output", "answered"}
                 PROVE  deliv'[took[c]].token = deliv[took[c]].token
      OBVIOUS
    <3>1. took[c] \in Deliveries
      BY DEF Receipts, TypeOK
    <3>2. deliv[took[c]].at # "idle"
      BY <3>1 DEF OneOwner
    <3> QED
      BY <2>3, <2>4, <3>1, <3>2
  <2>7. Credited'
    BY <2>2, <2>6 DEF Credited
  <2> QED
    BY <2>5, <2>7
<1>3. CASE \/ LeaseLapses
           \/ \E k \in Consumers : \/ Release(k)
                                   \/ \E b \in BOOLEAN : TakeLease(k, b) \/ Renew(k, b)
  <2>1. UNCHANGED <<hooks, deliv>>
    BY <1>3 DEF LeaseLapses, Release, TakeLease, Renew, Grant
  <2> QED
    BY <1>3, <2>1, LeaseKeepsHolders DEF Credited, hooks
<1>4. CASE UNCHANGED vars
  BY <1>4 DEF vars, leases, hooks, OneHolder, Grants, Credited
<1> QED
  BY <1>1, <1>2, <1>3, <1>4, Split

\* The answer the agent gets is credited to the consumer that sent it (takeAnswer),
\* though leases lapse, are renewed, are taken over and are released meanwhile.
THEOREM CreditsRight == Spec => []CreditedRight
<1>1. Truthful => OneOwner /\ Receipts
  BY DEF Truthful
<1>2. Init => Credited
  BY DEF Init, Credited
<1>3. ASSUME TypeOK, OneOwner, Receipts, OneHolder, Credited PROVE CreditedRight
  <2> SUFFICES ASSUME NEW c \in Calls, hook[c] \in {"output", "answered"}
               PROVE  deliv[took[c]].by = mine[c].owner
    BY DEF CreditedRight
  <2>1. took[c] \in Deliveries
    BY <1>3 DEF Receipts, TypeOK
  <2>2. /\ <<mine[c].token, mine[c].owner>> \in Grants
        /\ <<deliv[took[c]].token, deliv[took[c]].by>> \in Grants
    BY <2>1 DEF Grants
  <2>3. mine[c].token # 0 /\ deliv[took[c]].token = mine[c].token
    BY <1>3 DEF Credited
  <2> QED
    BY <1>3, <2>2, <2>3 DEF OneHolder
<1> QED
  BY <1>1, <1>2, <1>3, InitType, NextKeepsType, TruthfulInit, NextTruthful, OneHolderInit,
     NextCredited, PTL DEF Spec

-----------------------------------------------------------------------------
(* An answer that does not land. *)

\* Where a hook is while its hold can be claimed.
Claimable == {"list", "look", "poll", "crowded", "killed"}
HoldsClaimable == \A c \in Calls : "hold" \in files[c] => hook[c] \in Claimable

\* A hook that may still read an answer; one that will never take any; one that
\* will not take d's, of another lease.
MayRead(c) == hook[c] \in {"list", "look", "poll", "late"}
Over(c) == hook[c] \in {"crowded", "passed", "killed"}
Mismatched(d, c) ==
  deliv[d].token # mine[c].token /\ hook[c] \notin {"output", "answered"}
\* What becomes of the answer of a delivery that has claimed the call.
Lands(d, c) ==
  /\ deliv[d].at = "write" => MayRead(c) \/ Over(c)
  /\ deliv[d].at = "wait" =>
       \/ Over(c) \/ Mismatched(d, c)
       \/ answer[c] = d /\ MayRead(c)
       \/ took[c] = d /\ (hook[c] \in Judging \/ "taken" \in files[c])
  /\ deliv[d].at = "undelivered" => Over(c) \/ Mismatched(d, c)
AllLand ==
  ~hasty => \A d \in Deliveries, c \in Calls : deliv[d].call = c => Lands(d, c)

LEMMA LandingInit == Init => HoldsClaimable /\ AllLand
  BY DEF Init, HoldsClaimable, AllLand, Lands, Idle

\* A call that is claimed is one delivery's alone.
LEMMA ClaimedAlone ==
  ASSUME TypeOK, Truthful, NEW d \in Deliveries, NEW c \in Calls, deliv[d].call = c,
         deliv[d].at \in {"write", "wait", "undelivered"}
  PROVE  /\ "hold" \notin files[c] /\ hook[c] \notin {"idle", "write"}
         /\ took[c] \in {None, d} /\ answer[c] \in {None, d}
         /\ deliv[d].at = "write" => /\ took[c] = None /\ answer[c] = None
                                     /\ hook[c] \notin Judging \cup {"output", "answered"}
<1>1. OneOwner /\ Receipts /\ None \notin Deliveries
  BY ChannelAssumption DEF Truthful
<1>2. Owns(d, c)
  BY DEF Owns, Claimants
<1>3. took[c] \in {None, d} /\ answer[c] \in {None, d}
  <2>1. \A e \in Deliveries : took[c] = e \/ answer[c] = e => e = d
    BY <1>1, <1>2 DEF OneOwner, Owns
  <2> QED
    BY <2>1 DEF TypeOK
<1>4. deliv[d].at = "write" => took[c] # d /\ answer[c] # d
  BY <1>1 DEF OneOwner
<1> QED
  BY <1>1, <1>2, <1>3, <1>4 DEF OneOwner, Receipts

LEMMA HookKeepsClaimable ==
  ASSUME TypeOK, Truthful, HoldsClaimable, NEW c \in Calls, HookActs(c)
  PROVE  HoldsClaimable'
<1>1. /\ "hold" \in files[c] => took[c] = None /\ answer[c] = None
      /\ hook[c] \in Judging \cup {"output", "answered"} => took[c] # None
      /\ "hold" \in files[c] => hook[c] \in Claimable
  <2>1. OneOwner /\ Receipts
    BY DEF Truthful
  <2>2. "hold" \in files[c] => \A d \in Deliveries : took[c] # d /\ answer[c] # d
    BY <2>1 DEF OneOwner, Owns
  <2> QED
    BY <2>1, <2>2 DEF Receipts, HoldsClaimable, TypeOK
<1>2. ASSUME "hold" \in files'[c] PROVE hook'[c] \in Claimable
  <2>1. CASE HoldBegins(c) \/ WriteHold(c)
    BY <1>1, <1>2, <2>1 DEF HoldBegins, WriteHold, Go, Claimable, TypeOK, disk
  <2>2. CASE ListHolds(c) \/ LookAtOther(c)
    <3>1. hook'[c] \in {"look", "poll", "crowded"}
      BY <2>2 DEF ListHolds, LookAtOther, AfterLooking, Go, TypeOK
    <3> QED
      BY <3>1 DEF Claimable
  <2>3. CASE ReadAnswer(c) \/ TakeAnswer(c) \/ DiscardAnswer(c) \/ AwaitTimesOut(c)
    <3>1. files'[c] = files[c] \/ files'[c] = files[c] \cup {"taken"}
      BY <2>3 DEF ReadAnswer, TakeAnswer, DiscardAnswer, AwaitTimesOut, TypeOK, disk
    <3>2. "hold" \in files[c]
      BY <1>2, <3>1
    <3> QED
      BY <1>1, <2>3, <3>2
      DEF ReadAnswer, TakeAnswer, DiscardAnswer, AwaitTimesOut, Waiting, Claimable
  <2>4. CASE EndHold(c)
    BY <1>2, <2>4 DEF EndHold, TypeOK
  <2>5. CASE Leave(c)
    BY <1>2, <2>5 DEF Leave, TypeOK
  <2>6. CASE DeadlinePasses(c) \/ KillHook(c)
    BY <1>1, <1>2, <2>6 DEF DeadlinePasses, KillHook, Go, Claimable, TypeOK, disk, hooks
  <2> QED
    BY <2>1, <2>2, <2>3, <2>4, <2>5, <2>6 DEF HookActs, HookStep
<1> QED
  BY <1>2, HookLeavesOthers DEF HoldsClaimable

\* The hook of a claimed call reads the answer, and leaves for nothing else; only
\* a wait cut short, or its end, comes between.
LEMMA HookKeepsLands ==
  ASSUME TypeOK, Truthful, NEW c \in Calls, HookActs(c), ~hasty',
         NEW d \in Deliveries, deliv[d].call = c, Lands(d, c)
  PROVE  Lands(d, c)'
<1>1. deliv' = deliv /\ deliv[d].at' = deliv[d].at
  BY DEF HookActs, HookStep, HoldBegins, WriteHold, ListHolds, LookAtOther, ReadAnswer,
         TakeAnswer, DiscardAnswer, EndHold, AwaitTimesOut, Leave, DeadlinePasses, KillHook
<1> SUFFICES ASSUME deliv[d].at \in {"write", "wait", "undelivered"} PROVE Lands(d, c)'
  BY <1>1 DEF Lands
<1>2. /\ "hold" \notin files[c] /\ hook[c] \notin {"idle", "write"}
      /\ took[c] \in {None, d} /\ answer[c] \in {None, d}
      /\ deliv[d].at = "write" => /\ took[c] = None /\ answer[c] = None
                                  /\ hook[c] \notin Judging \cup {"output", "answered"}
  BY ClaimedAlone
<1>3. CASE HoldBegins(c) \/ WriteHold(c)
  BY <1>2, <1>3 DEF HoldBegins, WriteHold
<1>4. CASE ListHolds(c) \/ LookAtOther(c)
  <2>1. /\ hook[c] \in {"list", "look"} /\ hook'[c] \in {"look", "poll", "crowded"}
        /\ UNCHANGED <<answer, took, mine, files>>
    BY <1>4 DEF ListHolds, LookAtOther, AfterLooking, Go, TypeOK, disk
  <2> QED
    BY <1>1, <2>1 DEF Lands, MayRead, Over, Mismatched, Judging
<1>5. CASE ReadAnswer(c)
  <2>1. /\ hook[c] \in Waiting /\ answer[c] # None /\ took'[c] = answer[c]
        /\ hook'[c] \in Judging /\ UNCHANGED <<files, mine>>
    BY <1>5 DEF ReadAnswer, Go, TypeOK, Judging
  <2> QED
    BY <1>1, <1>2, <2>1 DEF Lands, MayRead, Over, Mismatched, Judging, Waiting
<1>6. CASE TakeAnswer(c)
  <2>1. /\ hook[c] \in Judging /\ Accepts(c) /\ hook'[c] = "output"
        /\ files'[c] = files[c] \cup {"taken"} /\ UNCHANGED <<answer, took, mine>>
    BY <1>6 DEF TakeAnswer, Go, TypeOK, Judging
  <2>2. took[c] = d
    BY <1>2, <2>1 DEF Truthful, Receipts
  <2> QED
    BY <1>1, <1>2, <2>1, <2>2 DEF Lands, MayRead, Over, Mismatched, Judging, Accepts
<1>7. CASE DiscardAnswer(c)
  <2>1. /\ hook[c] \in Judging /\ ~Accepts(c) /\ hook'[c] \in {"poll", "late"}
        /\ UNCHANGED <<files, answer, took, mine>>
    BY <1>7 DEF DiscardAnswer, Go, TypeOK, disk
  <2>2. took[c] = d
    BY <1>2, <2>1 DEF Truthful, Receipts
  <2> QED
    BY <1>1, <1>2, <2>1, <2>2 DEF Lands, MayRead, Over, Mismatched, Judging, Accepts
<1>8. CASE EndHold(c)
  <2>1. /\ hook[c] = "poll" /\ answer[c] = None /\ hook'[c] = "late"
        /\ files'[c] = files[c] /\ UNCHANGED <<answer, took, mine>>
    BY <1>2, <1>8 DEF EndHold, AfterEnd, Go, TypeOK
  <2> QED
    BY <1>1, <2>1, ChannelAssumption DEF Lands, MayRead, Over, Mismatched, Judging
<1>9. CASE AwaitTimesOut(c)
  <2>1. /\ hook[c] = "late" /\ answer[c] = None /\ hook'[c] = "leave"
        /\ InTime(~Sending(c)) /\ UNCHANGED <<files, answer, took, mine>>
    BY <1>9 DEF AwaitTimesOut, Go, TypeOK, disk
  <2>2. ~Sending(c)
    BY <2>1 DEF InTime
  <2>3. deliv[d].at # "write"
    BY <2>2 DEF Sending
  <2> QED
    BY <1>1, <2>1, <2>3, ChannelAssumption DEF Lands, MayRead, Over, Mismatched, Judging
<1>10. CASE Leave(c)
  <2>1. \/ hook[c] = "leave" /\ hook'[c] = "drawn"
        \/ hook[c] = "crowded" /\ hook'[c] = "passed"
        \/ hook[c] = "output" /\ hook'[c] = "answered"
    BY <1>10, PlacesFacts DEF Leave, Go, TypeOK
  <2>2. UNCHANGED <<took, mine>> /\ files'[c] = files[c] \ {"hold", "claimed", "ended"}
    BY <1>10 DEF Leave, TypeOK
  <2> QED
    BY <1>1, <1>2, <2>1, <2>2 DEF Lands, MayRead, Over, Mismatched, Judging
<1>11. CASE DeadlinePasses(c)
  BY <1>1, <1>11 DEF DeadlinePasses, disk, hooks, Lands, MayRead, Over, Mismatched
<1>12. CASE KillHook(c)
  <2>1. hook'[c] = "killed"
    BY <1>12 DEF KillHook, Go, TypeOK
  <2> QED
    BY <1>1, <2>1 DEF Lands, Over
<1> QED
  BY <1>3, <1>4, <1>5, <1>6, <1>7, <1>8, <1>9, <1>10, <1>11, <1>12 DEF HookActs, HookStep

\* A deliver command leaves the files of other calls alone, and its own call's but
\* for the claim, its answer and its receipt.
LEMMA DeliverLeaves ==
  ASSUME TypeOK, OneOwner, NEW d \in Deliveries, DeliverActs(d),
         NEW c \in Calls, ~(deliv[d].call = c /\ deliv[d].at \in {"write", "wait"})
  PROVE  answer'[c] = answer[c] /\ ("taken" \in files[c] => "taken" \in files'[c])
<1>1. CASE (\E k \in Consumers, b \in Calls : DeliverBegins(d, k, b))
           \/ ClaimFails(d) \/ KillDeliver(d)
  BY <1>1 DEF DeliverBegins, ClaimFails, KillDeliver, disk
<1>2. CASE ClaimHold(d)
  BY <1>2 DEF ClaimHold, TypeOK, OneOwner
<1>3. CASE WriteAnswer(d)
  BY <1>3 DEF WriteAnswer, TypeOK
<1>4. CASE SeeReceipt(d)
  BY <1>4 DEF SeeReceipt, TypeOK
<1>5. CASE ReceiptTimesOut(d)
  BY <1>5 DEF ReceiptTimesOut, TypeOK
<1> QED
  BY <1>1, <1>2, <1>3, <1>4, <1>5 DEF DeliverActs, DeliverStep

LEMMA DeliverKeepsLands ==
  ASSUME TypeOK, Truthful, HoldsClaimable, AllLand, NEW d \in Deliveries,
         DeliverActs(d)
  PROVE  AllLand'
<1>1. OneOwner /\ None \notin Deliveries /\ UNCHANGED <<hook, took, mine>>
  BY ChannelAssumption
  DEF Truthful, DeliverActs, DeliverStep, DeliverBegins, ClaimHold, ClaimFails, WriteAnswer,
      SeeReceipt, ReceiptTimesOut, KillDeliver, hooks
<1>2. hasty => hasty'
  BY DEF DeliverActs, DeliverStep, DeliverBegins, ClaimHold, ClaimFails, WriteAnswer,
         SeeReceipt, ReceiptTimesOut, InTime, KillDeliver
<1> SUFFICES ASSUME ~hasty', NEW e \in Deliveries, NEW c \in Calls, c = deliv[e].call'
             PROVE  Lands(e, c)'
  BY DEF AllLand
<1>3. ~hasty
  BY <1>2
<1>4. CASE e # d
  <2>1. deliv'[e] = deliv[e] /\ deliv[e].call = c /\ Lands(e, c)
    BY <1>1, <1>3, <1>4, DeliverHands DEF AllLand
  <2>2. CASE deliv[e].at \notin {"write", "wait", "undelivered"}
    BY <2>1, <2>2 DEF Lands
  <2>3. CASE deliv[e].at \in {"write", "wait", "undelivered"}
    <3>1. ~(deliv[d].call = c /\ deliv[d].at \in {"write", "wait"})
      <4>1. Owns(e, c) /\ (deliv[d].call = c /\ deliv[d].at \in {"write", "wait"} => Owns(d, c))
        BY <2>1, <2>3 DEF Owns, Claimants
      <4> QED
        BY <1>1, <1>4, <4>1 DEF OneOwner
    <3>2. answer'[c] = answer[c] /\ ("taken" \in files[c] => "taken" \in files'[c])
      BY <1>1, <3>1, DeliverLeaves
    <3> QED
      BY <1>1, <2>1, <3>2 DEF Lands, MayRead, Over, Mismatched
  <2> QED
    BY <2>2, <2>3
<1>5. CASE e = d
  <2>1. CASE \E k \in Consumers, b \in Calls : DeliverBegins(d, k, b)
    <3>1. deliv'[d].at = "claim"
      BY <2>1 DEF DeliverBegins, TypeOK
    <3> QED
      BY <1>5, <3>1 DEF Lands
  <2>2. ASSUME DeliverStep(d) \/ KillDeliver(d)
        PROVE  /\ deliv[d].call = c /\ Lands(d, c)
               /\ deliv'[d].token = deliv[d].token
    <3>1. deliv'[d].call = deliv[d].call /\ deliv'[d].token = deliv[d].token
      BY <2>2, DeliverGoesTyped, PlacesFacts
      DEF DeliverStep, ClaimHold, ClaimFails, WriteAnswer, SeeReceipt, ReceiptTimesOut,
          KillDeliver
    <3> QED
      BY <1>3, <1>5, <3>1 DEF AllLand
  <2>3. CASE ClaimHold(d)
    <3>1. deliv'[d].at = "write" /\ "hold" \in files[c]
      BY <2>2, <2>3, DeliverGoesTyped, PlacesFacts DEF ClaimHold, Claims, DeliverStep
    <3>2. hook'[c] \in Claimable
      BY <1>1, <3>1 DEF HoldsClaimable
    <3> QED
      BY <1>5, <3>1, <3>2 DEF Lands, Claimable, MayRead, Over
  <2>4. CASE ClaimFails(d) \/ KillDeliver(d) \/ SeeReceipt(d)
    <3>1. deliv'[d].at \in {"refused", "killed", "ok"}
      BY <2>4, DeliverGoesTyped, PlacesFacts DEF ClaimFails, KillDeliver, SeeReceipt
    <3> QED
      BY <1>5, <3>1 DEF Lands
  <2>5. CASE WriteAnswer(d)
    <3>1. deliv'[d].at = "wait" /\ deliv[d].at = "write"
      BY <2>5, DeliverGoesTyped, PlacesFacts DEF WriteAnswer
    <3>2. answer'[c] = d
      BY <2>2, <2>5 DEF WriteAnswer, DeliverStep, TypeOK
    <3> QED
      BY <1>1, <1>5, <2>2, <2>5, <3>1, <3>2 DEF Lands, MayRead, Over, DeliverStep
  <2>6. CASE ReceiptTimesOut(d)
    <3>1. deliv'[d].at = "undelivered" /\ deliv[d].at = "wait" /\ "taken" \notin files[c]
      BY <2>2, <2>6, DeliverGoesTyped, PlacesFacts
      DEF ReceiptTimesOut, Receipted, DeliverStep
    <3>2. ~Landing(d)
      BY <2>6 DEF ReceiptTimesOut, InTime
    <3>3. /\ answer[c] = d => hook[c] \in Done \cup DOMAIN Outcome
          /\ took[c] = d => hook[c] \notin Judging
      BY <2>2, <2>6, <3>2 DEF Landing, DeliverStep
    <3>4. answer[c] = d => ~MayRead(c)
      BY <3>3, PlacesFacts DEF MayRead, Done
    <3>5. Over(c) \/ Mismatched(d, c)
      BY <2>2, <2>6, <3>1, <3>3, <3>4 DEF Lands, DeliverStep
    <3> QED
      BY <1>1, <1>5, <2>2, <2>6, <3>1, <3>5 DEF Lands, Over, Mismatched, DeliverStep
  <2> QED
    BY <2>1, <2>3, <2>4, <2>5, <2>6 DEF DeliverActs, DeliverStep
<1> QED
  BY <1>4, <1>5

LEMMA NextLands ==
  ASSUME TypeOK, Truthful, HoldsClaimable, AllLand, [Next]_vars
  PROVE  HoldsClaimable' /\ AllLand'
<1>1. ASSUME NEW c \in Calls, HookActs(c) PROVE HoldsClaimable' /\ AllLand'
  <2>0. deliv' = deliv
    BY <1>1
    DEF HookActs, HookStep, HoldBegins, WriteHold, ListHolds, LookAtOther, ReadAnswer,
        TakeAnswer, DiscardAnswer, EndHold, AwaitTimesOut, Leave, DeadlinePasses, KillHook
  <2>1. hasty' = hasty \/ (hasty' = TRUE)
    BY <1>1
    DEF HookActs, HookStep, HoldBegins, WriteHold, ListHolds, LookAtOther, ReadAnswer,
        TakeAnswer, DiscardAnswer, EndHold, AwaitTimesOut, InTime, Leave, DeadlinePasses,
        KillHook
  <2>2. ASSUME ~hasty', NEW d \in Deliveries, NEW b \in Calls, deliv[d].call = b
        PROVE  Lands(d, b)'
    <3>1. Lands(d, b)
      BY <2>0, <2>1, <2>2 DEF AllLand
    <3>2. CASE b = c
      BY <1>1, <2>2, <3>1, <3>2, HookKeepsLands
    <3>3. CASE b # c
      BY <1>1, <2>0, <3>1, <3>3, HookLeavesOthers DEF Lands, MayRead, Over, Mismatched
    <3> QED
      BY <3>2, <3>3
  <2>3. AllLand'
    BY <2>0, <2>2 DEF AllLand
  <2> QED
    BY <1>1, <2>3, HookKeepsClaimable
<1>2. ASSUME NEW d \in Deliveries, DeliverActs(d) PROVE HoldsClaimable' /\ AllLand'
  <2>1. \A c \in Calls : hook'[c] = hook[c] /\ ("hold" \in files'[c] => "hold" \in files[c])
    BY <1>2, DeliverHands DEF Truthful
  <2> QED
    BY <1>2, <2>1, DeliverKeepsLands DEF HoldsClaimable
<1>3. CASE UNCHANGED <<disk, hooks, deliv, hasty>>
  BY <1>3 DEF disk, hooks, HoldsClaimable, AllLand, Lands, MayRead, Over, Mismatched
<1>4. CASE \/ LeaseLapses \/ UNCHANGED vars
           \/ \E k \in Consumers : \/ Release(k)
                                   \/ \E b \in BOOLEAN : TakeLease(k, b) \/ Renew(k, b)
  BY <1>3, <1>4 DEF LeaseLapses, Release, TakeLease, Renew, Grant, vars
<1> QED
  BY <1>1, <1>2, <1>4, Split

\* A consumer told that its answer did not land may rely on the dialog (Deliver's
\* comment): unless a wait was cut short, the call's hook was killed, has drawn or
\* found another lease's token in the answer, and takes no answer after that.
THEOREM UndeliveredDrawn == Spec => []UndeliveredIsDrawn
<1>1. ASSUME TypeOK, Truthful, AllLand PROVE UndeliveredIsDrawn
  <2> SUFFICES ASSUME ~hasty, NEW d \in Deliveries, deliv[d].at = "undelivered"
               PROVE  Over(deliv[d].call) \/ Mismatched(d, deliv[d].call)
    BY DEF UndeliveredIsDrawn, Over, Mismatched
  <2>1. deliv[d].call \in Calls
    BY <1>1 DEF Truthful, OneOwner
  <2> QED
    BY <1>1, <2>1 DEF AllLand, Lands
<1> QED
  BY <1>1, InitType, NextKeepsType, TruthfulInit, NextTruthful, LandingInit, NextLands, PTL
  DEF Spec
=============================================================================
