--------------------------- MODULE MockIpaProofs ---------------------------
(***************************************************************************)
(* Theorems about the mock IPA: what its state file holds after crashes,   *)
(* which notifications of the eIM it can no longer overwrite, that an      *)
(* answer that comes in blocks is whole and its own, and that the messages *)
(* of a session go to the SM-DP+ that opened it.                           *)
(***************************************************************************)
EXTENDS MockIpa, TLAPS

IsRunner(m) == DOMAIN m = {"Device", "Next", "Required", "Presented", "Pending"}
IsCall(c) == DOMAIN c = {"At", "Answer", "Size", "Got", "Parts"}
IsRequest(r) == DOMAIN r = {"Device", "Msg", "To", "At", "Answer", "Wanted"}

(* The state of every device and request has the form the steps expect. *)
Shape ==
  /\ DOMAIN mem = Devices /\ DOMAIN disk = Devices /\ DOMAIN run = Devices /\ DOMAIN call = Devices
  /\ DOMAIN owed = Devices /\ DOMAIN want = Devices /\ DOMAIN settled = Devices /\ DOMAIN notes = Devices
  /\ \A d \in Devices : IsRunner(mem[d]) /\ IsCall(call[d])
  /\ \A r \in serving : IsRequest(r) /\ r.Device \in Devices

(* A relayed request whose answer is still wanted is the one exchange its  *)
(* device waits for.                                                       *)
Awaited ==
  /\ \A r \in serving : r.Wanted => run[r.Device].At \in RelaySteps /\ call[r.Device].At = "relayed"
  /\ \A r, s \in serving : r.Wanted /\ s.Wanted /\ r.Device = s.Device => r = s

Uploads == {"package", "data", "result"}

(* The device once the operation that is owed is saved. *)
Due(d) == IF owed[d] = <<>> THEN want[d] ELSE Effect(want[d], owed[d][1])

(* The operation in hand is of the kind its step is for. *)
KindFits(d) ==
  /\ run[d].At = "package" => run[d].Op[1].Kind = "package"
  /\ run[d].At = "data" => run[d].Op[1].Kind = "data"
  /\ run[d].At \in RelaySteps \cup {"result"} => run[d].Op[1].Kind = "trigger"

(* An upload is owed exactly when it was accepted; the memory runs ahead   *)
(* of the file only between the answer and the save.                       *)
Applied(d) ==
  /\ SavedDevice(disk[d]) = want[d]
  /\ run[d].At \in {"down", "idle", "poll"} \cup RelaySteps => owed[d] = <<>>
  /\ run[d].At \in {"idle", "poll"} \cup RelaySteps \cup Uploads => mem[d].Device = want[d]
  /\ run[d].At \in {"install", "save"} => mem[d].Device = Due(d)
  /\ run[d].At \in Uploads =>
       /\ call[d].At = "sent" \/ IsRetriableESipaError(call[d].Answer) => owed[d] = <<>>
       /\ call[d].At # "sent" /\ call[d].Answer.Kind = "ok" => owed[d] = <<run[d].Op[1]>>

DurableInv == Shape /\ Awaited /\ \A d \in Devices : KindFits(d) /\ Applied(d)

SavedNext(d) == IF disk[d] = <<>> THEN 0 ELSE disk[d][1].Next

(* Settled numbers are below the saved one, pending and later ones are not *)
(* among them.                                                             *)
Numbered(d) ==
  /\ SavedNext(d) \in Nat /\ mem[d].Next \in Nat
  /\ run[d].At # "down" => SavedNext(d) <= mem[d].Next
  /\ settled[d] \subseteq DOMAIN notes[d]
  /\ \A n \in settled[d] : n \in Int /\ n < SavedNext(d) /\ n \notin DOMAIN mem[d].Pending
  /\ \A n \in DOMAIN mem[d].Pending : n \in Int
  /\ \A n \in DOMAIN notes[d] : n \in Int
  /\ run[d].At = "install" => mem[d].Next - 1 \in DOMAIN mem[d].Pending

NumberInv == DurableInv /\ \A d \in Devices : Numbered(d)

(* Nothing settled is replaced in this step. *)
Kept == \A d \in Devices : \A n \in settled[d] : notes'[d][n] = notes[d][n]

-----------------------------------------------------------------------------
(* A device whose own state a step leaves alone keeps its invariant. *)
LEMMA OthersApplied ==
  ASSUME NEW x \in Devices, KindFits(x), Applied(x),
         run'[x] = run[x], call'[x] = call[x], mem'[x] = mem[x], disk'[x] = disk[x],
         owed'[x] = owed[x], want'[x] = want[x]
  PROVE  KindFits(x)' /\ Applied(x)'
BY Zenon DEF KindFits, Applied, Due

(* Deliver gives the device the answer and touches no other device. *)
LEMMA Delivered ==
  ASSUME DOMAIN call = Devices, NEW d \in Devices, NEW answer, Deliver(d, answer)
  PROVE  /\ DOMAIN call' = Devices
         /\ \A x \in Devices \ {d} : call'[x] = call[x]
         /\ IsCall(call'[d]) /\ call'[d].Answer = answer /\ call'[d].At \in {"blocks", "answered"}
<1>1. CASE fleet[d].Transport = "coap" /\ HasBody(answer)
  <2>. DEFINE block(size) == coapFirstBlock2Response([For |-> d, Answer |-> answer, Size |-> size])
              c(size) == [At |-> IF block(size).More THEN "blocks" ELSE "answered", Answer |-> answer,
                          Size |-> size, Got |-> block(size).End, Parts |-> {block(size).Of}]
  <2>1. PICK size \in AnswerSizes : call' = [call EXCEPT ![d] = c(size)]
    BY <1>1, Zenon DEF Deliver
  <2>2. IsCall(c(size)) /\ c(size).Answer = answer /\ c(size).At \in {"blocks", "answered"}
    BY Zenon DEF IsCall
  <2>. HIDE DEF c
  <2>. QED  BY <2>1, <2>2, Zenon
<1>2. CASE ~(fleet[d].Transport = "coap" /\ HasBody(answer))
  <2>1. call' = [call EXCEPT ![d] = [NoCall EXCEPT !.At = "answered", !.Answer = answer]]
    BY <1>2, Zenon DEF Deliver
  <2>. QED  BY <2>1, Zenon DEF NoCall, IsCall
<1>. QED  BY <1>1, <1>2, Zenon

(* The step changes the state of no device but d, and no request. *)
Only(d) ==
  /\ UNCHANGED serving
  /\ DOMAIN mem' = Devices /\ DOMAIN disk' = Devices /\ DOMAIN run' = Devices /\ DOMAIN call' = Devices
  /\ DOMAIN owed' = Devices /\ DOMAIN want' = Devices /\ DOMAIN settled' = Devices /\ DOMAIN notes' = Devices
  /\ \A x \in Devices \ {d} :
       /\ mem'[x] = mem[x] /\ disk'[x] = disk[x] /\ run'[x] = run[x] /\ call'[x] = call[x]
       /\ owed'[x] = owed[x] /\ want'[x] = want[x] /\ settled'[x] = settled[x] /\ notes'[x] = notes[x]

(* What such a step has to establish for d. *)
LEMMA OnlyApplied ==
  ASSUME DurableInv, NEW d \in Devices, Only(d),
         run[d].At \notin RelaySteps \/ call[d].At # "relayed",
         IsRunner(mem[d])', IsCall(call[d])', KindFits(d)', Applied(d)'
  PROVE  DurableInv'
<1>1. Shape'
  BY Zenon DEF Shape, DurableInv, Only
<1>2. Awaited'
  BY DEF Shape, Awaited, DurableInv, Only
<1>3. ASSUME NEW x \in Devices \ {d} PROVE KindFits(x)' /\ Applied(x)'
  BY <1>3, OthersApplied, Zenon DEF DurableInv, Only
<1>. QED  BY <1>1, <1>2, <1>3, Zenon DEF DurableInv

LEMMA StartApplied ==
  ASSUME DurableInv, NEW d \in Devices, Start(d)
  PROVE  DurableInv'
<1>1. Only(d)
  BY Zenon DEF Start, Go, Shape, DurableInv, Only, eimVars, historyVars, relayVars
<1>2. IsRunner(mem[d])' /\ IsCall(call[d])'
  BY Zenon DEF Start, Shape, DurableInv, IsRunner, IsCall, Apply, NewRunner
<1>3. KindFits(d)' /\ Applied(d)'
  BY Zenon DEF Start, Go, Shape, DurableInv, KindFits, Applied, Apply, NewRunner, SavedDevice,
         RelaySteps, Uploads, historyVars
<1>. QED  BY <1>1, <1>2, <1>3, OnlyApplied, Zenon DEF Start, RelaySteps

LEMMA PollApplied ==
  ASSUME DurableInv, NEW d \in Devices, Poll(d)
  PROVE  DurableInv'
<1>1. Only(d)
  BY Zenon DEF Poll, Send, Go, Shape, DurableInv, Only, eimVars, historyVars, relayVars
<1>2. IsRunner(mem[d])' /\ IsCall(call[d])'
  BY Zenon DEF Poll, Send, Shape, DurableInv, IsRunner, IsCall, NoCall
<1>3. KindFits(d)' /\ Applied(d)'
  BY Zenon DEF Poll, Send, Go, Shape, DurableInv, KindFits, Applied, RelaySteps, Uploads, historyVars
<1>. QED  BY <1>1, <1>2, <1>3, OnlyApplied, Zenon DEF Poll, RelaySteps

LEMMA persistApplied ==
  ASSUME DurableInv, NEW d \in Devices, persistState(d)
  PROVE  DurableInv'
<1>1. Only(d)
  BY Zenon DEF persistState, Go, Shape, DurableInv, Only, eimVars, relayVars
<1>2. IsRunner(mem[d])' /\ IsCall(call[d])'
  BY Zenon DEF persistState, Shape, DurableInv
<1>3. KindFits(d)' /\ Applied(d)'
  <2>1. mem[d].Device = Due(d) /\ want'[d] = Due(d) /\ owed'[d] = <<>> /\ mem'[d] = mem[d]
    BY Zenon DEF persistState, Shape, DurableInv, Applied, Due
  <2>2. SavedDevice(disk'[d]) = mem[d].Device
    BY Zenon DEF persistState, Shape, DurableInv, Saved, SavedDevice
  <2>. QED  BY <2>1, <2>2, Zenon DEF persistState, Go, Shape, DurableInv, KindFits, Applied, RelaySteps, Uploads
<1>. QED  BY <1>1, <1>2, <1>3, OnlyApplied, Zenon DEF persistState, RelaySteps

(* The end of a process leaves nothing owed. *)
LEMMA EndApplied ==
  ASSUME DurableInv, NEW d \in Devices, End(d), UNCHANGED <<disk, want, settled, notes>>
  PROVE  /\ UNCHANGED serving => Only(d)
         /\ IsRunner(mem[d])' /\ IsCall(call[d])' /\ KindFits(d)' /\ Applied(d)'
<1>1. UNCHANGED serving => Only(d)
  BY Zenon DEF End, Shape, DurableInv, Only
<1>2. IsRunner(mem[d])' /\ IsCall(call[d])'
  BY Zenon DEF End, Shape, DurableInv, IsRunner, IsCall, NewRunner, NoCall
<1>3. KindFits(d)' /\ Applied(d)'
  BY Zenon DEF End, Down, Shape, DurableInv, KindFits, Applied, RelaySteps, Uploads
<1>. QED  BY <1>1, <1>2, <1>3, Zenon

(* A new request is not answered yet. *)
LEMMA SendApplied ==
  ASSUME DurableInv, NEW d \in Devices, NEW step \in {"data", "result", "package"} \cup RelaySteps, NEW op, NEW tx,
         Send(d, step, op, tx), UNCHANGED <<disk, want, owed, settled, notes, serving>>,
         DOMAIN mem' = Devices, \A x \in Devices \ {d} : mem'[x] = mem[x],
         IsRunner(mem[d])', mem[d].Device = want[d], mem'[d].Device = mem[d].Device, owed[d] = <<>>,
         run[d].At \notin RelaySteps \/ call[d].At # "relayed",
         op[1].Kind = IF step \in {"data", "package"} THEN step ELSE "trigger"
  PROVE  DurableInv'
<1>1. Only(d)
  BY Zenon DEF Send, Go, Shape, DurableInv, Only
<1>2. IsCall(call[d])' /\ call'[d].At = "sent" /\ call'[d].Answer = NoAnswer
  BY Zenon DEF Send, Shape, DurableInv, IsCall, NoCall
<1>3. run'[d] = [At |-> step, Op |-> op, Tx |-> tx]
  BY Zenon DEF Send, Go, Shape, DurableInv
<1>4. KindFits(d)'
  BY <1>3 DEF KindFits, RelaySteps
<1>5. Applied(d)'
  BY <1>2, <1>3 DEF DurableInv, Applied, RelaySteps, Uploads
<1>. QED  BY <1>1, <1>2, <1>4, <1>5, OnlyApplied, Zenon

(* The polling cycle ends with the memory the save will take. *)
LEMMA FinishApplied ==
  ASSUME DurableInv, NEW d \in Devices, Finish(d), UNCHANGED <<disk, want, owed, settled, notes, serving>>,
         DOMAIN mem' = Devices, \A x \in Devices \ {d} : mem'[x] = mem[x],
         IsRunner(mem[d])', mem'[d].Device = Due(d),
         run[d].At \notin RelaySteps \/ call[d].At # "relayed"
  PROVE  DurableInv'
<1>1. Only(d)
  BY Zenon DEF Finish, Go, Shape, DurableInv, Only
<1>2. IsCall(call[d])'
  BY Zenon DEF Finish, Shape, DurableInv, IsCall, NoCall
<1>3. run'[d].At = "save"
  BY Zenon DEF Finish, Go, Shape, DurableInv
<1>4. KindFits(d)' /\ Applied(d)'
  BY <1>3, Zenon DEF DurableInv, KindFits, Applied, Due, RelaySteps, Uploads
<1>. QED  BY <1>1, <1>2, <1>4, OnlyApplied, Zenon

(* Notifications come and go without the device they are about. *)
LEMMA RunnerQueued ==
  ASSUME NEW m, IsRunner(m), NEW kind, NEW op
  PROVE  /\ IsRunner(queueNotification(m, kind, op))
         /\ queueNotification(m, kind, op).Device = m.Device
         /\ queueNotification(m, kind, op).Next = nextNotificationSequence(m) + 1
         /\ queueNotification(m, kind, op).Pending =
              Put(m.Pending, nextNotificationSequence(m), [Kind |-> kind, Op |-> op.ID])
<1>. DEFINE next == nextNotificationSequence(m) + 1
            pending == Put(m.Pending, nextNotificationSequence(m), [Kind |-> kind, Op |-> op.ID])
            queued == [m EXCEPT !.Next = next, !.Pending = pending]
<1>1. queueNotification(m, kind, op) = queued
  BY Zenon DEF queueNotification
<1>2. IsRunner(queued) /\ queued.Device = m.Device /\ queued.Next = next /\ queued.Pending = pending
  <2>. HIDE DEF next, pending
  <2>. QED  BY Zenon DEF IsRunner
<1>. QED  BY <1>1, <1>2, Zenon

LEMMA RunnerAcknowledged ==
  ASSUME NEW m, IsRunner(m), NEW acks
  PROVE  /\ IsRunner(acknowledgeNotifications(m, acks))
         /\ acknowledgeNotifications(m, acks).Device = m.Device
         /\ acknowledgeNotifications(m, acks).Next = m.Next
         /\ acknowledgeNotifications(m, acks).Pending = Restrict(m.Pending, DOMAIN m.Pending \ acks)
BY Zenon DEF IsRunner, acknowledgeNotifications

(* What the process does with an answer touches no request and no file. *)
LEMMA LocalFrame ==
  ASSUME Local
  PROVE  UNCHANGED <<disk, want, settled, notes, serving>>
BY Zenon DEF Local, eimVars, relayVars

(* The process ends because of an answer. *)
LEMMA EndsApplied ==
  ASSUME DurableInv, NEW d \in Devices, End(d), Local, call[d].At = "answered"
  PROVE  DurableInv'
BY LocalFrame, EndApplied, OnlyApplied, Zenon

LEMMA pollOnceApplied ==
  ASSUME DurableInv, NEW d \in Devices, pollOnce(d)
  PROVE  DurableInv'
<1>. DEFINE op == AnswerOf(d).Op[1]
<1>1. UNCHANGED <<disk, want, settled, notes, serving>>
  BY LocalFrame, Zenon DEF pollOnce
<1>2. /\ run[d].At = "poll" /\ call[d].At = "answered"
      /\ owed[d] = <<>> /\ mem[d].Device = want[d] /\ Due(d) = want[d]
      /\ IsRunner(mem[d]) /\ DOMAIN mem = Devices
  BY Zenon DEF pollOnce, Answered, DurableInv, Shape, Applied, Due
<1>3. ASSUME Finish(d), UNCHANGED mem, Calm PROVE DurableInv'
  BY <1>1, <1>2, <1>3, FinishApplied, Zenon DEF Calm
<1>4. CASE op.Kind = "package" /\ handleEUICCPackage(d, op) /\ Calm
  <2>1. CASE shouldDeferSignedPackage(mem[d])
    BY <2>1, <1>3, <1>4, Zenon DEF handleEUICCPackage
  <2>2. CASE ~shouldDeferSignedPackage(mem[d])
    <3>1. /\ DOMAIN mem' = Devices /\ \A x \in Devices \ {d} : mem'[x] = mem[x]
          /\ IsRunner(mem'[d]) /\ mem'[d].Device = mem[d].Device
      BY <1>2, <1>4, <2>2, Zenon DEF handleEUICCPackage, queueNotification, IsRunner
    <3>2. Send(d, "package", <<op>>, <<>>) /\ <<op>>[1].Kind = "package" /\ UNCHANGED owed
      BY <1>4, <2>2, Zenon DEF handleEUICCPackage, Calm
    <3>. QED  BY <1>1, <1>2, <3>1, <3>2, SendApplied, Zenon DEF RelaySteps
  <2>. QED  BY <2>1, <2>2, Zenon
<1>5. CASE op.Kind = "data" /\ Send(d, "data", <<op>>, <<>>) /\ UNCHANGED mem /\ Calm
  <2>1. <<op>>[1].Kind = "data"
    BY <1>5, Zenon
  <2>. QED  BY <1>1, <1>2, <1>5, <2>1, SendApplied, Zenon DEF Calm
<1>6. CASE op.Kind = "trigger" /\ handleProfileDownloadTrigger(d, op) /\ UNCHANGED mem /\ Calm
  <2>1. <<op>>[1].Kind = "trigger"
    BY <1>6, Zenon
  <2>2. PICK step \in {"init", "result"} : Send(d, step, <<op>>, <<>>)
    BY <1>6, Zenon DEF handleProfileDownloadTrigger
  <2>. QED  BY <1>1, <1>2, <1>6, <2>1, <2>2, SendApplied, Zenon DEF Calm, RelaySteps
<1>7. CASE End(d) /\ UNCHANGED faults
  BY <1>2, <1>7, EndsApplied, Zenon DEF pollOnce
<1>. QED  BY <1>3, <1>4, <1>5, <1>6, <1>7, Zenon DEF pollOnce

LEMMA DownloadFailsApplied ==
  ASSUME DurableInv, NEW d \in Devices, DownloadFails(d)
  PROVE  DurableInv'
BY EndsApplied, Zenon DEF DownloadFails, Answered

LEMMA OnPackageApplied ==
  ASSUME DurableInv, NEW d \in Devices, OnPackage(d)
  PROVE  DurableInv'
<1>. DEFINE op == run[d].Op[1]
<1>1. UNCHANGED <<disk, want, settled, notes, serving>>
  BY LocalFrame, Zenon DEF OnPackage
<1>2. /\ run[d].At = "package" /\ call[d].At = "answered" /\ op.Kind = "package"
      /\ mem[d].Device = want[d] /\ IsRunner(mem[d]) /\ DOMAIN mem = Devices
  BY Zenon DEF OnPackage, Answered, DurableInv, Shape, Applied, KindFits, Uploads
<1>3. CASE AnswerOf(d).Kind = "ok"
  <2>1. owed[d] = <<op>>
    BY <1>2, <1>3, Zenon DEF DurableInv, Applied, Uploads, AnswerOf
  <2>2. Due(d) = applyOperationState(want[d], op)
    BY <1>2, <2>1 DEF Due, Effect
  <2>3. /\ DOMAIN mem' = Devices /\ \A x \in Devices \ {d} : mem'[x] = mem[x]
        /\ IsRunner(mem'[d]) /\ mem'[d].Device = applyOperationState(mem[d].Device, op)
    <3>. DEFINE done == [mem[d] EXCEPT !.Device = applyOperationState(mem[d].Device, op)]
    <3>1. IsRunner(done) /\ done.Device = applyOperationState(mem[d].Device, op)
      BY <1>2, Zenon DEF IsRunner
    <3>2. mem' = [mem EXCEPT ![d] = acknowledgeNotifications(done, AnswerOf(d).Acks)]
      BY <1>3, Zenon DEF OnPackage
    <3>. HIDE DEF done
    <3>. DEFINE rest == acknowledgeNotifications(done, AnswerOf(d).Acks)
    <3>3. IsRunner(rest) /\ rest.Device = done.Device
      BY <3>1, RunnerAcknowledged, Zenon
    <3>. HIDE DEF rest
    <3>4. mem' = [mem EXCEPT ![d] = rest]
      BY <3>2, Zenon DEF rest
    <3>5. DOMAIN mem' = Devices /\ mem'[d] = rest /\ \A x \in Devices \ {d} : mem'[x] = mem[x]
      BY <1>2, <3>4, Zenon
    <3>. QED  BY <3>1, <3>3, <3>5, Zenon
  <2>. QED  BY <1>1, <1>2, <1>3, <2>2, <2>3, FinishApplied, Zenon DEF OnPackage, Calm
<1>4. CASE AnswerOf(d).Kind # "ok" /\ IsRetriableESipaError(AnswerOf(d))
  <2>1. owed[d] = <<>> /\ Due(d) = want[d]
    BY <1>2, <1>4, Zenon DEF DurableInv, Applied, Uploads, AnswerOf, Due
  <2>2. /\ DOMAIN mem' = Devices /\ \A x \in Devices \ {d} : mem'[x] = mem[x]
        /\ IsRunner(mem'[d]) /\ mem'[d].Device = mem[d].Device
    BY <1>2, <1>4, Zenon DEF OnPackage, handleRetriableESipaError, dropPendingNotifications, IsRunner
  <2>. QED  BY <1>1, <1>2, <1>4, <2>1, <2>2, FinishApplied, Zenon DEF OnPackage, Calm
<1>5. CASE AnswerOf(d).Kind # "ok" /\ ~IsRetriableESipaError(AnswerOf(d))
  BY <1>2, <1>5, EndsApplied, Zenon DEF OnPackage
<1>. QED  BY <1>3, <1>4, <1>5, Zenon

LEMMA OnDataApplied ==
  ASSUME DurableInv, NEW d \in Devices, handleIpaEuiccDataRequest(d)
  PROVE  DurableInv'
<1>1. UNCHANGED <<disk, want, settled, notes, serving>>
  BY LocalFrame, Zenon DEF handleIpaEuiccDataRequest
<1>2. /\ run[d].At = "data" /\ call[d].At = "answered" /\ run[d].Op[1].Kind = "data"
      /\ mem[d].Device = want[d] /\ IsRunner(mem[d]) /\ DOMAIN mem = Devices
  BY Zenon DEF handleIpaEuiccDataRequest, Answered, DurableInv, Shape, Applied, KindFits, Uploads
<1>3. CASE AnswerOf(d).Kind = "ok"
  <2>1. owed[d] = <<run[d].Op[1]>>
    BY <1>2, <1>3, Zenon DEF DurableInv, Applied, Uploads, AnswerOf
  <2>2. Due(d) = want[d]
    BY <1>2, <2>1 DEF Due, Effect
  <2>3. /\ DOMAIN mem' = Devices /\ \A x \in Devices \ {d} : mem'[x] = mem[x]
        /\ IsRunner(mem'[d]) /\ mem'[d].Device = mem[d].Device
    BY <1>2, <1>3, Zenon DEF handleIpaEuiccDataRequest, IsRunner
  <2>. QED  BY <1>1, <1>2, <1>3, <2>2, <2>3, FinishApplied, Zenon DEF handleIpaEuiccDataRequest, Calm
<1>4. CASE AnswerOf(d).Kind # "ok"
  BY <1>2, <1>4, EndsApplied, Zenon DEF handleIpaEuiccDataRequest
<1>. QED  BY <1>3, <1>4, Zenon

(* A session goes on with its operation, or ends. *)
LEMMA SessionApplied ==
  ASSUME DurableInv, NEW d \in Devices,
         OnInit(d) \/ OnAuth(d) \/ OnBpp(d) \/ OnNotify(d) \/ OnCancel(d)
  PROVE  DurableInv'
<1>1. /\ Local /\ run[d].At \in RelaySteps /\ call[d].At = "answered"
      /\ \/ End(d)
         \/ /\ UNCHANGED <<mem, owed>>
            /\ \E step \in {"auth", "bpp", "cancel", "notify", "result"}, tx \in {AnswerOf(d).Transaction, run[d].Tx, <<>>} :
                 Send(d, step, run[d].Op, tx)
  BY Zenon DEF OnInit, OnAuth, OnBpp, OnNotify, OnCancel, Answered, RelaySteps, Calm
<1>2. CASE End(d)
  BY <1>1, <1>2, EndsApplied, Zenon
<1>3. ASSUME NEW step \in {"auth", "bpp", "cancel", "notify", "result"}, NEW tx, Send(d, step, run[d].Op, tx),
             UNCHANGED <<mem, owed>>
      PROVE  DurableInv'
  <2>1. UNCHANGED <<disk, want, owed, settled, notes, serving>>
    BY <1>1, <1>3, LocalFrame, Zenon
  <2>2. owed[d] = <<>> /\ mem[d].Device = want[d] /\ IsRunner(mem[d]) /\ DOMAIN mem = Devices
        /\ run[d].Op[1].Kind = "trigger"
    BY <1>1, Zenon DEF DurableInv, Shape, Applied, KindFits
  <2>. QED  BY <1>1, <1>3, <2>1, <2>2, SendApplied, Zenon DEF RelaySteps
<1>. QED  BY <1>1, <1>2, <1>3, Zenon

LEMMA OnResultApplied ==
  ASSUME DurableInv, NEW d \in Devices, OnResult(d)
  PROVE  DurableInv'
<1>. DEFINE op == run[d].Op[1]
            done == [mem[d] EXCEPT !.Device = recordDownload(mem[d].Device, op.ICCID, op.SMDP)]
<1>1. UNCHANGED <<disk, want, settled, notes, serving>>
  BY LocalFrame, Zenon DEF OnResult
<1>2. /\ run[d].At = "result" /\ call[d].At = "answered" /\ op.Kind = "trigger"
      /\ mem[d].Device = want[d] /\ IsRunner(mem[d]) /\ DOMAIN mem = Devices
  BY Zenon DEF OnResult, Answered, DurableInv, Shape, Applied, KindFits, Uploads
<1>3. CASE AnswerOf(d).Kind = "ok"
  <2>1. owed[d] = <<op>> /\ UNCHANGED owed
    BY <1>2, <1>3, Zenon DEF DurableInv, Applied, Uploads, AnswerOf, OnResult, Calm
  <2>2. Due(d) = recordDownload(mem[d].Device, op.ICCID, op.SMDP)
    BY <1>2, <2>1 DEF Due, Effect
  <2>3. IsRunner(done) /\ done.Device = recordDownload(mem[d].Device, op.ICCID, op.SMDP)
    BY <1>2, Zenon DEF IsRunner
  <2>4. mem' = [mem EXCEPT ![d] = queueNotification(done, "install", op)]
    BY <1>3, Zenon DEF OnResult
  <2>5. IsRunner(mem'[d]) /\ mem'[d].Device = Due(d) /\ \A x \in Devices \ {d} : mem'[x] = mem[x]
    <3>. DEFINE queued == queueNotification(done, "install", op)
    <3>1. IsRunner(queued) /\ queued.Device = done.Device
      <4>. HIDE DEF done, op
      <4>. QED  BY <2>3, RunnerQueued, ZenonT(30)
    <3>2. mem' = [mem EXCEPT ![d] = queued]
      BY <2>4, Zenon
    <3>. HIDE DEF done, queued
    <3>. QED  BY <1>2, <2>2, <2>3, <3>1, <3>2, Zenon
  <2>6. Send(d, "install", run[d].Op, <<>>)
    BY <1>3, Zenon DEF OnResult
  <2>7. Only(d)
    BY <1>1, <2>1, <2>4, <2>6, Zenon DEF Only, Send, Go, DurableInv, Shape
  <2>8. IsCall(call[d])' /\ run'[d].At = "install"
    BY <2>6, Zenon DEF Send, Go, DurableInv, Shape, IsCall, NoCall
  <2>9. KindFits(d)' /\ Applied(d)'
    BY <1>1, <2>1, <2>5, <2>8, Zenon DEF KindFits, Applied, Due, RelaySteps, Uploads, DurableInv
  <2>. QED  BY <1>2, <2>5, <2>7, <2>8, <2>9, OnlyApplied, Zenon
<1>4. CASE AnswerOf(d).Kind # "ok"
  BY <1>2, <1>4, EndsApplied, Zenon DEF OnResult
<1>. QED  BY <1>3, <1>4, Zenon

LEMMA OnInstallApplied ==
  ASSUME DurableInv, NEW d \in Devices, OnInstall(d)
  PROVE  DurableInv'
<1>1. UNCHANGED <<disk, want, settled, notes, serving>>
  BY LocalFrame, Zenon DEF OnInstall
<1>2. /\ run[d].At = "install" /\ call[d].At = "answered"
      /\ mem[d].Device = Due(d) /\ IsRunner(mem[d]) /\ DOMAIN mem = Devices
  BY Zenon DEF OnInstall, Answered, DurableInv, Shape, Applied
<1>3. CASE AnswerOf(d).Kind = "empty"
  <2>1. /\ DOMAIN mem' = Devices /\ \A x \in Devices \ {d} : mem'[x] = mem[x]
        /\ IsRunner(mem'[d]) /\ mem'[d].Device = mem[d].Device
    <3>. DEFINE left == acknowledgeNotifications(mem[d], DOMAIN pendingNotificationTLVs(d))
    <3>1. IsRunner(left) /\ left.Device = mem[d].Device
      BY <1>2, RunnerAcknowledged, Zenon
    <3>2. mem' = [mem EXCEPT ![d] = left]
      BY <1>3, Zenon DEF OnInstall
    <3>. HIDE DEF left
    <3>. QED  BY <1>2, <3>1, <3>2, Zenon
  <2>. QED  BY <1>1, <1>2, <1>3, <2>1, FinishApplied, Zenon DEF OnInstall, Calm
<1>4. CASE AnswerOf(d).Kind # "empty"
  BY <1>2, <1>4, EndsApplied, Zenon DEF OnInstall
<1>. QED  BY <1>3, <1>4, Zenon

(* An answer of the eIM owes an operation exactly if it says ok. *)
LEMMA EimAnswerApplied ==
  ASSUME DurableInv, NEW d \in Devices, EimAnswer(d)
  PROVE  DurableInv'
<1>1. /\ call[d].At = "sent" /\ run[d].At \notin RelaySteps
      /\ UNCHANGED <<mem, disk, run, want, settled, serving>>
  BY Zenon DEF EimAnswer, relayVars
<1>2. run[d].At \in Uploads => owed[d] = <<>>
  BY <1>1, Zenon DEF DurableInv, Applied
<1>3. ASSUME NEW answer, Deliver(d, answer), DOMAIN notes' = Devices, DOMAIN owed' = Devices,
             \A x \in Devices \ {d} : notes'[x] = notes[x] /\ owed'[x] = owed[x],
             \/ run[d].At \notin Uploads /\ owed'[d] = owed[d]
             \/ answer.Kind # "ok" /\ owed'[d] = <<>> /\ run[d].At \in Uploads
             \/ ~IsRetriableESipaError(answer) /\ owed'[d] = <<run[d].Op[1]>> /\ run[d].At \in Uploads
      PROVE  DurableInv'
  <2>1. /\ DOMAIN call' = Devices
        /\ \A x \in Devices \ {d} : call'[x] = call[x]
        /\ IsCall(call'[d]) /\ call'[d].Answer = answer /\ call'[d].At \in {"blocks", "answered"}
    BY <1>3, Delivered, Zenon DEF DurableInv, Shape
  <2>2. Only(d)
    BY <1>1, <1>3, <2>1, Zenon DEF Only, DurableInv, Shape
  <2>3. IsRunner(mem[d])' /\ KindFits(d)'
    BY <1>1, Zenon DEF DurableInv, Shape, KindFits
  <2>4. Applied(d)'
    BY <1>1, <1>3, <2>1, Zenon DEF DurableInv, Applied, Due, RelaySteps, Uploads
  <2>. QED  BY <1>1, <2>1, <2>2, <2>3, <2>4, OnlyApplied, Zenon
<1>4. CASE AnswerPoll(d)
  <2>1. PICK answer : Deliver(d, answer)
    BY <1>4, Zenon DEF AnswerPoll
  <2>. QED  BY <1>3, <1>4, <2>1, Zenon DEF AnswerPoll, Uploads, DurableInv, Shape
<1>5. ASSUME Accept(d, run[d].Op[1]), run[d].At \in Uploads PROVE DurableInv'
  <2>. DEFINE answer == [Ok EXCEPT !.Acks = DOMAIN pendingNotificationTLVs(d)]
  <2>1. Deliver(d, answer)
    BY <1>5, Zenon DEF Accept
  <2>2. ~IsRetriableESipaError(answer)
    BY Zenon DEF Ok, NoAnswer, IsRetriableESipaError, IsChainNotPresentedError, IsUntrustedCIError
  <2>3. /\ owed' = [owed EXCEPT ![d] = <<run[d].Op[1]>>]
        /\ notes' = [notes EXCEPT ![d] = Override(pendingNotificationTLVs(d), notes[d])]
    BY <1>5, Zenon DEF Accept, StoreNotifications
  <2>4. /\ DOMAIN notes' = Devices /\ DOMAIN owed' = Devices /\ owed'[d] = <<run[d].Op[1]>>
        /\ \A x \in Devices \ {d} : notes'[x] = notes[x] /\ owed'[x] = owed[x]
    BY <2>3, Zenon DEF DurableInv, Shape
  <2>. HIDE DEF answer
  <2>. QED  BY <1>3, <1>5, <2>1, <2>2, <2>4, Zenon
<1>6. CASE AnswerPackage(d)
  <2>1. ASSUME NEW why, Deliver(d, Error(why)), UNCHANGED <<notes, owed>> PROVE DurableInv'
    <3>1. Error(why).Kind # "ok"
      BY Zenon DEF Error, NoAnswer
    <3>2. run[d].At \in Uploads
      BY <1>6, Zenon DEF AnswerPackage, Uploads
    <3>. QED  BY <1>2, <1>3, <2>1, <3>1, <3>2, Zenon DEF DurableInv, Shape
  <2>2. CASE known[d] /\ trusted[d] /\ Accept(d, run[d].Op[1])
    BY <1>5, <1>6, <2>2, Zenon DEF AnswerPackage, Uploads
  <2>. QED  BY <1>6, <2>1, <2>2, Zenon DEF AnswerPackage
<1>7. CASE AnswerResult(d)
  BY <1>5, <1>7, Zenon DEF AnswerResult, Uploads
<1>8. CASE handleNotification(d)
  <2>1. Deliver(d, Empty) /\ run[d].At = "install" /\ UNCHANGED owed
        /\ notes' = [notes EXCEPT ![d] = Override(pendingNotificationTLVs(d), notes[d])]
    BY <1>8, Zenon DEF handleNotification, StoreNotifications
  <2>2. DOMAIN notes' = Devices /\ \A x \in Devices \ {d} : notes'[x] = notes[x]
    BY <2>1, Zenon DEF DurableInv, Shape
  <2>. QED  BY <1>3, <2>1, <2>2, Zenon DEF Uploads, DurableInv, Shape
<1>. QED  BY <1>4, <1>6, <1>7, <1>8, Zenon DEF EimAnswer

(* A further block brings the same answer, or an error that ends the run. *)
LEMMA NextBlockApplied ==
  ASSUME DurableInv, NEW d \in Devices, NextBlock(d)
  PROVE  DurableInv'
<1>1. call[d].At = "blocks" /\ UNCHANGED <<mem, disk, run, owed, want, settled, notes, serving>>
  BY Zenon DEF NextBlock, eimVars, historyVars, relayVars
<1>2. \E c : /\ call' = [call EXCEPT ![d] = c]
             /\ IsCall(c) /\ c.At \in {"blocks", "answered"}
             /\ \/ c.Answer = call[d].Answer
                \/ c.Answer = Error("bad request")
  <2>. DEFINE cached == cachedBlockwiseResponse(coapBlockwiseCacheKey(d))
              block == IF cached = <<>> THEN <<>> ELSE coapBlock2Chunk(cached[1], call[d].Got \div BlockSize)
              c == IF block = <<>> THEN [NoCall EXCEPT !.At = "answered", !.Answer = Error("bad request")]
                   ELSE [call[d] EXCEPT !.At = IF block[1].More THEN "blocks" ELSE "answered",
                                        !.Got = block[1].End, !.Parts = call[d].Parts \cup {block[1].Of}]
  <2>1. call' = [call EXCEPT ![d] = c]
    BY Zenon DEF NextBlock
  <2>. HIDE DEF block
  <2>2. IsCall(call[d])
    BY Zenon DEF DurableInv, Shape
  <2>3. CASE block = <<>>
    <3>1. IsCall(c) /\ c.At = "answered" /\ c.Answer = Error("bad request")
      BY <2>3, Zenon DEF NoCall, IsCall
    <3>. QED  BY <2>1, <3>1, Zenon
  <2>4. CASE block # <<>>
    <3>1. IsCall(c) /\ c.At \in {"blocks", "answered"} /\ c.Answer = call[d].Answer
      BY <2>2, <2>4, Zenon DEF IsCall
    <3>. QED  BY <2>1, <3>1, Zenon
  <2>. QED  BY <2>3, <2>4, Zenon
<1>3. Only(d) /\ IsCall(call'[d]) /\ call'[d].At \in {"blocks", "answered"}
      /\ (call'[d].Answer = call[d].Answer \/ call'[d].Answer = Error("bad request"))
  BY <1>1, <1>2, Zenon DEF Only, DurableInv, Shape
<1>4. ~IsRetriableESipaError(Error("bad request")) /\ Error("bad request").Kind # "ok"
  BY Zenon DEF Error, NoAnswer, IsRetriableESipaError, IsChainNotPresentedError, IsUntrustedCIError
<1>5. IsRunner(mem[d])' /\ KindFits(d)'
  BY <1>1, Zenon DEF DurableInv, Shape, KindFits
<1>6. Applied(d)'
  BY <1>1, <1>3, <1>4, Zenon DEF DurableInv, Applied, Due, RelaySteps, Uploads
<1>. QED  BY <1>1, <1>3, <1>5, <1>6, OnlyApplied, Zenon

(* A step outside the devices: it may change requests, not what is saved. *)
LEMMA RequestsApplied ==
  ASSUME DurableInv, UNCHANGED <<mem, disk, run, owed, want, settled, notes>>,
         DOMAIN call' = Devices, \A x \in Devices : IsCall(call'[x]),
         \A x \in Devices : call'[x] = call[x] \/ run[x].At \in RelaySteps,
         \A r \in serving' : IsRequest(r) /\ r.Device \in Devices,
         Awaited'
  PROVE  DurableInv'
<1>1. Shape'
  BY Zenon DEF DurableInv, Shape
<1>2. ASSUME NEW x \in Devices PROVE KindFits(x)' /\ Applied(x)'
  <2>1. CASE call'[x] = call[x]
    BY <2>1, OthersApplied, Zenon DEF DurableInv
  <2>2. CASE run[x].At \in RelaySteps
    BY <2>2, Zenon DEF DurableInv, KindFits, Applied, Due, RelaySteps, Uploads
  <2>. QED  BY <2>1, <2>2, Zenon
<1>. QED  BY <1>1, <1>2, Zenon DEF DurableInv

LEMMA handleRelayApplied ==
  ASSUME DurableInv, NEW d \in Devices, handleRelay(d)
  PROVE  DurableInv'
<1>1. /\ call[d].At = "sent" /\ run[d].At \in RelaySteps
      /\ UNCHANGED <<mem, disk, run, owed, want, settled, notes>>
  BY Zenon DEF handleRelay, eimVars, historyVars
<1>2. CASE Deliver(d, Error("unknown session")) /\ UNCHANGED serving
  <2>1. /\ DOMAIN call' = Devices /\ IsCall(call'[d])
        /\ \A x \in Devices \ {d} : call'[x] = call[x]
    BY <1>2, Delivered, Zenon DEF DurableInv, Shape
  <2>2. Awaited'
    BY <1>1, <1>2, <2>1, Zenon DEF DurableInv, Shape, Awaited
  <2>. QED  BY <1>1, <1>2, <2>1, <2>2, RequestsApplied, Zenon DEF DurableInv, Shape
<1>3. CASE /\ serving' = serving \cup {Request(d, RelayMessage(d))}
           /\ call' = [call EXCEPT ![d].At = "relayed"]
  <2>. DEFINE new == Request(d, RelayMessage(d))
  <2>1. IsRequest(new) /\ new.Device = d /\ new.Wanted
    BY Zenon DEF Request, IsRequest
  <2>. HIDE DEF new
  <2>2. /\ DOMAIN call' = Devices /\ IsCall(call'[d]) /\ call'[d].At = "relayed"
        /\ \A x \in Devices \ {d} : call'[x] = call[x]
    BY <1>3, Zenon DEF DurableInv, Shape, IsCall
  <2>3. \A r \in serving : r.Wanted => r.Device # d
    BY <1>1, Zenon DEF DurableInv, Awaited
  <2>4. serving' = serving \cup {new}
    BY <1>3, Zenon DEF new
  <2>5. Awaited'
    BY <1>1, <2>1, <2>2, <2>3, <2>4 DEF DurableInv, Shape, Awaited
  <2>. QED  BY <1>1, <2>1, <2>2, <2>4, <2>5, RequestsApplied, Zenon DEF DurableInv, Shape
<1>. QED  BY <1>2, <1>3, Zenon DEF handleRelay

LEMMA SmdpApplied ==
  ASSUME DurableInv, NEW r \in serving, Smdp(r)
  PROVE  DurableInv'
<1>1. UNCHANGED <<mem, disk, run, call, owed, want, settled, notes>>
  BY Zenon DEF Smdp, eimVars, ipaVars, historyVars
<1>2. PICK answer : Returned(r, answer)
  BY Zenon DEF Smdp, SmdpAnswer, SmdpRefuse
<1>. DEFINE new == [r EXCEPT !.At = "returned", !.Answer = answer]
<1>3. IsRequest(new) /\ new.Device = r.Device /\ new.Wanted = r.Wanted
  BY Zenon DEF DurableInv, Shape, IsRequest
<1>4. serving' = (serving \ {r}) \cup {new}
  BY <1>2, Zenon DEF Returned
<1>. HIDE DEF new
<1>5. Awaited'
  BY <1>1, <1>3, <1>4 DEF DurableInv, Awaited
<1>. QED  BY <1>1, <1>3, <1>4, <1>5, RequestsApplied, Zenon DEF DurableInv, Shape

LEMMA RelayDoneApplied ==
  ASSUME DurableInv, NEW r \in serving, RelayDone(r)
  PROVE  DurableInv'
<1>1. serving' = serving \ {r} /\ UNCHANGED <<mem, disk, run, owed, want, settled, notes>>
  BY Zenon DEF RelayDone, RelayEnd, eimVars, historyVars
<1>2. CASE r.Wanted
  <2>1. r.Device \in Devices /\ run[r.Device].At \in RelaySteps
    BY <1>2, Zenon DEF DurableInv, Shape, Awaited
  <2>2. /\ DOMAIN call' = Devices /\ IsCall(call'[r.Device])
        /\ \A x \in Devices \ {r.Device} : call'[x] = call[x]
    BY <1>2, <2>1, Delivered, Zenon DEF RelayDone, DurableInv, Shape
  <2>3. Awaited'
    BY <1>1, <1>2, <2>2, Zenon DEF DurableInv, Shape, Awaited
  <2>. QED  BY <1>1, <2>1, <2>2, <2>3, RequestsApplied, Zenon DEF DurableInv, Shape
<1>3. CASE ~r.Wanted
  <2>1. UNCHANGED call
    BY <1>3, Zenon DEF RelayDone
  <2>2. Awaited'
    BY <1>1, <2>1, Zenon DEF DurableInv, Awaited
  <2>. QED  BY <1>1, <2>1, <2>2, RequestsApplied, Zenon DEF DurableInv, Shape
<1>. QED  BY <1>2, <1>3, Zenon

LEMMA RelayAbandonApplied ==
  ASSUME DurableInv, NEW r \in serving, RelayAbandon(r)
  PROVE  DurableInv'
<1>1. serving' = serving \ {r} /\ UNCHANGED <<mem, disk, run, call, owed, want, settled, notes>>
  BY Zenon DEF RelayAbandon, Abandon, eimVars, ipaVars, historyVars
<1>2. Awaited'
  BY <1>1, Zenon DEF DurableInv, Awaited
<1>. QED  BY <1>1, <1>2, RequestsApplied, Zenon DEF DurableInv, Shape

(* A device that gave up wants none of its requests any more. *)
LEMMA UnwantedRequests ==
  ASSUME Shape, Awaited, NEW d \in Devices, Unwanted(d), \A x \in Devices \ {d} : run'[x] = run[x] /\ call'[x] = call[x]
  PROVE  /\ \A r \in serving' : IsRequest(r) /\ r.Device \in Devices
         /\ Awaited'
<1>1. \A s \in serving' : \/ s \in serving /\ s.Device # d
                          \/ IsRequest(s) /\ s.Device = d /\ s.Wanted = FALSE
  <2>1. TAKE s \in serving'
  <2>2. PICK r \in serving : s = IF r.Device = d THEN [r EXCEPT !.Wanted = FALSE] ELSE r
    BY Zenon DEF Unwanted
  <2>3. IsRequest(r)
    BY Zenon DEF Shape
  <2>4. CASE r.Device = d
    BY <2>2, <2>3, <2>4, Zenon DEF IsRequest
  <2>5. CASE r.Device # d
    BY <2>2, <2>5, Zenon
  <2>. QED  BY <2>4, <2>5, Zenon
<1>. QED  BY <1>1, Zenon DEF Shape, Awaited

LEMMA FaultyApplied ==
  ASSUME DurableInv, NEW d \in Devices, Fail(d) \/ Crash(d) \/ Expire(d)
  PROVE  DurableInv'
<1>1. CASE Fail(d)
  <2>1. UNCHANGED <<mem, disk, run, owed, want, settled, notes>> /\ Unwanted(d)
    BY <1>1, Zenon DEF Fail, eimVars, historyVars
  <2>. DEFINE failed == [NoCall EXCEPT !.At = "answered", !.Answer = Error("transport")]
  <2>2. IsCall(failed) /\ failed.At = "answered" /\ failed.Answer = Error("transport")
    BY Zenon DEF NoCall, IsCall
  <2>3. call' = [call EXCEPT ![d] = failed]
    BY <1>1, Zenon DEF Fail
  <2>. HIDE DEF failed
  <2>4. DOMAIN call' = Devices /\ call'[d] = failed /\ \A x \in Devices \ {d} : call'[x] = call[x]
    BY <2>3, Zenon DEF DurableInv, Shape
  <2>5. Awaited' /\ \A r \in serving' : IsRequest(r) /\ r.Device \in Devices
    BY <2>1, <2>4, UnwantedRequests, Zenon DEF DurableInv
  <2>6. ~IsRetriableESipaError(Error("transport")) /\ Error("transport").Kind # "ok"
    BY Zenon DEF Error, NoAnswer, IsRetriableESipaError, IsChainNotPresentedError, IsUntrustedCIError
  <2>7. KindFits(d)' /\ Applied(d)'
    BY <2>1, <2>2, <2>4, <2>6, Zenon DEF DurableInv, KindFits, Applied, Due, RelaySteps, Uploads
  <2>8. ASSUME NEW x \in Devices \ {d} PROVE KindFits(x)' /\ Applied(x)'
    BY <2>1, <2>4, <2>8, OthersApplied, Zenon DEF DurableInv
  <2>9. Shape'
    BY <2>1, <2>2, <2>4, <2>5, Zenon DEF DurableInv, Shape
  <2>. QED  BY <2>5, <2>7, <2>8, <2>9, Zenon DEF DurableInv
<1>2. CASE Crash(d)
  <2>1. End(d) /\ Unwanted(d) /\ UNCHANGED <<disk, want, settled, notes>>
    BY <1>2, Zenon DEF Crash, eimVars
  <2>2. IsRunner(mem[d])' /\ IsCall(call[d])' /\ KindFits(d)' /\ Applied(d)'
    BY <2>1, EndApplied, Zenon
  <2>3. /\ DOMAIN mem' = Devices /\ DOMAIN run' = Devices /\ DOMAIN call' = Devices /\ DOMAIN owed' = Devices
        /\ \A x \in Devices \ {d} : mem'[x] = mem[x] /\ run'[x] = run[x] /\ call'[x] = call[x] /\ owed'[x] = owed[x]
    BY <2>1, Zenon DEF End, DurableInv, Shape
  <2>4. Awaited' /\ \A r \in serving' : IsRequest(r) /\ r.Device \in Devices
    BY <2>1, <2>3, UnwantedRequests, Zenon DEF DurableInv
  <2>5. ASSUME NEW x \in Devices \ {d} PROVE KindFits(x)' /\ Applied(x)'
    BY <2>1, <2>3, <2>5, OthersApplied, Zenon DEF DurableInv
  <2>6. Shape'
    BY <2>1, <2>2, <2>3, <2>4, Zenon DEF DurableInv, Shape
  <2>. QED  BY <2>2, <2>4, <2>5, <2>6, Zenon DEF DurableInv
<1>3. CASE Expire(d)
  BY <1>3, Zenon DEF Expire, ipaVars, eimVars, historyVars, relayVars, DurableInv, Shape, Awaited, KindFits, Applied, Due
<1>. QED  BY <1>1, <1>2, <1>3, Zenon

(* The operator deals with the queue only. *)
LEMMA OperatorApplied ==
  ASSUME DurableInv, NEW d \in Devices, Operator(d)
  PROVE  DurableInv'
<1>1. UNCHANGED <<mem, disk, run, call, owed, want, settled, notes, serving>>
  BY Zenon DEF Operator, FollowWarning, QueueAgain, AddTrustedCI, ipaVars, historyVars, relayVars
<1>. QED  BY <1>1 DEF DurableInv, Shape, Awaited, KindFits, Applied, Due

LEMMA DurableInvInit == Init => DurableInv
<1>. SUFFICES ASSUME Init PROVE DurableInv
  BY Zenon
<1>1. Shape
  BY Zenon DEF Init, Shape, IsRunner, IsCall, NewRunner, NoCall
<1>2. Awaited
  BY Zenon DEF Init, Awaited
<1>3. \A d \in Devices : KindFits(d) /\ Applied(d)
  BY Zenon DEF Init, Down, KindFits, Applied, RelaySteps, Uploads
<1>. QED  BY <1>1, <1>2, <1>3, Zenon DEF DurableInv

LEMMA DurableInvStep == DurableInv /\ [Next]_vars => DurableInv'
<1>. SUFFICES ASSUME DurableInv, [Next]_vars PROVE DurableInv'
  BY Zenon
<1>1. ASSUME NEW d \in Active, Runner(d) PROVE DurableInv'
  BY <1>1, StartApplied, PollApplied, pollOnceApplied, OnPackageApplied, OnDataApplied, SessionApplied,
     OnResultApplied, OnInstallApplied, persistApplied, Zenon DEF Runner, Active
<1>2. ASSUME NEW d \in Active, Server(d) PROVE DurableInv'
  BY <1>2, EimAnswerApplied, handleRelayApplied, NextBlockApplied, Zenon DEF Server, Active
<1>3. ASSUME NEW d \in Active, Operator(d) \/ Faulty(d) PROVE DurableInv'
  BY <1>3, OperatorApplied, DownloadFailsApplied, FaultyApplied, Zenon DEF Faulty, Active
<1>4. ASSUME NEW r \in serving, Relayed(r) \/ RelayAbandon(r) PROVE DurableInv'
  BY <1>4, SmdpApplied, RelayDoneApplied, RelayAbandonApplied, Zenon DEF Relayed
<1>5. CASE UNCHANGED vars
  BY <1>5, Zenon DEF vars, eimVars, ipaVars, historyVars, relayVars, DurableInv, Shape, Awaited, KindFits, Applied, Due
<1>. QED  BY <1>1, <1>2, <1>3, <1>4, <1>5, Zenon DEF Next

(* No fault of process, network, eIM or SM-DP+ makes the state file of the *)
(* mock IPA differ from what the accepted operations say, whatever the     *)
(* fleet, its operations and the number of faults: Runner applies an       *)
(* operation after its acknowledgement and saves before the next poll.     *)
THEOREM EffectsDurable == Spec => []DurableEffects
<1>1. DurableInv => DurableEffects
  BY Zenon DEF DurableInv, Applied, DurableEffects
<1>. QED  BY <1>1, DurableInvInit, DurableInvStep, PTL DEF Spec

-----------------------------------------------------------------------------
(* Notifications are kept in functions by number. *)
LEMMA PutNumbers ==
  ASSUME NEW f, NEW key, NEW value
  PROVE  DOMAIN Put(f, key, value) = DOMAIN f \cup {key}
BY Zenon DEF Put

LEMMA OverrideKeeps ==
  ASSUME NEW f, NEW g
  PROVE  /\ DOMAIN Override(f, g) = DOMAIN f \cup DOMAIN g
         /\ \A n \in DOMAIN g \ DOMAIN f : Override(f, g)[n] = g[n]
BY Zenon DEF Override

LEMMA RestrictNumbers ==
  ASSUME NEW f, NEW S
  PROVE  DOMAIN Restrict(f, S) = S
BY Zenon DEF Restrict

LEMMA AcknowledgedNumbers ==
  ASSUME NEW m, IsRunner(m), NEW acks
  PROVE  /\ acknowledgeNotifications(m, acks).Next = m.Next
         /\ DOMAIN acknowledgeNotifications(m, acks).Pending \subseteq DOMAIN m.Pending
<1>1. acknowledgeNotifications(m, acks).Pending = Restrict(m.Pending, DOMAIN m.Pending \ acks)
  BY RunnerAcknowledged, Zenon
<1>2. DOMAIN Restrict(m.Pending, DOMAIN m.Pending \ acks) = DOMAIN m.Pending \ acks
  BY RestrictNumbers, Zenon
<1>. QED  BY <1>1, <1>2, RunnerAcknowledged, Zenon

LEMMA QueuedNumbers ==
  ASSUME NEW m, IsRunner(m), NEW kind, NEW op
  PROVE  /\ queueNotification(m, kind, op).Next = nextNotificationSequence(m) + 1
         /\ DOMAIN queueNotification(m, kind, op).Pending = DOMAIN m.Pending \cup {nextNotificationSequence(m)}
<1>. DEFINE n == nextNotificationSequence(m)
            note == [Kind |-> kind, Op |-> op.ID]
<1>1. DOMAIN Put(m.Pending, n, note) = DOMAIN m.Pending \cup {n}
  <2>. HIDE DEF n, note
  <2>. QED  BY PutNumbers, Zenon
<1>2. queueNotification(m, kind, op).Pending = Put(m.Pending, n, note)
  BY RunnerQueued, Zenon
<1>. QED  BY <1>1, <1>2, RunnerQueued, Zenon

(* A device that numbers, settles and forgets nothing keeps its numbers. *)
LEMMA NumbersKept ==
  ASSUME NEW x \in Devices, Numbered(x),
         disk'[x] = disk[x], settled'[x] = settled[x], notes'[x] = notes[x],
         mem'[x].Next = mem[x].Next, DOMAIN mem'[x].Pending \subseteq DOMAIN mem[x].Pending,
         run'[x].At = "down" \/ run[x].At # "down",
         run'[x].At = "install" => run[x].At = "install" /\ mem'[x].Pending = mem[x].Pending
  PROVE  Numbered(x)'
BY Zenon DEF Numbered, SavedNext

(* Uploaded notifications are pending, so none of them is settled. *)
LEMMA UploadedNotSettled ==
  ASSUME NEW d \in Devices, Numbered(d)
  PROVE  /\ DOMAIN pendingNotificationTLVs(d) \subseteq DOMAIN mem[d].Pending
         /\ \A n \in settled[d] : n \notin DOMAIN pendingNotificationTLVs(d)
<1>1. DOMAIN pendingNotificationTLVs(d) \subseteq DOMAIN mem[d].Pending
  <2>1. CASE run[d].At = "install"
    <3>1. pendingNotificationTLVs(d) = Restrict(mem[d].Pending, {mem[d].Next - 1})
      BY <2>1, Zenon DEF pendingNotificationTLVs
    <3>. QED  BY <2>1, <3>1, RestrictNumbers DEF Numbered
  <2>2. CASE run[d].At # "install"
    BY <2>2 DEF pendingNotificationTLVs
  <2>. QED  BY <2>1, <2>2, Zenon
<1>. QED  BY <1>1, Zenon DEF Numbered

(* A notification gets a number that was never settled. *)
LEMMA QueuedNumber ==
  ASSUME NEW d \in Devices, Numbered(d), run[d].At # "down",
         disk'[d] = disk[d], settled'[d] = settled[d], notes'[d] = notes[d],
         mem'[d].Next = nextNotificationSequence(mem[d]) + 1,
         DOMAIN mem'[d].Pending = DOMAIN mem[d].Pending \cup {nextNotificationSequence(mem[d])}
  PROVE  Numbered(d)'
<1>. DEFINE n == nextNotificationSequence(mem[d])
<1>1. n \in Nat /\ mem[d].Next <= n
  BY DEF nextNotificationSequence, Numbered
<1>. HIDE DEF n
<1>2. SavedNext(d)' = SavedNext(d)
  BY Zenon DEF SavedNext
<1>3. mem'[d].Next = n + 1 /\ DOMAIN mem'[d].Pending = DOMAIN mem[d].Pending \cup {n}
  BY Zenon DEF n
<1>4. \A k \in settled[d] : k # n
  BY <1>1 DEF Numbered
<1>. QED  BY <1>1, <1>2, <1>3, <1>4 DEF Numbered

(* A process that ended starts again from the number in the file. *)
LEMMA NumbersAfterEnd ==
  ASSUME Shape, NEW d \in Devices, Numbered(d), End(d), UNCHANGED <<disk, settled, notes>>
  PROVE  Numbered(d)'
<1>1. mem'[d] = NewRunner /\ run'[d].At = "down"
  BY Zenon DEF End, Shape, Down
<1>. QED  BY <1>1 DEF Numbered, SavedNext, NewRunner

(* A step of the device d that leaves the numbers of the others alone. *)
LEMMA OnlyNumbered ==
  ASSUME Shape, \A x \in Devices : Numbered(x), NEW d \in Devices,
         \A x \in Devices \ {d} : /\ mem'[x] = mem[x] /\ disk'[x] = disk[x] /\ run'[x] = run[x]
                                  /\ settled'[x] = settled[x] /\ notes'[x] = notes[x],
         Numbered(d)', \A n \in settled[d] : notes'[d][n] = notes[d][n]
  PROVE  (\A x \in Devices : Numbered(x)') /\ Kept
<1>1. ASSUME NEW x \in Devices \ {d} PROVE Numbered(x)'
  BY <1>1, NumbersKept, Zenon
<1>. QED  BY <1>1, Zenon DEF Kept

(* The same with what an answer leaves alone. *)
LEMMA LocalNumbered ==
  ASSUME Shape, \A x \in Devices : Numbered(x), NEW d \in Devices, Local,
         \A x \in Devices \ {d} : mem'[x] = mem[x] /\ run'[x] = run[x],
         Numbered(d)'
  PROVE  (\A x \in Devices : Numbered(x)') /\ Kept
BY LocalFrame, OnlyNumbered, Zenon

LEMMA EndNumbered ==
  ASSUME Shape, \A x \in Devices : Numbered(x), NEW d \in Devices, Local, End(d)
  PROVE  (\A x \in Devices : Numbered(x)') /\ Kept
<1>1. Numbered(d)'
  BY LocalFrame, NumbersAfterEnd, Zenon
<1>. QED  BY <1>1, LocalNumbered, Zenon DEF End, Shape

(* A step of the process that gives no number. *)
LEMMA GoesOnNumbered ==
  ASSUME Shape, \A x \in Devices : Numbered(x), NEW d \in Devices, Local, run[d].At # "down",
         NEW step, step # "install", NEW op, NEW tx, Go(d, step, op, tx),
         \A x \in Devices \ {d} : mem'[x] = mem[x],
         mem'[d].Next = mem[d].Next, DOMAIN mem'[d].Pending \subseteq DOMAIN mem[d].Pending
  PROVE  (\A x \in Devices : Numbered(x)') /\ Kept
<1>1. run'[d].At = step /\ \A x \in Devices \ {d} : run'[x] = run[x]
  BY Zenon DEF Go, Shape
<1>2. Numbered(d)'
  BY <1>1, LocalFrame, NumbersKept, Zenon
<1>. QED  BY <1>1, <1>2, LocalNumbered, Zenon

LEMMA StartNumbered ==
  ASSUME Shape, \A x \in Devices : Numbered(x), NEW d \in Devices, Start(d)
  PROVE  (\A x \in Devices : Numbered(x)') /\ Kept
<1>1. /\ UNCHANGED <<disk, settled, notes>> /\ mem'[d] = Apply(disk[d]) /\ run'[d].At = "idle"
      /\ \A x \in Devices \ {d} : mem'[x] = mem[x] /\ run'[x] = run[x]
  BY Zenon DEF Start, Go, Shape, eimVars, historyVars
<1>2. Apply(disk[d]).Next = SavedNext(d) /\ Apply(disk[d]).Pending = <<>>
  BY Zenon DEF Apply, NewRunner, SavedNext
<1>3. Numbered(d)'
  BY <1>1, <1>2 DEF Numbered, SavedNext
<1>. QED  BY <1>1, <1>3, OnlyNumbered, Zenon

LEMMA persistNumbered ==
  ASSUME Shape, \A x \in Devices : Numbered(x), NEW d \in Devices, persistState(d)
  PROVE  (\A x \in Devices : Numbered(x)') /\ Kept
<1>1. /\ UNCHANGED <<mem, notes>> /\ run'[d].At = "idle" /\ disk'[d] = Saved(mem[d])
      /\ settled'[d] = {n \in DOMAIN notes[d] : n < mem[d].Next} \ DOMAIN mem[d].Pending
      /\ \A x \in Devices \ {d} : disk'[x] = disk[x] /\ settled'[x] = settled[x] /\ run'[x] = run[x]
  BY Zenon DEF persistState, Go, Shape, eimVars
<1>2. SavedNext(d)' = mem[d].Next
  BY <1>1 DEF SavedNext, Saved
<1>3. Numbered(d)'
  BY <1>1, <1>2 DEF Numbered
<1>. QED  BY <1>1, <1>3, OnlyNumbered, Zenon

LEMMA pollOnceNumbered ==
  ASSUME Shape, \A x \in Devices : Numbered(x), NEW d \in Devices, pollOnce(d)
  PROVE  (\A x \in Devices : Numbered(x)') /\ Kept
<1>. DEFINE op == AnswerOf(d).Op[1]
<1>1. Local /\ run[d].At = "poll" /\ IsRunner(mem[d]) /\ DOMAIN mem = Devices
  BY Zenon DEF pollOnce, Answered, Shape
<1>2. ASSUME UNCHANGED mem, NEW step \in {"save", "data", "init", "result"}, NEW o, Go(d, step, o, <<>>)
      PROVE  (\A x \in Devices : Numbered(x)') /\ Kept
  <2>1. mem'[d].Next = mem[d].Next /\ mem'[d].Pending = mem[d].Pending /\ step # "install"
    BY <1>2, Zenon
  <2>. QED  BY <1>1, <1>2, <2>1, GoesOnNumbered, Zenon
<1>3. CASE handleEUICCPackage(d, op) /\ ~shouldDeferSignedPackage(mem[d])
  <2>1. CASE notificationKindForOperation(op) = <<>>
    <3>1. mem' = [mem EXCEPT ![d] = mem[d]] /\ Go(d, "package", <<op>>, <<>>)
      BY <1>3, <2>1, Zenon DEF handleEUICCPackage, Send
    <3>. QED  BY <1>1, <3>1, GoesOnNumbered, Zenon
  <2>2. CASE notificationKindForOperation(op) # <<>>
    <3>. DEFINE kind == notificationKindForOperation(op)[1]
                queued == queueNotification(mem[d], kind, op)
    <3>1. mem' = [mem EXCEPT ![d] = queued] /\ Go(d, "package", <<op>>, <<>>)
      BY <1>3, <2>2, Zenon DEF handleEUICCPackage, Send
    <3>2. /\ queued.Next = nextNotificationSequence(mem[d]) + 1
          /\ DOMAIN queued.Pending = DOMAIN mem[d].Pending \cup {nextNotificationSequence(mem[d])}
      <4>. HIDE DEF kind, op
      <4>. QED  BY <1>1, QueuedNumbers, Zenon
    <3>. HIDE DEF queued
    <3>3. /\ mem'[d] = queued /\ run'[d].At = "package"
          /\ \A x \in Devices \ {d} : mem'[x] = mem[x] /\ run'[x] = run[x]
      BY <1>1, <3>1, Zenon DEF Go, Shape
    <3>4. Numbered(d)'
      BY <1>1, <3>2, <3>3, LocalFrame, QueuedNumber, Zenon
    <3>. QED  BY <1>1, <3>3, <3>4, LocalNumbered, Zenon
  <2>. QED  BY <2>1, <2>2, Zenon
<1>4. CASE End(d)
  BY <1>1, <1>4, EndNumbered, Zenon
<1>. QED  BY <1>2, <1>3, <1>4, Zenon DEF pollOnce, handleEUICCPackage, handleProfileDownloadTrigger, Finish, Send

LEMMA OnPackageNumbered ==
  ASSUME Shape, \A x \in Devices : Numbered(x), NEW d \in Devices, OnPackage(d)
  PROVE  (\A x \in Devices : Numbered(x)') /\ Kept
<1>1. Local /\ run[d].At = "package" /\ IsRunner(mem[d]) /\ DOMAIN mem = Devices
  BY Zenon DEF OnPackage, Answered, Shape
<1>2. ASSUME NEW m, mem' = [mem EXCEPT ![d] = m], m.Next = mem[d].Next,
             DOMAIN m.Pending \subseteq DOMAIN mem[d].Pending, Finish(d)
      PROVE  (\A x \in Devices : Numbered(x)') /\ Kept
  <2>1. mem'[d] = m /\ \A x \in Devices \ {d} : mem'[x] = mem[x]
    BY <1>1, <1>2, Zenon
  <2>2. Go(d, "save", <<>>, <<>>)
    BY <1>2, Zenon DEF Finish
  <2>3. mem'[d].Next = mem[d].Next /\ DOMAIN mem'[d].Pending \subseteq DOMAIN mem[d].Pending
    BY <1>2, <2>1, Zenon
  <2>. QED  BY <1>1, <2>1, <2>2, <2>3, GoesOnNumbered, Zenon
<1>3. CASE AnswerOf(d).Kind = "ok"
  <2>. DEFINE done == [mem[d] EXCEPT !.Device = applyOperationState(mem[d].Device, run[d].Op[1])]
              left == acknowledgeNotifications(done, AnswerOf(d).Acks)
  <2>1. mem' = [mem EXCEPT ![d] = left] /\ Finish(d)
    BY <1>3, Zenon DEF OnPackage
  <2>2. IsRunner(done) /\ done.Next = mem[d].Next /\ done.Pending = mem[d].Pending
    BY <1>1, Zenon DEF IsRunner
  <2>3. left.Next = mem[d].Next /\ DOMAIN left.Pending \subseteq DOMAIN mem[d].Pending
    <3>. HIDE DEF done
    <3>. QED  BY <2>2, AcknowledgedNumbers, Zenon
  <2>. HIDE DEF left
  <2>. QED  BY <1>2, <2>1, <2>3, Zenon
<1>4. CASE AnswerOf(d).Kind # "ok" /\ IsRetriableESipaError(AnswerOf(d))
  <2>. DEFINE m == handleRetriableESipaError(mem[d], AnswerOf(d))
  <2>1. mem' = [mem EXCEPT ![d] = m] /\ Finish(d)
    BY <1>4, Zenon DEF OnPackage
  <2>2. m.Next = mem[d].Next /\ DOMAIN m.Pending \subseteq DOMAIN mem[d].Pending
    BY <1>1 DEF handleRetriableESipaError, dropPendingNotifications, IsRunner
  <2>. HIDE DEF m
  <2>. QED  BY <1>2, <2>1, <2>2, Zenon
<1>5. CASE End(d)
  BY <1>1, <1>5, EndNumbered, Zenon
<1>. QED  BY <1>3, <1>4, <1>5, Zenon DEF OnPackage

(* The certificates and the session steps give no number. *)
LEMMA OnDataNumbered ==
  ASSUME Shape, \A x \in Devices : Numbered(x), NEW d \in Devices, handleIpaEuiccDataRequest(d)
  PROVE  (\A x \in Devices : Numbered(x)') /\ Kept
<1>1. Local /\ run[d].At = "data" /\ IsRunner(mem[d]) /\ DOMAIN mem = Devices
  BY Zenon DEF handleIpaEuiccDataRequest, Answered, Shape
<1>2. CASE mem' = [mem EXCEPT ![d].Presented = TRUE] /\ Finish(d)
  <2>1. mem'[d].Next = mem[d].Next /\ mem'[d].Pending = mem[d].Pending /\ \A x \in Devices \ {d} : mem'[x] = mem[x]
    BY <1>1, <1>2, Zenon DEF IsRunner
  <2>. QED  BY <1>1, <1>2, <2>1, GoesOnNumbered, Zenon DEF Finish
<1>3. CASE End(d)
  BY <1>1, <1>3, EndNumbered, Zenon
<1>. QED  BY <1>2, <1>3, Zenon DEF handleIpaEuiccDataRequest

LEMMA SessionNumbered ==
  ASSUME Shape, \A x \in Devices : Numbered(x), NEW d \in Devices,
         OnInit(d) \/ OnAuth(d) \/ OnBpp(d) \/ OnNotify(d) \/ OnCancel(d)
  PROVE  (\A x \in Devices : Numbered(x)') /\ Kept
<1>1. /\ Local /\ run[d].At # "down"
      /\ \/ End(d)
         \/ /\ UNCHANGED mem
            /\ \E step \in {"auth", "bpp", "cancel", "notify", "result"}, tx \in {AnswerOf(d).Transaction, run[d].Tx, <<>>} :
                 Go(d, step, run[d].Op, tx)
  BY Zenon DEF OnInit, OnAuth, OnBpp, OnNotify, OnCancel, Answered, Send, Calm
<1>2. CASE End(d)
  BY <1>1, <1>2, EndNumbered, Zenon
<1>3. ASSUME UNCHANGED mem, NEW step \in {"auth", "bpp", "cancel", "notify", "result"}, NEW tx,
             Go(d, step, run[d].Op, tx)
      PROVE  (\A x \in Devices : Numbered(x)') /\ Kept
  BY <1>1, <1>3, GoesOnNumbered, Zenon
<1>. QED  BY <1>1, <1>2, <1>3, Zenon

LEMMA OnResultNumbered ==
  ASSUME Shape, \A x \in Devices : Numbered(x), NEW d \in Devices, OnResult(d)
  PROVE  (\A x \in Devices : Numbered(x)') /\ Kept
<1>1. Local /\ run[d].At = "result" /\ IsRunner(mem[d]) /\ DOMAIN mem = Devices
  BY Zenon DEF OnResult, Answered, Shape
<1>2. CASE AnswerOf(d).Kind = "ok"
  <2>. DEFINE op == run[d].Op[1]
              done == [mem[d] EXCEPT !.Device = recordDownload(mem[d].Device, op.ICCID, op.SMDP)]
              queued == queueNotification(done, "install", op)
              n == nextNotificationSequence(mem[d])
  <2>1. mem' = [mem EXCEPT ![d] = queued] /\ Go(d, "install", run[d].Op, <<>>)
    BY <1>2, Zenon DEF OnResult, Send
  <2>2. IsRunner(done) /\ done.Next = mem[d].Next /\ done.Pending = mem[d].Pending
    BY <1>1, Zenon DEF IsRunner
  <2>3. nextNotificationSequence(done) = n
    BY <2>2, Zenon DEF nextNotificationSequence
  <2>4. queued.Next = n + 1 /\ DOMAIN queued.Pending = DOMAIN mem[d].Pending \cup {n}
    <3>. HIDE DEF done, op, n
    <3>. QED  BY <2>2, <2>3, QueuedNumbers, Zenon
  <2>. HIDE DEF queued
  <2>5. /\ mem'[d] = queued /\ run'[d].At = "install"
        /\ \A x \in Devices \ {d} : mem'[x] = mem[x] /\ run'[x] = run[x]
    BY <1>1, <2>1, Zenon DEF Go, Shape
  <2>6. Numbered(d)'
    BY <1>1, <2>4, <2>5, LocalFrame, QueuedNumber, Zenon
  <2>. QED  BY <1>1, <2>5, <2>6, LocalNumbered, Zenon
<1>3. CASE AnswerOf(d).Kind # "ok"
  BY <1>1, <1>3, EndNumbered, Zenon DEF OnResult
<1>. QED  BY <1>2, <1>3, Zenon

LEMMA OnInstallNumbered ==
  ASSUME Shape, \A x \in Devices : Numbered(x), NEW d \in Devices, OnInstall(d)
  PROVE  (\A x \in Devices : Numbered(x)') /\ Kept
<1>1. Local /\ run[d].At = "install" /\ IsRunner(mem[d]) /\ DOMAIN mem = Devices
  BY Zenon DEF OnInstall, Answered, Shape
<1>2. CASE AnswerOf(d).Kind = "empty"
  <2>. DEFINE left == acknowledgeNotifications(mem[d], DOMAIN pendingNotificationTLVs(d))
  <2>1. mem' = [mem EXCEPT ![d] = left] /\ Go(d, "save", <<>>, <<>>)
    BY <1>2, Zenon DEF OnInstall, Finish
  <2>2. left.Next = mem[d].Next /\ DOMAIN left.Pending \subseteq DOMAIN mem[d].Pending
    BY <1>1, AcknowledgedNumbers, Zenon
  <2>. HIDE DEF left
  <2>3. mem'[d] = left /\ \A x \in Devices \ {d} : mem'[x] = mem[x]
    BY <1>1, <2>1, Zenon
  <2>. QED  BY <1>1, <2>1, <2>2, <2>3, GoesOnNumbered, Zenon
<1>3. CASE AnswerOf(d).Kind # "empty"
  BY <1>1, <1>3, EndNumbered, Zenon DEF OnInstall
<1>. QED  BY <1>2, <1>3, Zenon

(* The eIM overwrites only what the device has pending. *)
LEMMA EimAnswerNumbered ==
  ASSUME Shape, \A x \in Devices : Numbered(x), NEW d \in Devices, EimAnswer(d)
  PROVE  (\A x \in Devices : Numbered(x)') /\ Kept
<1>1. UNCHANGED <<mem, disk, run, settled>> /\ DOMAIN notes = Devices
  BY Zenon DEF EimAnswer, Shape
<1>2. CASE UNCHANGED notes
  BY <1>1, <1>2, NumbersKept, OnlyNumbered, Zenon
<1>3. CASE StoreNotifications(d)
  <2>. DEFINE tlvs == pendingNotificationTLVs(d)
  <2>1. notes' = [notes EXCEPT ![d] = Override(tlvs, notes[d])]
    BY <1>3, Zenon DEF StoreNotifications
  <2>2. DOMAIN tlvs \subseteq DOMAIN mem[d].Pending /\ \A n \in settled[d] : n \notin DOMAIN tlvs
    BY UploadedNotSettled, Zenon
  <2>. HIDE DEF tlvs
  <2>3. /\ DOMAIN Override(tlvs, notes[d]) = DOMAIN tlvs \cup DOMAIN notes[d]
        /\ \A n \in DOMAIN notes[d] \ DOMAIN tlvs : Override(tlvs, notes[d])[n] = notes[d][n]
    BY OverrideKeeps, Zenon
  <2>4. notes'[d] = Override(tlvs, notes[d]) /\ \A x \in Devices \ {d} : notes'[x] = notes[x]
    BY <1>1, <2>1, Zenon
  <2>5. \A n \in settled[d] : notes'[d][n] = notes[d][n]
    BY <2>2, <2>3, <2>4, Zenon DEF Numbered
  <2>6. SavedNext(d)' = SavedNext(d)
    BY <1>1, Zenon DEF SavedNext
  <2>7. DOMAIN notes'[d] = DOMAIN tlvs \cup DOMAIN notes[d]
    BY <2>3, <2>4, Zenon
  <2>8. Numbered(d)'
    BY <1>1, <2>2, <2>6, <2>7, Zenon DEF Numbered
  <2>. QED  BY <1>1, <2>4, <2>5, <2>8, OnlyNumbered, Zenon
<1>. QED
  BY <1>2, <1>3, Zenon DEF EimAnswer, AnswerPoll, AnswerPackage, AnswerResult, handleNotification, Accept

(* No other step is about notifications. *)
LEMMA UnchangedNumbered ==
  ASSUME \A x \in Devices : Numbered(x), UNCHANGED <<mem, disk, run, settled, notes>>
  PROVE  (\A x \in Devices : Numbered(x)') /\ Kept
BY Zenon DEF Numbered, SavedNext, Kept

LEMMA CrashNumbered ==
  ASSUME Shape, \A x \in Devices : Numbered(x), NEW d \in Devices, Crash(d)
  PROVE  (\A x \in Devices : Numbered(x)') /\ Kept
<1>1. End(d) /\ UNCHANGED <<disk, settled, notes>>
  BY Zenon DEF Crash, eimVars
<1>2. Numbered(d)'
  BY <1>1, NumbersAfterEnd, Zenon
<1>. QED  BY <1>1, <1>2, OnlyNumbered, Zenon DEF End, Shape

LEMMA NumberStep == NumberInv /\ [Next]_vars => NumberInv' /\ Kept
<1>. SUFFICES ASSUME NumberInv, [Next]_vars PROVE NumberInv' /\ Kept
  BY Zenon
<1>. DEFINE Goal == (\A x \in Devices : Numbered(x)') /\ Kept
<1>1. DurableInv' /\ Shape /\ \A x \in Devices : Numbered(x)
  BY DurableInvStep, Zenon DEF NumberInv, DurableInv
<1>2. ASSUME NEW d \in Devices, Runner(d) PROVE Goal
  <2>1. ASSUME Poll(d) PROVE Goal
    <3>1. UNCHANGED <<mem, disk, settled, notes>> /\ run[d].At = "idle" /\ run'[d].At = "poll"
          /\ \A x \in Devices \ {d} : run'[x] = run[x]
      BY <1>1, <2>1, Zenon DEF Poll, Send, Go, Shape, eimVars, historyVars
    <3>. QED  BY <1>1, <3>1, NumbersKept, OnlyNumbered, Zenon
  <2>. QED
    BY <1>1, <1>2, <2>1, StartNumbered, pollOnceNumbered, OnPackageNumbered, OnDataNumbered, SessionNumbered,
       OnResultNumbered, OnInstallNumbered, persistNumbered, Zenon DEF Runner
<1>3. ASSUME NEW d \in Devices, Server(d) \/ Operator(d) \/ Fail(d) \/ Expire(d) PROVE Goal
  <2>1. CASE EimAnswer(d)
    BY <1>1, <2>1, EimAnswerNumbered, Zenon
  <2>2. CASE ~EimAnswer(d)
    <3>1. UNCHANGED <<mem, disk, run, settled, notes>>
      BY <1>3, <2>2, Zenon DEF Server, handleRelay, NextBlock, Operator, FollowWarning, QueueAgain, AddTrustedCI,
         Fail, Expire, eimVars, ipaVars, historyVars
    <3>. QED  BY <1>1, <3>1, UnchangedNumbered, Zenon
  <2>. QED  BY <2>1, <2>2, Zenon
<1>4. ASSUME NEW d \in Devices, DownloadFails(d) PROVE Goal
  BY <1>1, <1>4, EndNumbered, Zenon DEF DownloadFails
<1>5. ASSUME NEW r \in serving, Relayed(r) \/ RelayAbandon(r) PROVE Goal
  <2>1. UNCHANGED <<mem, disk, run, settled, notes>>
    BY <1>5, Zenon DEF Relayed, Smdp, RelayDone, RelayAbandon, eimVars, ipaVars, historyVars
  <2>. QED  BY <1>1, <2>1, UnchangedNumbered, Zenon
<1>6. ASSUME UNCHANGED vars PROVE Goal
  <2>1. UNCHANGED <<mem, disk, run, settled, notes>>
    BY <1>6, Zenon DEF vars, eimVars, ipaVars, historyVars
  <2>. QED  BY <1>1, <2>1, UnchangedNumbered, Zenon
<1>7. ASSUME NEW d \in Devices, Crash(d) PROVE Goal
  BY <1>1, <1>7, CrashNumbered, Zenon
<1>8. Goal
  <2>. HIDE DEF Goal
  <2>. QED  BY <1>2, <1>3, <1>4, <1>5, <1>6, <1>7, Zenon DEF Next, Faulty, Active
<1>. QED  BY <1>1, <1>8, Zenon DEF NumberInv

(* Whatever the fleet and however often its processes crash, no stored     *)
(* notification that a mock IPA was done with when it saved is replaced:   *)
(* the state file keeps nextNotificationSequence.                          *)
THEOREM SettledNotificationsKept == Spec => NotificationsKept
<1>1. Init => NumberInv
  <2>. SUFFICES ASSUME Init PROVE \A d \in Devices : Numbered(d)
    BY DurableInvInit, Zenon DEF NumberInv
  <2>. TAKE d \in Devices
  <2>1. SavedNext(d) \in Nat
    BY FleetsAssumption, Zenon DEF Init, SavedNext
  <2>. QED  BY <2>1 DEF Init, Numbered, NewRunner, Down
<1>2. NumberInv /\ [Next]_vars => NumberInv'
  BY NumberStep, Zenon
<1>3. NumberInv /\ [Next]_vars => [\A d \in Devices : \A n \in settled[d] : notes'[d][n] = notes[d][n]]_vars
  BY NumberStep, Zenon DEF Kept
<1>. QED  BY <1>1, <1>2, <1>3, PTL DEF Spec, NotificationsKept

-----------------------------------------------------------------------------
(* The answer that the device is being given, as the cache holds it. *)
PayloadFor(d) == [For |-> d, Answer |-> call[d].Answer, Size |-> call[d].Size]

(* Whole blocks have been fetched, and not yet all of them. *)
AtBlock(got, size) == got \in Nat /\ got < size /\ \E k \in 0..got : got = k * BlockSize

(* An exchange in blocks is about one answer; what is cached for the       *)
(* device, if anything, is that answer.                                    *)
OneAnswer(d) ==
  /\ call[d].At \in {"none", "sent", "relayed"} => call[d].Parts = {}
  /\ call[d].Parts # {} =>
       /\ call[d].Parts = {PayloadFor(d)} /\ call[d].Size \in Nat
       /\ \/ call[d].At = "answered" /\ call[d].Got = call[d].Size
          \/ call[d].At = "blocks" /\ AtBlock(call[d].Got, call[d].Size)
  /\ call[d].At = "blocks" =>
       /\ call[d].Parts # {}
       /\ d \in DOMAIN blockwiseResponses => blockwiseResponses[d].payload = PayloadFor(d)

CacheShape ==
  /\ blockwiseResponses = [k \in DOMAIN blockwiseResponses |-> blockwiseResponses[k]]
  /\ \A k \in DOMAIN blockwiseResponses : DOMAIN blockwiseResponses[k] = {"payload", "expired"}

BlocksInv == DurableInv /\ CacheShape /\ \A d \in Devices : OneAnswer(d)

-----------------------------------------------------------------------------
(* A transaction or none. *)
IsTransaction(tx) == tx = <<>> \/ \E t \in Transactions : tx = <<t>>

(* The SM-DP+ of the operation in hand. *)
SMDPOf(d) == run[d].Op[1].SMDP

(* What a message, an answer or a device says about the transaction t. *)
InRequest(r, t) == r.Msg.Transaction = <<t>> \/ r.Answer.Transaction = <<t>>
InDevice(d, t) == run[d].Tx = <<t>> \/ call[d].Answer.Transaction = <<t>>

TransactionShape ==
  /\ \A d \in Devices : IsTransaction(run[d].Tx) /\ IsTransaction(call[d].Answer.Transaction)
  /\ \A d \in Devices : run[d].At \in {"down", "idle", "save"} => call[d].Answer.Transaction = <<>>
  /\ \A r \in serving : IsTransaction(r.Msg.Transaction) /\ IsTransaction(r.Answer.Transaction)

(* All that holds a transaction agrees on its SM-DP+, and so does the      *)
(* route once a device knows the transaction.                              *)
Held(t, smdp) ==
  /\ \A r \in serving : InRequest(r, t) => r.To = smdp
  /\ \A d \in Devices : InDevice(d, t) =>
       SMDPOf(d) = smdp /\ (t \in DOMAIN byTransaction => byTransaction[t] = smdp)

OneSMDP == \A t \in Transactions : \E smdp : Held(t, smdp)

(* What is wanted goes where the operation in hand says, and an SM-DP+     *)
(* answers in the transaction it was asked about.                          *)
WantedRight ==
  \A r \in serving :
    /\ r.Wanted => r.To = SMDPOf(r.Device)
    /\ r.Msg.Endpoint # "InitiateAuthentication" => r.Answer.Transaction \in {<<>>, r.Msg.Transaction}
    /\ r.Msg.Endpoint = "InitiateAuthentication" => r.Msg.Transaction = <<>>
    /\ r.Answer.Transaction # <<>> =>
         /\ r.Answer.Kind = "ok"
         /\ r.Msg.Endpoint \in {"InitiateAuthentication", "AuthenticateClient", "GetBoundProfilePackage"}

RoutesInv == DurableInv /\ TransactionShape /\ OneSMDP /\ WantedRight

-----------------------------------------------------------------------------
(* Blocks. *)

(* The first block of an answer is all of it, or ends at a block boundary. *)
LEMMA FirstBlock ==
  ASSUME NEW payload, payload.Size \in Nat
  PROVE  /\ coapFirstBlock2Response(payload).Of = payload
         /\ \/ /\ coapFirstBlock2Response(payload).More = FALSE
               /\ coapFirstBlock2Response(payload).End = payload.Size
            \/ /\ coapFirstBlock2Response(payload).More = TRUE
               /\ AtBlock(coapFirstBlock2Response(payload).End, payload.Size)
<1>1. CASE payload.Size <= BlockSize
  BY <1>1, Zenon DEF coapFirstBlock2Response
<1>2. CASE ~(payload.Size <= BlockSize)
  <2>1. 0 * BlockSize = 0 /\ BlockSize < payload.Size /\ Smaller(0 + BlockSize, payload.Size) = BlockSize
    BY <1>2, BlockSizeAssumption DEF Smaller
  <2>. DEFINE c == [Of |-> payload, Start |-> 0, End |-> BlockSize, More |-> BlockSize < payload.Size]
  <2>2. coapBlock2Chunk(payload, 0) = <<c>>
    BY <1>2, <2>1, BlockSizeAssumption DEF coapBlock2Chunk
  <2>3. coapFirstBlock2Response(payload) = c
    BY <1>2, <2>2 DEF coapFirstBlock2Response
  <2>4. 1 \in 0..BlockSize /\ BlockSize = 1 * BlockSize
    BY BlockSizeAssumption
  <2>5. AtBlock(BlockSize, payload.Size)
    BY <2>1, <2>4, BlockSizeAssumption, Zenon DEF AtBlock
  <2>6. c.Of = payload /\ c.End = BlockSize /\ c.More = TRUE
    BY <2>1, Zenon
  <2>. HIDE DEF c
  <2>. QED  BY <2>3, <2>5, <2>6, Zenon
<1>. QED  BY <1>1, <1>2, Zenon

(* The number of the next block follows from the octets fetched. *)
LEMMA NextChunk ==
  ASSUME NEW payload, payload.Size \in Nat, NEW got, AtBlock(got, payload.Size)
  PROVE  \E c : /\ coapBlock2Chunk(payload, got \div BlockSize) = <<c>>
                /\ c.Of = payload
                /\ \/ c.More = FALSE /\ c.End = payload.Size
                   \/ c.More = TRUE /\ AtBlock(c.End, payload.Size)
<1>1. PICK k \in 0..got : got = k * BlockSize
  BY Zenon DEF AtBlock
<1>2. got \in Nat /\ got < payload.Size /\ k \in Nat /\ BlockSize \in Nat \ {0}
  BY BlockSizeAssumption DEF AtBlock
<1>3. got \div BlockSize = k
  BY <1>1, <1>2
<1>. DEFINE size == payload.Size
            end == Smaller(got + BlockSize, size)
            c == [Of |-> payload, Start |-> got, End |-> end, More |-> end < size]
<1>4. coapBlock2Chunk(payload, got \div BlockSize) = <<c>>
  BY <1>1, <1>2, <1>3 DEF coapBlock2Chunk
<1>5. c.Of = payload /\ c.More = (end < size) /\ c.End = end
  BY Zenon
<1>6. CASE got + BlockSize < size
  <2>1. k + 1 \in 0..(got + BlockSize) /\ got + BlockSize = (k + 1) * BlockSize
    BY <1>1, <1>2
  <2>2. AtBlock(got + BlockSize, size)
    BY <1>2, <1>6, <2>1 DEF AtBlock
  <2>3. end = got + BlockSize /\ (end < size) = TRUE
    BY <1>6, Zenon DEF Smaller
  <2>. HIDE DEF c, end
  <2>. QED  BY <1>4, <1>5, <2>2, <2>3, Zenon
<1>7. CASE ~(got + BlockSize < size)
  <2>1. end = size /\ (end < size) = FALSE
    BY <1>2, <1>7 DEF Smaller
  <2>. HIDE DEF c, end
  <2>. QED  BY <1>4, <1>5, <2>1, Zenon
<1>. QED  BY <1>6, <1>7, Zenon

(* At most the exchange of d changes, and it is without blocks. *)
PlainChange(d) ==
  /\ call'[d].Parts = {} /\ call'[d].At # "blocks"
  /\ \A x \in Devices \ {d} : call'[x] = call[x]

(* An exchange without blocks. *)
LEMMA PlainCall ==
  ASSUME NEW d \in Devices, call'[d].Parts = {}, call'[d].At # "blocks"
  PROVE  OneAnswer(d)'
BY Zenon DEF OneAnswer

(* A device whose exchange and cached answer a step leaves alone. *)
LEMMA OtherAnswer ==
  ASSUME NEW x \in Devices, OneAnswer(x), call'[x] = call[x],
         x \in DOMAIN blockwiseResponses' =>
           x \in DOMAIN blockwiseResponses /\ blockwiseResponses'[x].payload = blockwiseResponses[x].payload
  PROVE  OneAnswer(x)'
BY Zenon DEF OneAnswer, PayloadFor

(* Steps that leave the cache alone and, if they change an exchange, start *)
(* or end it.                                                              *)
LEMMA PlainStep ==
  ASSUME CacheShape, \A x \in Devices : OneAnswer(x), UNCHANGED blockwiseResponses,
         \A x \in Devices : call'[x] = call[x] \/ (call'[x].Parts = {} /\ call'[x].At # "blocks")
  PROVE  CacheShape' /\ \A x \in Devices : OneAnswer(x)'
<1>1. CacheShape'
  BY Zenon DEF CacheShape
<1>2. ASSUME NEW x \in Devices PROVE OneAnswer(x)'
  BY PlainCall, OtherAnswer, Zenon
<1>. QED  BY <1>1, <1>2, Zenon

(* An answer that is delivered is cached, for its device only. *)
LEMMA DeliveredWhole ==
  ASSUME Shape, CacheShape, \A x \in Devices : OneAnswer(x), NEW d \in Devices, NEW answer, Deliver(d, answer)
  PROVE  CacheShape' /\ \A x \in Devices : OneAnswer(x)'
<1>1. CASE fleet[d].Transport = "coap" /\ HasBody(answer)
  <2>. DEFINE payload(size) == [For |-> d, Answer |-> answer, Size |-> size]
              block(size) == coapFirstBlock2Response(payload(size))
              entry(size) == [payload |-> payload(size), expired |-> FALSE]
              current == {k \in DOMAIN blockwiseResponses : ~blockwiseResponses[k].expired}
  <2>1. PICK size \in AnswerSizes :
          /\ blockwiseResponses' = cacheBlockwiseResponse(coapBlockwiseCacheKey(d), payload(size))
          /\ call' = [call EXCEPT ![d] = [At |-> IF block(size).More THEN "blocks" ELSE "answered",
                                           Answer |-> answer, Size |-> size,
                                           Got |-> block(size).End, Parts |-> {block(size).Of}]]
    BY <1>1, Zenon DEF Deliver
  <2>2. blockwiseResponses' =
          [k \in current \cup {d} |-> IF k = d THEN entry(size) ELSE blockwiseResponses[k]]
    BY <2>1, Zenon DEF cacheBlockwiseResponse, coapBlockwiseCacheKey
  <2>3. entry(size).payload = payload(size) /\ DOMAIN entry(size) = {"payload", "expired"}
    BY Zenon
  <2>4. size \in Nat /\ payload(size).Size = size
    BY AnswerSizesAssumption, Zenon
  <2>5. /\ block(size).Of = payload(size)
        /\ \/ block(size).More = FALSE /\ block(size).End = size
           \/ block(size).More = TRUE /\ AtBlock(block(size).End, size)
    <3>. HIDE DEF payload
    <3>. QED  BY <2>4, FirstBlock, Zenon
  <2>6. /\ call'[d].Answer = answer /\ call'[d].Size = size /\ call'[d].Parts = {payload(size)}
        /\ \/ call'[d].At = "answered" /\ call'[d].Got = size
           \/ call'[d].At = "blocks" /\ AtBlock(call'[d].Got, size)
        /\ \A x \in Devices \ {d} : call'[x] = call[x]
    <3>. HIDE DEF payload, block
    <3>. QED  BY <2>1, <2>5, Zenon DEF Shape
  <2>7. PayloadFor(d)' = payload(size)
    BY <2>6, Zenon DEF PayloadFor
  <2>. HIDE DEF payload, block, entry
  <2>8. blockwiseResponses'[d].payload = payload(size)
    BY <2>2, <2>3, Zenon
  <2>9. OneAnswer(d)'
    BY <2>4, <2>6, <2>7, <2>8, Zenon DEF OneAnswer
  <2>10. ASSUME NEW x \in Devices \ {d} PROVE OneAnswer(x)'
    BY <2>2, <2>6, OtherAnswer, Zenon
  <2>11. CacheShape'
    BY <2>2, <2>3, Zenon DEF CacheShape
  <2>. QED  BY <2>9, <2>10, <2>11, Zenon
<1>2. CASE ~(fleet[d].Transport = "coap" /\ HasBody(answer))
  <2>1. /\ call' = [call EXCEPT ![d] = [NoCall EXCEPT !.At = "answered", !.Answer = answer]]
        /\ UNCHANGED blockwiseResponses
    BY <1>2, Zenon DEF Deliver
  <2>. QED  BY <2>1, PlainStep, Zenon DEF Shape, NoCall
<1>. QED  BY <1>1, <1>2, Zenon

(* The client adds the block it asked for, or is told there is none. *)
LEMMA NextBlockWhole ==
  ASSUME Shape, CacheShape, \A x \in Devices : OneAnswer(x), NEW d \in Devices, NextBlock(d)
  PROVE  CacheShape' /\ \A x \in Devices : OneAnswer(x)'
<1>. DEFINE cached == cachedBlockwiseResponse(coapBlockwiseCacheKey(d))
            block == IF cached = <<>> THEN <<>> ELSE coapBlock2Chunk(cached[1], call[d].Got \div BlockSize)
            none == [NoCall EXCEPT !.At = "answered", !.Answer = Error("bad request")]
            more == [call[d] EXCEPT !.At = IF block[1].More THEN "blocks" ELSE "answered",
                                    !.Got = block[1].End, !.Parts = call[d].Parts \cup {block[1].Of}]
<1>1. /\ call[d].At = "blocks" /\ UNCHANGED blockwiseResponses
      /\ call' = [call EXCEPT ![d] = IF block = <<>> THEN none ELSE more]
  BY Zenon DEF NextBlock
<1>2. CASE cached = <<>>
  <2>1. call' = [call EXCEPT ![d] = none]
    BY <1>1, <1>2, Zenon
  <2>2. none.Parts = {} /\ none.At # "blocks"
    BY Zenon DEF NoCall
  <2>. HIDE DEF none
  <2>3. \A x \in Devices : call'[x] = call[x] \/ (call'[x].Parts = {} /\ call'[x].At # "blocks")
    BY <2>1, <2>2, Zenon DEF Shape
  <2>. QED  BY <1>1, <2>3, PlainStep, Zenon
<1>3. CASE cached # <<>>
  <2>1. d \in DOMAIN blockwiseResponses /\ cached = <<blockwiseResponses[d].payload>>
    BY <1>3, Zenon DEF cachedBlockwiseResponse, coapBlockwiseCacheKey
  <2>2. /\ cached[1] = PayloadFor(d) /\ PayloadFor(d).Size = call[d].Size /\ call[d].Size \in Nat
        /\ call[d].Parts = {PayloadFor(d)} /\ AtBlock(call[d].Got, call[d].Size)
    BY <1>1, <2>1 DEF OneAnswer, PayloadFor
  <2>3. PICK c : /\ coapBlock2Chunk(PayloadFor(d), call[d].Got \div BlockSize) = <<c>>
                 /\ c.Of = PayloadFor(d)
                 /\ \/ c.More = FALSE /\ c.End = call[d].Size
                    \/ c.More = TRUE /\ AtBlock(c.End, call[d].Size)
    <3>. DEFINE payload == PayloadFor(d)
                got == call[d].Got
    <3>1. payload.Size = call[d].Size /\ payload.Size \in Nat /\ AtBlock(got, payload.Size)
      BY <2>2, Zenon
    <3>. HIDE DEF payload, got
    <3>2. PICK c : /\ coapBlock2Chunk(payload, got \div BlockSize) = <<c>>
                   /\ c.Of = payload
                   /\ \/ c.More = FALSE /\ c.End = payload.Size
                      \/ c.More = TRUE /\ AtBlock(c.End, payload.Size)
      BY <3>1, NextChunk, Zenon
    <3>. QED  BY <3>1, <3>2, Zenon DEF payload, got
  <2>4. block = <<c>> /\ block[1] = c
    BY <1>3, <2>2, <2>3
  <2>. HIDE DEF block
  <2>5. call' = [call EXCEPT ![d] = more] /\ IsCall(call[d]) /\ DOMAIN call = Devices
    BY <1>1, <2>4, Zenon DEF Shape
  <2>6. /\ more.Answer = call[d].Answer /\ more.Size = call[d].Size /\ more.Parts = {PayloadFor(d)}
        /\ \/ more.At = "answered" /\ more.Got = call[d].Size
           \/ more.At = "blocks" /\ AtBlock(more.Got, call[d].Size)
    BY <2>2, <2>3, <2>4, <2>5, Zenon DEF IsCall
  <2>. HIDE DEF more
  <2>7. call'[d] = more /\ \A x \in Devices \ {d} : call'[x] = call[x]
    BY <2>5, Zenon
  <2>8. PayloadFor(d)' = PayloadFor(d)
    BY <2>6, <2>7, Zenon DEF PayloadFor
  <2>9. OneAnswer(d)'
    BY <1>1, <2>1, <2>2, <2>6, <2>7, <2>8, Zenon DEF OneAnswer
  <2>10. ASSUME NEW x \in Devices \ {d} PROVE OneAnswer(x)'
    BY <1>1, <2>7, OtherAnswer, Zenon
  <2>. QED  BY <1>1, <2>9, <2>10, Zenon DEF CacheShape
<1>. QED  BY <1>2, <1>3, Zenon

LEMMA ExpireWhole ==
  ASSUME CacheShape, \A x \in Devices : OneAnswer(x), NEW d \in Devices, Expire(d)
  PROVE  CacheShape' /\ \A x \in Devices : OneAnswer(x)'
<1>1. /\ UNCHANGED call /\ d \in DOMAIN blockwiseResponses
      /\ blockwiseResponses' = [blockwiseResponses EXCEPT ![d].expired = TRUE]
  BY Zenon DEF Expire, ipaVars, cachedBlockwiseResponse, coapBlockwiseCacheKey
<1>2. /\ DOMAIN blockwiseResponses' = DOMAIN blockwiseResponses
      /\ \A k \in DOMAIN blockwiseResponses :
           /\ blockwiseResponses'[k].payload = blockwiseResponses[k].payload
           /\ DOMAIN blockwiseResponses'[k] = {"payload", "expired"}
  BY <1>1, Zenon DEF CacheShape
<1>3. CacheShape'
  BY <1>1, <1>2, Zenon DEF CacheShape
<1>4. ASSUME NEW x \in Devices PROVE OneAnswer(x)'
  BY <1>1, <1>2, OtherAnswer, Zenon
<1>. QED  BY <1>3, <1>4, Zenon

LEMMA StartWhole ==
  ASSUME CacheShape, \A x \in Devices : OneAnswer(x), NEW d \in Devices, Start(d)
  PROVE  CacheShape' /\ \A x \in Devices : OneAnswer(x)'
<1>1. /\ UNCHANGED call
      /\ blockwiseResponses' = [k \in DOMAIN blockwiseResponses \ {d} |-> blockwiseResponses[k]]
  BY Zenon DEF Start, Drop, Restrict, coapBlockwiseCacheKey
<1>2. ASSUME NEW x \in Devices PROVE OneAnswer(x)'
  BY <1>1, OtherAnswer, Zenon
<1>. QED  BY <1>1, <1>2, Zenon DEF CacheShape

(* Steps of the process start an exchange or end one. *)
LEMMA RunnerWhole ==
  ASSUME Shape, CacheShape, \A x \in Devices : OneAnswer(x), NEW d \in Devices,
         Runner(d) \/ DownloadFails(d), ~Start(d)
  PROVE  CacheShape' /\ \A x \in Devices : OneAnswer(x)'
<1>1. ASSUME NEW step, NEW op, NEW tx, Send(d, step, op, tx)
      PROVE  PlainChange(d)
  BY <1>1, Zenon DEF Send, NoCall, Shape, PlainChange
<1>2. ASSUME Finish(d) \/ End(d)
      PROVE  PlainChange(d)
  BY <1>2 DEF Finish, End, NoCall, Shape, PlainChange
<1>3. UNCHANGED call \/ PlainChange(d)
  BY <1>1, <1>2, Zenon DEF Runner, DownloadFails, Poll, pollOnce, handleEUICCPackage, handleProfileDownloadTrigger, OnPackage,
     handleIpaEuiccDataRequest, OnInit, OnAuth, OnBpp, OnNotify, OnCancel, OnResult, OnInstall, persistState
<1>4. UNCHANGED blockwiseResponses
  BY Zenon DEF Runner, DownloadFails, Poll, pollOnce, OnPackage,
     handleIpaEuiccDataRequest, OnInit, OnAuth, OnBpp, OnNotify, OnCancel, OnResult, OnInstall, persistState, Local
<1>5. \A x \in Devices : call'[x] = call[x] \/ (call'[x].Parts = {} /\ call'[x].At # "blocks")
  BY <1>3, Zenon DEF PlainChange
<1>. QED  BY <1>4, <1>5, PlainStep, Zenon

LEMMA BlocksStep == BlocksInv /\ [Next]_vars => BlocksInv'
<1>. SUFFICES ASSUME BlocksInv, [Next]_vars PROVE BlocksInv'
  BY Zenon
<1>. DEFINE Goal == CacheShape' /\ \A x \in Devices : OneAnswer(x)'
<1>1. DurableInv' /\ Shape /\ CacheShape /\ \A x \in Devices : OneAnswer(x)
  BY DurableInvStep, Zenon DEF BlocksInv, DurableInv
<1>2. ASSUME NEW d \in Devices, Runner(d) \/ DownloadFails(d) PROVE Goal
  BY <1>1, <1>2, StartWhole, RunnerWhole, Zenon
<1>3. ASSUME NEW d \in Devices, EimAnswer(d) PROVE Goal
  <2>1. PICK answer : Deliver(d, answer)
    BY <1>3, Zenon DEF EimAnswer, AnswerPoll, AnswerPackage, AnswerResult, handleNotification, Accept
  <2>. QED  BY <1>1, <2>1, DeliveredWhole, Zenon
<1>4. ASSUME NEW d \in Devices, handleRelay(d) PROVE Goal
  <2>1. CASE Deliver(d, Error("unknown session"))
    BY <1>1, <2>1, DeliveredWhole, Zenon
  <2>2. CASE call' = [call EXCEPT ![d].At = "relayed"] /\ UNCHANGED blockwiseResponses
    <3>1. call'[d].Parts = {} /\ call'[d].At # "blocks" /\ \A x \in Devices \ {d} : call'[x] = call[x]
      BY <1>1, <1>4, <2>2, Zenon DEF handleRelay, Shape, IsCall, OneAnswer
    <3>. QED  BY <1>1, <2>2, <3>1, PlainStep, Zenon
  <2>. QED  BY <1>4, <2>1, <2>2, Zenon DEF handleRelay
<1>5. ASSUME NEW d \in Devices, NextBlock(d) \/ Expire(d) PROVE Goal
  BY <1>1, <1>5, NextBlockWhole, ExpireWhole, Zenon
<1>6. ASSUME NEW d \in Devices, Fail(d) \/ Crash(d) PROVE Goal
  <2>1. UNCHANGED blockwiseResponses /\ PlainChange(d)
    <3>1. CASE Fail(d)
      BY <1>1, <3>1, Zenon DEF Fail, NoCall, Shape, PlainChange
    <3>2. CASE Crash(d)
      BY <1>1, <3>2, Zenon DEF Crash, End, NoCall, Shape, PlainChange
    <3>. QED  BY <1>6, <3>1, <3>2, Zenon
  <2>2. \A x \in Devices : call'[x] = call[x] \/ (call'[x].Parts = {} /\ call'[x].At # "blocks")
    BY <2>1, Zenon DEF PlainChange
  <2>. QED  BY <1>1, <2>1, <2>2, PlainStep, Zenon
<1>7. ASSUME UNCHANGED <<call, blockwiseResponses>> PROVE Goal
  BY <1>1, <1>7, PlainStep, Zenon
<1>8. ASSUME NEW d \in Devices, Operator(d) PROVE Goal
  BY <1>7, <1>8, Zenon DEF Operator, FollowWarning, QueueAgain, AddTrustedCI, ipaVars
<1>9. ASSUME NEW r \in serving, RelayDone(r) PROVE Goal
  <2>1. CASE r.Wanted
    <3>1. Deliver(r.Device, relayResponse(r)) /\ r.Device \in Devices
      BY <1>1, <1>9, <2>1, Zenon DEF RelayDone, Shape
    <3>. QED  BY <1>1, <3>1, DeliveredWhole, Zenon
  <2>2. CASE ~r.Wanted
    BY <1>7, <1>9, <2>2, Zenon DEF RelayDone
  <2>. QED  BY <2>1, <2>2, Zenon
<1>10. ASSUME NEW r \in serving, Smdp(r) \/ RelayAbandon(r) PROVE Goal
  BY <1>7, <1>10, Zenon DEF Smdp, RelayAbandon, ipaVars
<1>11. ASSUME UNCHANGED vars PROVE Goal
  BY <1>7, <1>11, Zenon DEF vars, ipaVars
<1>12. Goal
  <2>. HIDE DEF Goal
  <2>. QED  BY <1>2, <1>3, <1>4, <1>5, <1>6, <1>8, <1>9, <1>10, <1>11, Zenon DEF Next, Server, Faulty, Relayed, Active
<1>. QED  BY <1>1, <1>12, Zenon DEF BlocksInv

(* For every fleet, block size and mix of answer sizes: the blocks that a  *)
(* mock IPA puts together over CoAP are all of the one answer meant for    *)
(* it, and the transfer ends exactly with the last octet, although the     *)
(* cache of coap.go is shared, expires and is cleaned by other devices.    *)
THEOREM AnswersWhole == Spec => []WholeAnswers
<1>1. Init => BlocksInv
  <2>. SUFFICES ASSUME Init PROVE CacheShape /\ \A d \in Devices : OneAnswer(d)
    BY DurableInvInit, Zenon DEF BlocksInv
  <2>. QED  BY DEF Init, CacheShape, OneAnswer, NoCall
<1>2. BlocksInv => WholeAnswers
  <2>. SUFFICES ASSUME BlocksInv, NEW d \in Devices, call[d].Parts # {}
                PROVE  /\ call[d].Parts = {PayloadFor(d)}
                       /\ call[d].At = "answered" <=> call[d].Got = call[d].Size
    BY Zenon DEF WholeAnswers, PayloadFor
  <2>. QED  BY DEF BlocksInv, OneAnswer, AtBlock
<1>. QED  BY <1>1, <1>2, BlocksStep, PTL DEF Spec

-----------------------------------------------------------------------------
(* Routes. *)

(* A step of the device d that opens no session. *)
LEMMA DeviceRoutes ==
  ASSUME RoutesInv, DurableInv', NEW d \in Devices, UNCHANGED <<serving, byTransaction>>,
         \A x \in Devices \ {d} : run'[x] = run[x] /\ call'[x] = call[x],
         run'[d].Op = run[d].Op \/ \A r \in serving : r.Wanted => r.Device # d,
         IsTransaction(run'[d].Tx), IsTransaction(call'[d].Answer.Transaction),
         run'[d].At \in {"down", "idle", "save"} => call'[d].Answer.Transaction = <<>>,
         \A t \in Transactions : InDevice(d, t)' => InDevice(d, t) /\ run'[d].Op = run[d].Op
  PROVE  RoutesInv'
<1>1. TransactionShape'
  BY Zenon DEF RoutesInv, TransactionShape
<1>2. \A x \in Devices, t \in Transactions : InDevice(x, t)' => InDevice(x, t) /\ SMDPOf(x)' = SMDPOf(x)
  <2>1. TAKE x \in Devices, t \in Transactions
  <2>2. CASE x = d
    BY <2>2, Zenon DEF SMDPOf
  <2>3. CASE x # d
    BY <2>3, Zenon DEF InDevice, SMDPOf
  <2>. QED  BY <2>2, <2>3, Zenon
<1>3. OneSMDP'
  <2>1. SUFFICES ASSUME NEW t \in Transactions PROVE \E smdp : Held(t, smdp)'
    BY Zenon DEF OneSMDP
  <2>2. PICK smdp : Held(t, smdp)
    BY Zenon DEF RoutesInv, OneSMDP
  <2>3. \A x \in Devices : InDevice(x, t)' => InDevice(x, t) /\ SMDPOf(x)' = SMDPOf(x)
    BY <1>2, Zenon
  <2>4. Held(t, smdp)'
    BY <2>2, <2>3, Zenon DEF Held, InRequest
  <2>. QED  BY <2>4, Zenon
<1>4. WantedRight'
  <2>1. \A r \in serving : r.Wanted => SMDPOf(r.Device)' = SMDPOf(r.Device)
    BY Zenon DEF RoutesInv, DurableInv, Shape, SMDPOf
  <2>. QED  BY <2>1, Zenon DEF RoutesInv, WantedRight
<1>. QED  BY <1>1, <1>3, <1>4, Zenon DEF RoutesInv

(* A device that waits for no relayed answer has no wanted request. *)
LEMMA NoneWanted ==
  ASSUME Awaited, NEW d \in Devices, call[d].At # "relayed" \/ run[d].At \notin RelaySteps
  PROVE  \A r \in serving : r.Wanted => r.Device # d
BY Zenon DEF Awaited

LEMMA PlainAnswers ==
  /\ NoAnswer.Transaction = <<>> /\ Ok.Transaction = <<>> /\ Empty.Transaction = <<>>
  /\ \A why : Error(why).Transaction = <<>>
  /\ NoCall.Answer.Transaction = <<>>
BY Zenon DEF NoAnswer, Ok, Empty, Error, NoCall

(* The process begins another step without a session. *)
LEMMA FreshRoutes ==
  ASSUME RoutesInv, DurableInv', NEW d \in Devices, UNCHANGED <<serving, byTransaction>>,
         \A x \in Devices \ {d} : run'[x] = run[x] /\ call'[x] = call[x],
         call[d].At # "relayed" \/ run[d].At \notin RelaySteps,
         run'[d].Tx = <<>>, call'[d].Answer.Transaction = <<>>
  PROVE  RoutesInv'
<1>1. \A r \in serving : r.Wanted => r.Device # d
  BY NoneWanted, Zenon DEF RoutesInv, DurableInv
<1>2. IsTransaction(run'[d].Tx) /\ IsTransaction(call'[d].Answer.Transaction)
  BY Zenon DEF IsTransaction
<1>3. \A t \in Transactions : ~InDevice(d, t)'
  BY DEF InDevice
<1>. QED  BY <1>1, <1>2, <1>3, DeviceRoutes, Zenon

LEMMA EndRoutes ==
  ASSUME RoutesInv, DurableInv', NEW d \in Devices, UNCHANGED <<serving, byTransaction>>, End(d),
         call[d].At = "answered"
  PROVE  RoutesInv'
<1>1. /\ run'[d].Tx = <<>> /\ call'[d].Answer.Transaction = <<>>
      /\ \A x \in Devices \ {d} : run'[x] = run[x] /\ call'[x] = call[x]
  BY PlainAnswers, Zenon DEF End, Down, RoutesInv, DurableInv, Shape
<1>. QED  BY <1>1, FreshRoutes, Zenon

LEMMA FinishRoutes ==
  ASSUME RoutesInv, DurableInv', NEW d \in Devices, UNCHANGED <<serving, byTransaction>>, Finish(d),
         call[d].At = "answered"
  PROVE  RoutesInv'
<1>1. /\ run'[d].Tx = <<>> /\ call'[d].Answer.Transaction = <<>>
      /\ \A x \in Devices \ {d} : run'[x] = run[x] /\ call'[x] = call[x]
  BY PlainAnswers, Zenon DEF Finish, Go, RoutesInv, DurableInv, Shape
<1>. QED  BY <1>1, FreshRoutes, Zenon

(* A request of the process: of a session that it is in, or of none. *)
LEMMA SendRoutes ==
  ASSUME RoutesInv, DurableInv', NEW d \in Devices, UNCHANGED <<serving, byTransaction>>,
         NEW step, NEW op, NEW tx, Send(d, step, op, tx),
         call[d].At # "relayed" \/ run[d].At \notin RelaySteps,
         \/ tx = <<>>
         \/ op = run[d].Op /\ tx \in {run[d].Tx, call[d].Answer.Transaction}
  PROVE  RoutesInv'
<1>1. /\ run'[d].Tx = tx /\ run'[d].Op = op /\ call'[d].Answer.Transaction = <<>>
      /\ \A x \in Devices \ {d} : run'[x] = run[x] /\ call'[x] = call[x]
  BY PlainAnswers, Zenon DEF Send, Go, NoCall, RoutesInv, DurableInv, Shape
<1>2. CASE tx = <<>>
  BY <1>1, <1>2, FreshRoutes, Zenon
<1>3. CASE op = run[d].Op /\ tx \in {run[d].Tx, call[d].Answer.Transaction}
  <2>1. IsTransaction(tx) /\ IsTransaction(<<>>)
    BY <1>3, Zenon DEF RoutesInv, TransactionShape, IsTransaction
  <2>2. \A t \in Transactions : InDevice(d, t)' => InDevice(d, t) /\ run'[d].Op = run[d].Op
    BY <1>1, <1>3 DEF InDevice
  <2>. QED  BY <1>1, <1>3, <2>1, <2>2, DeviceRoutes, Zenon
<1>. QED  BY <1>2, <1>3, Zenon

LEMMA RunnerRoutes ==
  ASSUME RoutesInv, DurableInv', NEW d \in Devices, Runner(d) \/ DownloadFails(d)
  PROVE  RoutesInv'
<1>1. UNCHANGED <<serving, byTransaction>>
  BY Zenon DEF Runner, DownloadFails, Start, Poll, pollOnce, OnPackage, handleIpaEuiccDataRequest, OnInit, OnAuth, OnBpp,
     OnNotify, OnCancel, OnResult, OnInstall, persistState, Local, relayVars
<1>2. CASE Start(d)
  <2>1. /\ run'[d].Tx = <<>> /\ call'[d] = call[d] /\ run[d].At \notin RelaySteps
        /\ \A x \in Devices \ {d} : run'[x] = run[x] /\ call'[x] = call[x]
    BY <1>2, Zenon DEF Start, Go, RelaySteps, RoutesInv, DurableInv, Shape
  <2>2. call[d].Answer.Transaction = <<>>
    BY <1>2, Zenon DEF Start, RoutesInv, TransactionShape
  <2>. QED  BY <1>1, <2>1, <2>2, FreshRoutes, Zenon
<1>3. CASE Poll(d)
  <2>1. Send(d, "poll", <<>>, <<>>) /\ run[d].At \notin RelaySteps
    BY <1>3, Zenon DEF Poll, RelaySteps
  <2>. QED  BY <1>1, <2>1, SendRoutes, Zenon
<1>4. CASE persistState(d)
  <2>1. /\ run'[d].Tx = <<>> /\ call'[d] = call[d] /\ run[d].At \notin RelaySteps
        /\ \A x \in Devices \ {d} : run'[x] = run[x] /\ call'[x] = call[x]
    BY <1>4, Zenon DEF persistState, Go, RelaySteps, RoutesInv, DurableInv, Shape
  <2>2. call[d].Answer.Transaction = <<>>
    BY <1>4, Zenon DEF persistState, RoutesInv, TransactionShape
  <2>. QED  BY <1>1, <2>1, <2>2, FreshRoutes, Zenon
<1>5. CASE ~(Start(d) \/ Poll(d) \/ persistState(d))
  <2>1. call[d].At = "answered"
    BY <1>5, Zenon DEF Runner, DownloadFails, pollOnce, OnPackage, handleIpaEuiccDataRequest, OnInit, OnAuth, OnBpp,
       OnNotify, OnCancel, OnResult, OnInstall, Answered
  <2>2. ASSUME Finish(d) \/ End(d) PROVE RoutesInv'
    BY <1>1, <2>1, <2>2, FinishRoutes, EndRoutes, Zenon
  <2>3. ASSUME NEW step, NEW op, Send(d, step, op, <<>>) PROVE RoutesInv'
    BY <1>1, <2>1, <2>3, SendRoutes, Zenon
  <2>4. ASSUME NEW step, NEW tx \in {run[d].Tx, call[d].Answer.Transaction}, Send(d, step, run[d].Op, tx)
        PROVE  RoutesInv'
    BY <1>1, <2>1, <2>4, SendRoutes, Zenon
  <2>. QED
    BY <1>5, <2>2, <2>3, <2>4, Zenon DEF Runner, DownloadFails, pollOnce, handleEUICCPackage, handleProfileDownloadTrigger,
       OnPackage, handleIpaEuiccDataRequest, OnInit, OnAuth, OnBpp, OnNotify, OnCancel, OnResult, OnInstall, AnswerOf
<1>. QED  BY <1>2, <1>3, <1>4, <1>5, Zenon

(* Answers of the eIM itself name no transaction. *)
LEMMA EimAnswerRoutes ==
  ASSUME RoutesInv, DurableInv', NEW d \in Devices, EimAnswer(d)
  PROVE  RoutesInv'
<1>1. /\ UNCHANGED <<serving, byTransaction, run>> /\ call[d].At = "sent" /\ DOMAIN call = Devices
  BY Zenon DEF EimAnswer, relayVars, RoutesInv, DurableInv, Shape
<1>2. \E answer : Deliver(d, answer) /\ answer.Transaction = <<>>
  <2>1. ASSUME Accept(d, run[d].Op[1]) PROVE \E answer : Deliver(d, answer) /\ answer.Transaction = <<>>
    <3>. DEFINE answer == [Ok EXCEPT !.Acks = DOMAIN pendingNotificationTLVs(d)]
    <3>1. Deliver(d, answer) /\ answer.Transaction = <<>>
      BY <2>1, Zenon DEF Accept, Ok, NoAnswer
    <3>. QED  BY <3>1, Zenon
  <2>2. CASE AnswerPoll(d)
    <3>. DEFINE answer == IF queue[d] = <<>> THEN [Ok EXCEPT !.Kind = "nothing"]
                          ELSE [Ok EXCEPT !.Kind = "op", !.Op = <<selectOperationForGetEimPackage(queue[d])>>]
    <3>1. Deliver(d, answer)
      BY <2>2, Zenon DEF AnswerPoll
    <3>2. answer.Transaction = <<>>
      BY Zenon DEF Ok, NoAnswer
    <3>. QED  BY <3>1, <3>2, Zenon
  <2>3. CASE AnswerPackage(d)
    BY <2>1, <2>3, PlainAnswers, Zenon DEF AnswerPackage
  <2>4. CASE AnswerResult(d)
    BY <2>1, <2>4, Zenon DEF AnswerResult
  <2>5. CASE handleNotification(d)
    BY <2>5, PlainAnswers, Zenon DEF handleNotification
  <2>. QED  BY <2>2, <2>3, <2>4, <2>5, Zenon DEF EimAnswer
<1>3. call'[d].Answer.Transaction = <<>> /\ \A x \in Devices \ {d} : call'[x] = call[x]
  BY <1>1, <1>2, Delivered
<1>4. IsTransaction(run'[d].Tx) /\ IsTransaction(<<>>)
  BY <1>1, Zenon DEF RoutesInv, TransactionShape, IsTransaction
<1>5. \A t \in Transactions : InDevice(d, t)' => InDevice(d, t) /\ run'[d].Op = run[d].Op
  BY <1>1, <1>3 DEF InDevice
<1>. QED  BY <1>1, <1>3, <1>4, <1>5, DeviceRoutes, Zenon

LEMMA NextBlockRoutes ==
  ASSUME RoutesInv, DurableInv', NEW d \in Devices, NextBlock(d)
  PROVE  RoutesInv'
<1>. DEFINE cached == cachedBlockwiseResponse(coapBlockwiseCacheKey(d))
            block == IF cached = <<>> THEN <<>> ELSE coapBlock2Chunk(cached[1], call[d].Got \div BlockSize)
            none == [NoCall EXCEPT !.At = "answered", !.Answer = Error("bad request")]
            more == [call[d] EXCEPT !.At = IF block[1].More THEN "blocks" ELSE "answered",
                                    !.Got = block[1].End, !.Parts = call[d].Parts \cup {block[1].Of}]
<1>1. /\ UNCHANGED <<serving, byTransaction, run>> /\ DOMAIN call = Devices /\ IsCall(call[d])
      /\ call' = [call EXCEPT ![d] = IF block = <<>> THEN none ELSE more]
  BY Zenon DEF NextBlock, relayVars, RoutesInv, DurableInv, Shape
<1>. HIDE DEF block
<1>2. none.Answer.Transaction = <<>> /\ more.Answer = call[d].Answer
  BY <1>1, PlainAnswers, Zenon DEF NoCall, IsCall
<1>. HIDE DEF none, more
<1>3. /\ call'[d].Answer.Transaction \in {<<>>, call[d].Answer.Transaction}
      /\ \A x \in Devices \ {d} : call'[x] = call[x]
  BY <1>1, <1>2, Zenon
<1>4. IsTransaction(run'[d].Tx) /\ IsTransaction(call'[d].Answer.Transaction)
      /\ (run'[d].At \in {"down", "idle", "save"} => call'[d].Answer.Transaction = <<>>)
  BY <1>1, <1>3 DEF RoutesInv, TransactionShape, IsTransaction
<1>5. \A t \in Transactions : InDevice(d, t)' => InDevice(d, t) /\ run'[d].Op = run[d].Op
  <2>1. run' = run
    BY <1>1, Zenon
  <2>2. ASSUME NEW t, call'[d].Answer.Transaction = <<t>>
        PROVE  call[d].Answer.Transaction = <<t>>
    <3>1. <<>> # <<t>>
      BY Zenon
    <3>. QED  BY <1>3, <2>2, <3>1, Zenon
  <2>. QED  BY <2>1, <2>2, Zenon DEF InDevice
<1>. QED  BY <1>1, <1>3, <1>4, <1>5, DeviceRoutes, Zenon

(* A device sends a message of a session to the SM-DP+ of its operation. *)
LEMMA MessageRoute ==
  ASSUME RoutesInv, NEW d \in Devices, run[d].At \in RelaySteps, RouteOf(RelayMessage(d)) # <<>>
  PROVE  /\ RouteOf(RelayMessage(d))[1] = SMDPOf(d)
         /\ RelayMessage(d).Transaction \in {<<>>, run[d].Tx}
         /\ RelayMessage(d).Endpoint = "InitiateAuthentication" => RelayMessage(d).Transaction = <<>>
<1>1. ASSUME smdpForTransaction(run[d].Tx) # <<>>
      PROVE  smdpForTransaction(run[d].Tx)[1] = SMDPOf(d)
  <2>1. run[d].Tx # <<>> /\ run[d].Tx[1] \in DOMAIN byTransaction
        /\ smdpForTransaction(run[d].Tx)[1] = byTransaction[run[d].Tx[1]]
    BY <1>1, Zenon DEF smdpForTransaction
  <2>2. PICK t \in Transactions : run[d].Tx = <<t>>
    BY <2>1, Zenon DEF RoutesInv, TransactionShape, IsTransaction
  <2>3. PICK smdp : Held(t, smdp)
    BY Zenon DEF RoutesInv, OneSMDP
  <2>. QED  BY <2>1, <2>2, <2>3 DEF Held, InDevice
<1>2. smdpForTransaction(<<>>) = <<>>
  BY Zenon DEF smdpForTransaction
<1>3. CASE run[d].At = "init"
  <2>1. RelayMessage(d) = [Endpoint |-> "InitiateAuthentication", Transaction |-> <<>>, Address |-> <<run[d].Op[1].SMDP>>]
    BY <1>3, Zenon DEF RelayMessage
  <2>. QED  BY <2>1 DEF RouteOf, SMDPOf
<1>4. CASE run[d].At \in {"auth", "bpp"}
  <2>1. \E endpoint \in {"AuthenticateClient", "GetBoundProfilePackage"} :
          RelayMessage(d) = [Endpoint |-> endpoint, Transaction |-> run[d].Tx, Address |-> <<>>]
    BY <1>4, Zenon DEF RelayMessage
  <2>. QED  BY <1>1, <2>1 DEF RouteOf
<1>5. CASE run[d].At = "notify"
  <2>1. RelayMessage(d) = [Endpoint |-> "HandleNotification", Transaction |-> run[d].Tx, Address |-> <<run[d].Op[1].SMDP>>]
    BY <1>5, Zenon DEF RelayMessage
  <2>. QED  BY <2>1 DEF RouteOf, SMDPOf
<1>6. CASE run[d].At = "cancel"
  <2>1. \E tx \in {<<>>, run[d].Tx} :
          RelayMessage(d) = [Endpoint |-> "CancelSession", Transaction |-> tx, Address |-> <<>>]
    BY <1>6, Zenon DEF RelayMessage
  <2>. QED  BY <1>1, <1>2, <2>1 DEF RouteOf
<1>. QED  BY <1>3, <1>4, <1>5, <1>6, Zenon DEF RelaySteps

LEMMA handleRelayRoutes ==
  ASSUME RoutesInv, DurableInv', NEW d \in Devices, handleRelay(d)
  PROVE  RoutesInv'
<1>1. /\ call[d].At = "sent" /\ run[d].At \in RelaySteps /\ UNCHANGED <<run, byTransaction>>
      /\ DOMAIN call = Devices /\ IsCall(call[d])
  BY Zenon DEF handleRelay, RoutesInv, DurableInv, Shape
<1>2. CASE RouteOf(RelayMessage(d)) = <<>>
  <2>1. Deliver(d, Error("unknown session")) /\ UNCHANGED serving
    BY <1>2, Zenon DEF handleRelay
  <2>2. call'[d].Answer.Transaction = <<>> /\ \A x \in Devices \ {d} : call'[x] = call[x]
    <3>1. call'[d].Answer = Error("unknown session") /\ \A x \in Devices \ {d} : call'[x] = call[x]
      BY <1>1, <2>1, Delivered, Zenon
    <3>. QED  BY <3>1, PlainAnswers, Zenon
  <2>3. IsTransaction(run'[d].Tx) /\ IsTransaction(<<>>)
    BY <1>1, Zenon DEF RoutesInv, TransactionShape, IsTransaction
  <2>4. \A t \in Transactions : InDevice(d, t)' => InDevice(d, t) /\ run'[d].Op = run[d].Op
    BY <1>1, <2>2 DEF InDevice
  <2>. QED  BY <1>1, <2>1, <2>2, <2>3, <2>4, DeviceRoutes, Zenon
<1>3. CASE RouteOf(RelayMessage(d)) # <<>>
  <2>. DEFINE new == Request(d, RelayMessage(d))
  <2>1. serving' = serving \cup {new} /\ call' = [call EXCEPT ![d].At = "relayed"]
    BY <1>3, Zenon DEF handleRelay
  <2>2. /\ new.To = SMDPOf(d) /\ new.Msg = RelayMessage(d) /\ new.Answer = NoAnswer /\ new.Device = d
    BY <1>1, <1>3, MessageRoute, Zenon DEF Request
  <2>3. /\ new.Msg.Transaction \in {<<>>, run[d].Tx} /\ new.Answer.Transaction = <<>>
        /\ new.Msg.Endpoint = "InitiateAuthentication" => new.Msg.Transaction = <<>>
    BY <1>1, <1>3, <2>2, MessageRoute, PlainAnswers, Zenon
  <2>. HIDE DEF new
  <2>4. \A x \in Devices : call'[x].Answer = call[x].Answer
    BY <1>1, <2>1, Zenon DEF IsCall
  <2>5. TransactionShape'
    BY <1>1, <2>1, <2>3, <2>4 DEF RoutesInv, TransactionShape, IsTransaction
  <2>6. OneSMDP'
    <3>1. SUFFICES ASSUME NEW t \in Transactions PROVE \E smdp : Held(t, smdp)'
      BY Zenon DEF OneSMDP
    <3>2. PICK smdp : Held(t, smdp)
      BY Zenon DEF RoutesInv, OneSMDP
    <3>3. \A x \in Devices : InDevice(x, t)' <=> InDevice(x, t)
      BY <1>1, <2>4, Zenon DEF InDevice
    <3>4. InRequest(new, t) => InDevice(d, t)
      BY <2>3 DEF InRequest, InDevice
    <3>5. \A x \in Devices : SMDPOf(x)' = SMDPOf(x)
      BY <1>1, Zenon DEF SMDPOf
    <3>6. \A r \in serving' : InRequest(r, t) => r.To = smdp
      BY <2>1, <2>2, <3>2, <3>4, Zenon DEF Held
    <3>7. Held(t, smdp)'
      BY <1>1, <3>2, <3>3, <3>5, <3>6, Zenon DEF Held, InRequest
    <3>. QED  BY <3>7, Zenon
  <2>7. WantedRight'
    <3>1. \A x \in Devices : SMDPOf(x)' = SMDPOf(x)
      BY <1>1, Zenon DEF SMDPOf
    <3>. QED  BY <2>1, <2>2, <2>3, <3>1 DEF RoutesInv, WantedRight, DurableInv, Shape
  <2>. QED  BY <2>5, <2>6, <2>7, Zenon DEF RoutesInv
<1>. QED  BY <1>2, <1>3, Zenon

(* A transaction that an SM-DP+ may give is held by nobody. *)
LEMMA NotTaken ==
  ASSUME NEW t \in Transactions \ Taken
  PROVE  /\ \A r \in serving : ~InRequest(r, t)
         /\ \A d \in Devices : ~InDevice(d, t)
BY Zenon DEF Taken, InRequest, InDevice

(* An answer of an SM-DP+ opens a session under an unused transaction or   *)
(* stays in the one it was asked about.                                    *)
LEMMA SmdpRoutes ==
  ASSUME RoutesInv, DurableInv', NEW q \in serving, Smdp(q)
  PROVE  RoutesInv'
<1>1. UNCHANGED <<run, call, byTransaction>>
  BY Zenon DEF Smdp, SmdpAnswer, SmdpRefuse, ipaVars
<1>2. PICK answer :
        /\ Returned(q, answer)
        /\ \/ answer.Transaction = <<>>
           \/ /\ answer.Kind = "ok" /\ answer.Transaction = q.Msg.Transaction
              /\ q.Msg.Endpoint \in {"AuthenticateClient", "GetBoundProfilePackage"}
           \/ /\ answer.Kind = "ok" /\ q.Msg.Endpoint = "InitiateAuthentication"
              /\ \E t \in Transactions \ Taken : answer.Transaction = <<t>>
  <2>1. CASE SmdpRefuse(q)
    BY <2>1, PlainAnswers, Zenon DEF SmdpRefuse
  <2>2. ASSUME NEW t \in Transactions \ Taken, Returned(q, [Ok EXCEPT !.Transaction = <<t>>]),
               q.Msg.Endpoint = "InitiateAuthentication"
        PROVE  \E a : /\ Returned(q, a) /\ a.Kind = "ok" /\ a.Transaction = <<t>>
    <3>. DEFINE a == [Ok EXCEPT !.Transaction = <<t>>]
    <3>1. Returned(q, a) /\ a.Kind = "ok" /\ a.Transaction = <<t>>
      BY <2>2, Zenon DEF Ok, NoAnswer
    <3>. QED  BY <3>1, Zenon
  <2>3. CASE /\ q.Msg.Endpoint \in {"AuthenticateClient", "GetBoundProfilePackage"}
             /\ Returned(q, [Ok EXCEPT !.Transaction = q.Msg.Transaction])
    <3>. DEFINE a == [Ok EXCEPT !.Transaction = q.Msg.Transaction]
    <3>1. Returned(q, a) /\ a.Kind = "ok" /\ a.Transaction = q.Msg.Transaction
      BY <2>3, Zenon DEF Ok, NoAnswer
    <3>. HIDE DEF a
    <3>. QED  BY <2>3, <3>1, Zenon
  <2>4. CASE Returned(q, Error("unknown transaction")) \/ Returned(q, Ok)
    BY <2>4, PlainAnswers, Zenon
  <2>. QED  BY <2>1, <2>2, <2>3, <2>4, Zenon DEF Smdp, SmdpAnswer
<1>. DEFINE new == [q EXCEPT !.At = "returned", !.Answer = answer]
<1>3. serving' = (serving \ {q}) \cup {new}
  BY <1>2, Zenon DEF Returned
<1>4. new.To = q.To /\ new.Msg = q.Msg /\ new.Answer = answer /\ new.Device = q.Device /\ new.Wanted = q.Wanted
  BY DEF RoutesInv, DurableInv, Shape, IsRequest
<1>. HIDE DEF new
<1>5. IsTransaction(q.Msg.Transaction) /\ IsTransaction(answer.Transaction)
  BY <1>2, Zenon DEF RoutesInv, TransactionShape, IsTransaction
<1>6. TransactionShape'
  BY <1>1, <1>3, <1>4, <1>5, Zenon DEF RoutesInv, TransactionShape
<1>7. \A x \in Devices : SMDPOf(x)' = SMDPOf(x)
  BY <1>1, Zenon DEF SMDPOf
<1>8. WantedRight'
  <2>1. q.Msg.Endpoint # "InitiateAuthentication" => answer.Transaction \in {<<>>, q.Msg.Transaction}
    BY <1>2, Zenon
  <2>2. answer.Transaction # <<>> =>
         /\ answer.Kind = "ok"
         /\ q.Msg.Endpoint \in {"InitiateAuthentication", "AuthenticateClient", "GetBoundProfilePackage"}
    BY <1>2, Zenon
  <2>. QED  BY <1>3, <1>4, <1>7, <2>1, <2>2 DEF RoutesInv, WantedRight, DurableInv, Shape
<1>9. OneSMDP'
  <2>1. SUFFICES ASSUME NEW t \in Transactions PROVE \E smdp : Held(t, smdp)'
    BY Zenon DEF OneSMDP
  <2>2. \A x \in Devices : InDevice(x, t)' <=> InDevice(x, t)
    BY <1>1, Zenon DEF InDevice
  <2>3. CASE InRequest(new, t) /\ ~InRequest(q, t)
    <3>1. t \in Transactions \ Taken
      <4>1. answer.Transaction = <<t>> /\ q.Msg.Transaction # <<t>>
        BY <1>4, <2>3, Zenon DEF InRequest
      <4>2. PICK u \in Transactions \ Taken : answer.Transaction = <<u>>
        BY <1>2, <4>1
      <4>. QED  BY <4>1, <4>2
    <3>2. \A r \in serving' : InRequest(r, t) => r.To = new.To
      BY <1>3, <3>1, NotTaken, Zenon
    <3>3. \A d \in Devices : ~InDevice(d, t)'
      BY <2>2, <3>1, NotTaken, Zenon
    <3>4. Held(t, new.To)'
      BY <3>2, <3>3, Zenon DEF Held, InRequest
    <3>. QED  BY <3>4, Zenon
  <2>4. CASE InRequest(new, t) => InRequest(q, t)
    <3>1. PICK smdp : Held(t, smdp)
      BY Zenon DEF RoutesInv, OneSMDP
    <3>2. \A r \in serving' : InRequest(r, t) => r.To = smdp
      BY <1>3, <1>4, <2>4, <3>1, Zenon DEF Held
    <3>3. Held(t, smdp)'
      BY <1>1, <1>7, <2>2, <3>1, <3>2, Zenon DEF Held, InRequest
    <3>. QED  BY <3>3, Zenon
  <2>. QED  BY <2>3, <2>4, Zenon
<1>. QED  BY <1>6, <1>8, <1>9, Zenon DEF RoutesInv

(* The routes after a post: as before, or to where the post went. *)
LEMMA RoutesAfter ==
  ASSUME RoutesInv, NEW q \in serving, RelayEnd(q)
  PROVE  /\ \A t \in DOMAIN byTransaction' :
              \/ t \in DOMAIN byTransaction /\ byTransaction'[t] = byTransaction[t]
              \/ byTransaction'[t] = q.To /\ InRequest(q, t)
         /\ \A t \in Transactions : q.Answer.Transaction = <<t>> => byTransaction'[t] = q.To
<1>. DEFINE tx == q.Answer.Transaction
            endpoint == q.Msg.Endpoint
<1>1. byTransaction' = IF q.Answer.Kind = "ok" THEN Rerouted(q) ELSE byTransaction
  BY Zenon DEF RelayEnd
<1>2. IsTransaction(tx)
  BY Zenon DEF RoutesInv, TransactionShape
<1>3. /\ endpoint = "InitiateAuthentication" => q.Msg.Transaction = <<>>
      /\ tx # <<>> => /\ q.Answer.Kind = "ok"
                      /\ endpoint \in {"InitiateAuthentication", "AuthenticateClient", "GetBoundProfilePackage"}
  BY Zenon DEF RoutesInv, WantedRight
<1>4. CASE tx # <<>>
  <2>1. PICK t \in Transactions : tx = <<t>>
    BY <1>2, <1>4, Zenon DEF IsTransaction
  <2>2. byTransaction' = Put(byTransaction, t, q.To)
    BY <1>1, <1>3, <1>4, <2>1 DEF Rerouted, rememberTransaction
  <2>3. byTransaction'[t] = q.To /\ InRequest(q, t)
    BY <2>1, <2>2, Zenon DEF Put, InRequest
  <2>4. \A u \in DOMAIN byTransaction' : u # t => u \in DOMAIN byTransaction /\ byTransaction'[u] = byTransaction[u]
    BY <2>2, Zenon DEF Put
  <2>. QED  BY <2>1, <2>3, <2>4
<1>5. CASE tx = <<>>
  <2>1. \/ byTransaction' = byTransaction
        \/ byTransaction' = Drop(byTransaction, q.Msg.Transaction[1])
    BY <1>1, <1>3, <1>5, Zenon DEF Rerouted, rememberTransaction, forgetTransaction
  <2>. QED  BY <1>5, <2>1 DEF Drop, Restrict
<1>. QED  BY <1>4, <1>5, Zenon

LEMMA RelayDoneRoutes ==
  ASSUME RoutesInv, DurableInv', NEW q \in serving, RelayDone(q)
  PROVE  RoutesInv'
<1>1. serving' = serving \ {q} /\ UNCHANGED run /\ RelayEnd(q)
  BY Zenon DEF RelayDone, RelayEnd
<1>2. \A x \in Devices : call'[x] = call[x] \/
        (q.Wanted /\ x = q.Device /\ call'[x].Answer.Transaction \in {<<>>, q.Answer.Transaction})
  <2>1. CASE q.Wanted
    <3>1. Deliver(q.Device, relayResponse(q)) /\ q.Device \in Devices
      BY <2>1, Zenon DEF RelayDone, RoutesInv, DurableInv, Shape
    <3>2. call'[q.Device].Answer = relayResponse(q) /\ \A x \in Devices \ {q.Device} : call'[x] = call[x]
      BY <3>1, Delivered, Zenon DEF RoutesInv, DurableInv, Shape
    <3>3. relayResponse(q).Transaction \in {<<>>, q.Answer.Transaction}
      BY PlainAnswers, Zenon DEF relayResponse
    <3>. QED  BY <2>1, <3>2, <3>3, Zenon
  <2>2. CASE ~q.Wanted
    BY <2>2, Zenon DEF RelayDone
  <2>. QED  BY <2>1, <2>2, Zenon
<1>3. q.Wanted => SMDPOf(q.Device) = q.To /\ run[q.Device].At \in RelaySteps
  BY Zenon DEF RoutesInv, WantedRight, DurableInv, Awaited
<1>4. TransactionShape'
  <2>1. IsTransaction(<<>>) /\ IsTransaction(q.Answer.Transaction)
    BY Zenon DEF RoutesInv, TransactionShape, IsTransaction
  <2>2. \A x \in Devices : IsTransaction(call'[x].Answer.Transaction)
    BY <1>2, <2>1, Zenon DEF RoutesInv, TransactionShape
  <2>3. \A x \in Devices : run[x].At \in {"down", "idle", "save"} => call'[x].Answer.Transaction = <<>>
    BY <1>2, <1>3, Zenon DEF RoutesInv, TransactionShape, RelaySteps
  <2>. QED  BY <1>1, <2>2, <2>3, Zenon DEF RoutesInv, TransactionShape
<1>5. \A x \in Devices : SMDPOf(x)' = SMDPOf(x)
  BY <1>1, Zenon DEF SMDPOf
<1>6. WantedRight'
  BY <1>1, <1>5, Zenon DEF RoutesInv, WantedRight, DurableInv, Shape
<1>7. OneSMDP'
  <2>1. SUFFICES ASSUME NEW t \in Transactions PROVE \E smdp : Held(t, smdp)'
    BY Zenon DEF OneSMDP
  <2>2. PICK smdp : Held(t, smdp)
    BY Zenon DEF RoutesInv, OneSMDP
  <2>3. InRequest(q, t) => q.To = smdp
    BY <2>2, Zenon DEF Held
  <2>4. ASSUME NEW x \in Devices, InDevice(x, t)'
        PROVE  SMDPOf(x)' = smdp /\ (t \in DOMAIN byTransaction' => byTransaction'[t] = smdp)
    <3>1. CASE InDevice(x, t)
      BY <1>1, <1>5, <2>2, <2>3, <3>1, RoutesAfter, Zenon DEF Held
    <3>2. CASE ~InDevice(x, t)
      <4>1. q.Wanted /\ x = q.Device /\ q.Answer.Transaction = <<t>>
        <5>1. run'[x].Tx = run[x].Tx /\ run[x].Tx # <<t>> /\ call[x].Answer.Transaction # <<t>>
          BY <1>1, <3>2, Zenon DEF InDevice
        <5>2. call'[x].Answer.Transaction = <<t>>
          BY <2>4, <5>1, Zenon DEF InDevice
        <5>3. call'[x] # call[x]
          BY <5>1, <5>2, Zenon
        <5>4. q.Wanted /\ x = q.Device /\ call'[x].Answer.Transaction \in {<<>>, q.Answer.Transaction}
          BY <1>2, <5>3, Zenon
        <5>. QED  BY <5>2, <5>4
      <4>2. InRequest(q, t) /\ byTransaction'[t] = q.To
        BY <1>1, <4>1, RoutesAfter, Zenon DEF InRequest
      <4>. QED  BY <1>3, <1>5, <2>3, <4>1, <4>2, Zenon
    <3>. QED  BY <3>1, <3>2, Zenon
  <2>5. \A r \in serving' : InRequest(r, t) => r.To = smdp
    BY <1>1, <2>2, Zenon DEF Held
  <2>6. Held(t, smdp)'
    BY <2>4, <2>5, Zenon DEF Held, InRequest
  <2>. QED  BY <2>6, Zenon
<1>. QED  BY <1>4, <1>6, <1>7, Zenon DEF RoutesInv

(* A device that gives up keeps no session; its requests may go on. *)
LEMMA UnwantedRoutes ==
  ASSUME RoutesInv, DurableInv', NEW d \in Devices, Unwanted(d), UNCHANGED byTransaction,
         \A x \in Devices \ {d} : run'[x] = run[x] /\ call'[x] = call[x],
         call'[d].Answer.Transaction = <<>>, run'[d] = run[d] \/ run'[d].Tx = <<>>
  PROVE  RoutesInv'
<1>1. ASSUME NEW s \in serving'
      PROVE  \E r \in serving : /\ s.To = r.To /\ s.Msg = r.Msg /\ s.Answer = r.Answer /\ s.Device = r.Device
                                /\ s.Wanted => r.Wanted /\ r.Device # d
  <2>1. PICK r \in serving : s = IF r.Device = d THEN [r EXCEPT !.Wanted = FALSE] ELSE r
    BY <1>1, Zenon DEF Unwanted
  <2>2. IsRequest(r)
    BY Zenon DEF RoutesInv, DurableInv, Shape
  <2>3. /\ s.To = r.To /\ s.Msg = r.Msg /\ s.Answer = r.Answer /\ s.Device = r.Device
        /\ s.Wanted => r.Wanted /\ r.Device # d
    BY <2>1, <2>2, Zenon DEF IsRequest
  <2>. QED  BY <2>3, Zenon
<1>2. TransactionShape'
  <2>1. IsTransaction(<<>>)
    BY Zenon DEF IsTransaction
  <2>2. \A x \in Devices : IsTransaction(run'[x].Tx) /\ IsTransaction(call'[x].Answer.Transaction)
    BY <2>1, Zenon DEF RoutesInv, TransactionShape
  <2>3. \A x \in Devices : run'[x].At \in {"down", "idle", "save"} => call'[x].Answer.Transaction = <<>>
    BY Zenon DEF RoutesInv, TransactionShape
  <2>4. \A s \in serving' : IsTransaction(s.Msg.Transaction) /\ IsTransaction(s.Answer.Transaction)
    BY <1>1, Zenon DEF RoutesInv, TransactionShape
  <2>. QED  BY <2>2, <2>3, <2>4, Zenon DEF TransactionShape
<1>3. WantedRight'
  <2>1. \A x \in Devices \ {d} : SMDPOf(x)' = SMDPOf(x)
    BY Zenon DEF SMDPOf
  <2>. QED  BY <1>1, <2>1 DEF RoutesInv, WantedRight, DurableInv, Shape
<1>4. OneSMDP'
  <2>1. SUFFICES ASSUME NEW t \in Transactions PROVE \E smdp : Held(t, smdp)'
    BY Zenon DEF OneSMDP
  <2>2. PICK smdp : Held(t, smdp)
    BY Zenon DEF RoutesInv, OneSMDP
  <2>3. \A x \in Devices : InDevice(x, t)' => InDevice(x, t) /\ SMDPOf(x)' = SMDPOf(x)
    BY DEF InDevice, SMDPOf
  <2>4. \A s \in serving' : InRequest(s, t) => s.To = smdp
    BY <1>1, <2>2 DEF Held, InRequest
  <2>5. Held(t, smdp)'
    BY <2>2, <2>3, <2>4, Zenon DEF Held, InRequest
  <2>. QED  BY <2>5, Zenon
<1>. QED  BY <1>2, <1>3, <1>4, Zenon DEF RoutesInv

(* Steps that touch neither sessions nor exchanges, or drop a request. *)
LEMMA StillRoutes ==
  ASSUME RoutesInv, DurableInv', UNCHANGED <<run, call, byTransaction>>, serving' \subseteq serving
  PROVE  RoutesInv'
<1>1. \A x \in Devices : SMDPOf(x)' = SMDPOf(x)
  BY Zenon DEF SMDPOf
<1>2. TransactionShape' /\ WantedRight'
  BY <1>1, Zenon DEF RoutesInv, TransactionShape, WantedRight, DurableInv, Shape
<1>3. OneSMDP'
  <2>1. SUFFICES ASSUME NEW t \in Transactions PROVE \E smdp : Held(t, smdp)'
    BY Zenon DEF OneSMDP
  <2>2. PICK smdp : Held(t, smdp)
    BY Zenon DEF RoutesInv, OneSMDP
  <2>3. Held(t, smdp)'
    BY <1>1, <2>2, Zenon DEF Held, InRequest, InDevice
  <2>. QED  BY <2>3, Zenon
<1>. QED  BY <1>2, <1>3, Zenon DEF RoutesInv

LEMMA RoutesStep == RoutesInv /\ [Next]_vars => RoutesInv'
<1>. SUFFICES ASSUME RoutesInv, [Next]_vars PROVE RoutesInv'
  BY Zenon
<1>1. DurableInv'
  BY DurableInvStep, Zenon DEF RoutesInv
<1>2. ASSUME NEW d \in Devices, Runner(d) \/ DownloadFails(d) \/ Server(d) PROVE RoutesInv'
  BY <1>1, <1>2, RunnerRoutes, EimAnswerRoutes, NextBlockRoutes, handleRelayRoutes, Zenon DEF Server
<1>3. ASSUME NEW d \in Devices, Fail(d) PROVE RoutesInv'
  <2>. DEFINE failed == [NoCall EXCEPT !.At = "answered", !.Answer = Error("transport")]
  <2>1. failed.Answer.Transaction = <<>>
    BY PlainAnswers, Zenon DEF NoCall
  <2>2. UNCHANGED <<run, byTransaction>> /\ Unwanted(d) /\ call' = [call EXCEPT ![d] = failed]
    BY <1>3, Zenon DEF Fail
  <2>. HIDE DEF failed
  <2>3. call'[d].Answer.Transaction = <<>> /\ \A x \in Devices \ {d} : call'[x] = call[x]
    BY <2>1, <2>2, Zenon DEF RoutesInv, DurableInv, Shape
  <2>. QED  BY <1>1, <2>2, <2>3, UnwantedRoutes, Zenon
<1>4. ASSUME NEW d \in Devices, Crash(d) PROVE RoutesInv'
  <2>1. UNCHANGED byTransaction /\ Unwanted(d) /\ End(d)
    BY <1>4, Zenon DEF Crash
  <2>2. /\ call'[d].Answer.Transaction = <<>> /\ run'[d].Tx = <<>>
        /\ \A x \in Devices \ {d} : run'[x] = run[x] /\ call'[x] = call[x]
    BY <2>1, PlainAnswers, Zenon DEF End, Down, RoutesInv, DurableInv, Shape
  <2>. QED  BY <1>1, <2>1, <2>2, UnwantedRoutes, Zenon
<1>5. ASSUME NEW d \in Devices, Expire(d) \/ Operator(d) PROVE RoutesInv'
  <2>1. UNCHANGED <<run, call, byTransaction, serving>>
    BY <1>5, Zenon DEF Expire, Operator, FollowWarning, QueueAgain, AddTrustedCI, ipaVars, relayVars
  <2>. QED  BY <1>1, <2>1, StillRoutes, Zenon
<1>6. ASSUME NEW r \in serving, Relayed(r) PROVE RoutesInv'
  BY <1>1, <1>6, SmdpRoutes, RelayDoneRoutes, Zenon DEF Relayed
<1>7. ASSUME NEW r \in serving, RelayAbandon(r) PROVE RoutesInv'
  <2>1. UNCHANGED <<run, call, byTransaction>> /\ serving' \subseteq serving
    BY <1>7, Zenon DEF RelayAbandon, Abandon, ipaVars
  <2>. QED  BY <1>1, <2>1, StillRoutes, Zenon
<1>8. CASE UNCHANGED vars
  <2>1. UNCHANGED <<run, call, byTransaction, serving>>
    BY <1>8, Zenon DEF vars, ipaVars, relayVars
  <2>. QED  BY <1>1, <2>1, StillRoutes, Zenon
<1>. QED  BY <1>2, <1>3, <1>4, <1>5, <1>6, <1>7, <1>8, Zenon DEF Next, Faulty, Active

(* For any number of devices, SM-DP+s, transactions and faults: while an   *)
(* answer is awaited, a message of a session is on its way to the SM-DP+   *)
(* of the operation in hand, although relay.go keeps one route for each    *)
(* transaction, never expires it and takes late answers into account.      *)
THEOREM RoutesAreRight == Spec => []RoutesRight
<1>1. Init => RoutesInv
  <2>. SUFFICES ASSUME Init PROVE TransactionShape /\ OneSMDP /\ WantedRight
    BY DurableInvInit, Zenon DEF RoutesInv
  <2>1. \A d \in Devices : run[d].Tx = <<>> /\ call[d].Answer.Transaction = <<>>
    BY PlainAnswers, Zenon DEF Init, Down
  <2>2. serving = {}
    BY Zenon DEF Init
  <2>3. TransactionShape /\ WantedRight
    BY <2>1, <2>2, Zenon DEF TransactionShape, IsTransaction, WantedRight
  <2>4. \A t \in Transactions : Held(t, <<>>)
    BY <2>1, <2>2 DEF Held, InDevice
  <2>. QED  BY <2>3, <2>4, Zenon DEF OneSMDP
<1>2. RoutesInv => RoutesRight
  BY Zenon DEF RoutesInv, WantedRight, SMDPOf, RoutesRight
<1>. QED  BY <1>1, <1>2, RoutesStep, PTL DEF Spec
=============================================================================
