------------------------------ MODULE MockIpa ------------------------------
(***************************************************************************)
(* The mock IPA of mockipa/: a process that polls the eIM, carries out     *)
(* what it gets against a simulated eUICC, uploads the result and saves    *)
(* its state in a file.  It may be killed at any step and is started       *)
(* again.  The eIM appears as the answers the IPA gets (EsipaHandler and   *)
(* OperationQueue have its inside); the relay is Relay, the block-wise     *)
(* CoAP transfer CoapTransport.                                            *)
(*                                                                         *)
(* A request the IPA gave up on has reached the eIM or was lost; a relayed *)
(* one goes on and may end late.                                           *)
(***************************************************************************)
EXTENDS Relay, CoapTransport

CONSTANTS
  Devices,       \* mock IPAs, each with an eUICC of its own
  Fleets,        \* the fleets to start from, see Init
  AnswerSizes,   \* sizes of the answers with a body, over CoAP
  OwnEim,        \* the eIM's own id
  MaxFaults,     \* bound: crashes, lost messages, failing steps and expiries
  MaxRejections  \* bound: results refused for want of a trusted CI, per device

ASSUME FleetsAssumption ==
  \A f \in Fleets : \A d \in Devices : f[d].File # <<>> => f[d].File[1].Next \in Nat

ASSUME AnswerSizesAssumption == AnswerSizes \subseteq Nat

VARIABLES
  fleet,      \* per device: Transport, NamesTransaction, Trusted, ...
  queue,      \* the eIM's pending operations, per device
  held,       \* operations the operator cancelled, to queue them again
  known,      \* external: the eIM has seen the certificates of the eUICC
  trusted,    \* external: the eIM trusts the CI of the eUICC
  rejections, \* results refused because it does not
  eim,        \* the device as the results the eIM accepted describe it
  notes,      \* the eIM's notifications, by sequence number
  mem,        \* Runner: Device, Next, Required, Presented, Pending (by number)
  disk,       \* the state file, <<>> if there is none
  run,        \* the step the process is at: At, Op, Tx
  call,       \* the exchange it waits for
  faults,     \* faults so far
  owed,       \* history: the accepted operation that is not saved yet
  want,       \* history: the device after the operations accepted and saved
  settled     \* history: notifications stored and no longer pending at the last save

eimVars == <<queue, held, known, trusted, rejections, eim, notes>>
ipaVars == <<mem, disk, run, call>>
historyVars == <<owed, want, settled>>
vars == <<fleet, eimVars, ipaVars, faults, historyVars, relayVars, blockwiseResponses>>

-----------------------------------------------------------------------------
(* DeviceState. *)

newDeviceState == [Profiles |-> <<>>, AssociationTokens |-> <<>>, DefaultSMDP |-> <<>>, Indirect |-> FALSE]
NoProfile == [SMDP |-> <<>>, Enabled |-> FALSE, Fallback |-> FALSE]

associationToken(device, eimID) ==
  IF eimID \in DOMAIN device.AssociationTokens THEN <<device.AssociationTokens[eimID]>> ELSE <<>>

setAssociationToken(device, eimID, token) ==
  [device EXCEPT !.AssociationTokens = Put(@, eimID, token)]

clearAssociationToken(device, eimID) == [device EXCEPT !.AssociationTokens = Drop(@, eimID)]

recordDownload(device, iccid, smdp) ==
  [device EXCEPT !.Profiles = Put(@, iccid, [SMDP |-> <<smdp>>, Enabled |-> TRUE, Fallback |-> FALSE]),
                 !.DefaultSMDP = <<smdp>>]

ProfileOf(device, iccid) ==
  IF iccid \in DOMAIN device.Profiles THEN device.Profiles[iccid] ELSE NoProfile

applyPSMO(device, iccid, enabled) ==
  [device EXCEPT !.Profiles = Put(@, iccid, [ProfileOf(device, iccid) EXCEPT !.Enabled = enabled])]

clearProfileFallback(device) ==
  [device EXCEPT !.Profiles = [i \in DOMAIN @ |-> [@[i] EXCEPT !.Fallback = FALSE]]]

setProfileFallback(device, iccid) ==
  LET cleared == clearProfileFallback(device)
  IN [cleared EXCEPT !.Profiles = Put(@, iccid, [ProfileOf(cleared, iccid) EXCEPT !.Fallback = TRUE])]

applyOperationState(device, op) ==
  CASE op.Do = "enable" -> applyPSMO(device, op.ICCID, TRUE)
    [] op.Do = "disable" -> applyPSMO(device, op.ICCID, FALSE)
    [] op.Do = "delete" -> [device EXCEPT !.Profiles = Drop(@, op.ICCID)]
    [] op.Do = "set-fallback-attribute" -> setProfileFallback(device, op.ICCID)
    [] op.Do = "unset-fallback-attribute" -> clearProfileFallback(device)
    [] op.Do = "add-eim" ->
         setAssociationToken([device EXCEPT !.Indirect = op.Indirect], op.EimID,
                             IF op.Token = <<>> THEN 1 ELSE op.Token[1])
    [] op.Do = "update-eim" ->
         LET moved == [device EXCEPT !.Indirect = op.Indirect]
         IN IF op.Token = <<>> THEN moved ELSE setAssociationToken(moved, op.EimID, op.Token[1])
    [] op.Do = "delete-eim" -> clearAssociationToken(device, op.EimID)
    [] OTHER -> device

Effect(device, op) ==
  CASE op.Kind = "trigger" -> recordDownload(device, op.ICCID, op.SMDP)
    [] op.Kind = "package" -> applyOperationState(device, op)
    [] OTHER -> device

notificationKindForOperation(op) ==
  IF op.Do \in {"enable", "disable", "delete"} THEN <<op.Do>> ELSE <<>>

-----------------------------------------------------------------------------
(* Runner's memory and StateStore. *)

NewRunner == [Device |-> newDeviceState, Next |-> 0, Required |-> FALSE, Presented |-> FALSE, Pending |-> <<>>]

(* Apply: what is not in the file stays as in a new process. *)
Apply(file) ==
  IF file = <<>> THEN NewRunner
  ELSE [NewRunner EXCEPT !.Device = file[1].Device, !.Next = file[1].Next,
                         !.Required = file[1].Required, !.Presented = file[1].Presented]

(* A fault: the next sequence number is left out. *)
SavedWithoutNumber(runner) ==
  <<[Device |-> runner.Device, Next |-> 0, Required |-> runner.Required, Presented |-> runner.Presented]>>

Saved(runner) ==
  <<[Device |-> runner.Device, Next |-> runner.Next,
     Required |-> runner.Required, Presented |-> runner.Presented]>>

SavedDevice(file) == IF file = <<>> THEN newDeviceState ELSE file[1].Device

nextNotificationSequence(runner) == IF runner.Next <= 0 THEN 1 ELSE runner.Next

queueNotification(runner, kind, op) ==
  LET n == nextNotificationSequence(runner)
  IN [runner EXCEPT !.Next = n + 1, !.Pending = Put(@, n, [Kind |-> kind, Op |-> op.ID])]

acknowledgeNotifications(runner, acks) ==
  [runner EXCEPT !.Pending = Restrict(@, DOMAIN @ \ acks)]

dropPendingNotifications(runner) == [runner EXCEPT !.Pending = <<>>]

shouldDeferSignedPackage(runner) == runner.Required /\ ~runner.Presented

IsChainNotPresentedError(answer) == answer.Why = "chain not yet presented"
IsUntrustedCIError(answer) == answer.Why = "no trusted ci root"
IsRetriableESipaError(answer) == IsChainNotPresentedError(answer) \/ IsUntrustedCIError(answer)

handleRetriableESipaError(runner, answer) ==
  IF IsChainNotPresentedError(answer)
  THEN dropPendingNotifications([runner EXCEPT !.Required = TRUE, !.Presented = FALSE])
  ELSE runner

(* Which downloader carries a trigger out. *)
ProfileDownloadDownloader(op, indirect) ==
  CASE op.Local -> "offline"
    [] ~op.Local /\ indirect -> "indirect"
    [] OTHER -> "direct"

-----------------------------------------------------------------------------
(* Exchanges.  What a device waits for is told by the step it is at. *)

NoCall == [At |-> "none", Answer |-> NoAnswer, Size |-> 0, Got |-> 0, Parts |-> {}]
Down == [At |-> "down", Op |-> <<>>, Tx |-> <<>>]
RelaySteps == {"init", "auth", "bpp", "notify", "cancel"}

NewOp == [ID |-> 0, Kind |-> "package", Do |-> "", ICCID |-> "", EimID |-> "", Token |-> <<>>,
          Indirect |-> FALSE, SMDP |-> "", Local |-> FALSE, Certs |-> FALSE]

Spend == faults < MaxFaults /\ faults' = faults + 1

Go(d, step, op, tx) == run' = [run EXCEPT ![d] = [At |-> step, Op |-> op, Tx |-> tx]]

Send(d, step, op, tx) ==
  /\ Go(d, step, op, tx)
  /\ call' = [call EXCEPT ![d] = [NoCall EXCEPT !.At = "sent"]]

(* pollOnce returns without an error; persistState is next. *)
Finish(d) ==
  /\ Go(d, "save", <<>>, <<>>)
  /\ call' = [call EXCEPT ![d] = NoCall]

(* Run returns, or the process is killed: the memory is lost. *)
End(d) ==
  /\ run' = [run EXCEPT ![d] = Down]
  /\ call' = [call EXCEPT ![d] = NoCall]
  /\ mem' = [mem EXCEPT ![d] = NewRunner]
  /\ owed' = [owed EXCEPT ![d] = <<>>]

Unwanted(d) == serving' = {IF r.Device = d THEN [r EXCEPT !.Wanted = FALSE] ELSE r : r \in serving}

HasBody(answer) == answer.Kind \in {"ok", "op", "nothing"}

(* An answer reaches the device: whole over HTTP, its first block over CoAP. *)
Deliver(d, answer) ==
  IF fleet[d].Transport = "coap" /\ HasBody(answer)
  THEN \E size \in AnswerSizes :
         LET payload == [For |-> d, Answer |-> answer, Size |-> size]
             block == coapFirstBlock2Response(payload)
         IN /\ blockwiseResponses' = cacheBlockwiseResponse(coapBlockwiseCacheKey(d), payload)
            /\ call' = [call EXCEPT ![d] = [At |-> IF block.More THEN "blocks" ELSE "answered",
                                            Answer |-> answer, Size |-> size,
                                            Got |-> block.End, Parts |-> {block.Of}]]
  ELSE /\ call' = [call EXCEPT ![d] = [NoCall EXCEPT !.At = "answered", !.Answer = answer]]
       /\ UNCHANGED blockwiseResponses

(* The client asks for the next block with an empty request; without a     *)
(* cached answer that is decoded as a message, and refused.                *)
NextBlock(d) ==
  LET cached == cachedBlockwiseResponse(coapBlockwiseCacheKey(d))
      block == IF cached = <<>> THEN <<>>
               ELSE coapBlock2Chunk(cached[1], call[d].Got \div BlockSize)
  IN /\ call[d].At = "blocks"
     /\ call' = [call EXCEPT ![d] =
          IF block = <<>> THEN [NoCall EXCEPT !.At = "answered", !.Answer = Error("bad request")]
          ELSE [@ EXCEPT !.At = IF block[1].More THEN "blocks" ELSE "answered",
                         !.Got = block[1].End, !.Parts = call[d].Parts \cup {block[1].Of}]]
     /\ UNCHANGED <<fleet, eimVars, mem, disk, run, faults, historyVars, relayVars, blockwiseResponses>>

(* The minute of an answer passes while its blocks are fetched. *)
Expire(d) ==
  LET key == coapBlockwiseCacheKey(d)
  IN /\ call[d].At = "blocks" /\ cachedBlockwiseResponse(key) # <<>>
     /\ Spend
     /\ blockwiseResponses' = [blockwiseResponses EXCEPT ![key].expired = TRUE]
     /\ UNCHANGED <<fleet, eimVars, ipaVars, historyVars, relayVars>>

-----------------------------------------------------------------------------
(* The eIM's answers. *)

IsPackage(op) == op.Kind = "package"

selectOperationForGetEimPackage(pending) ==
  LET packages == SelectSeq(pending, IsPackage)
  IN IF packages # <<>> THEN packages[1] ELSE pending[1]

(* The notifications a message carries: all that are pending, or the last. *)
pendingNotificationTLVs(d) ==
  CASE run[d].At = "package" /\ notificationKindForOperation(run[d].Op[1]) # <<>> -> mem[d].Pending
    [] run[d].At = "install" -> Restrict(mem[d].Pending, {mem[d].Next - 1})
    [] OTHER -> <<>>

StoreNotifications(d) == notes' = [notes EXCEPT ![d] = Override(pendingNotificationTLVs(d), @)]

(* The result of op is recorded and op is no longer pending. *)
Accept(d, op) ==
  /\ queue' = [queue EXCEPT ![d] = SelectSeq(@, LAMBDA o : o.ID # op.ID)]
  /\ eim' = [eim EXCEPT ![d] = Effect(@, op)]
  /\ owed' = [owed EXCEPT ![d] = <<op>>]
  /\ StoreNotifications(d)
  /\ Deliver(d, [Ok EXCEPT !.Acks = DOMAIN pendingNotificationTLVs(d)])

AnswerPoll(d) ==
  /\ run[d].At = "poll"
  /\ Deliver(d, IF queue[d] = <<>> THEN [Ok EXCEPT !.Kind = "nothing"]
                ELSE [Ok EXCEPT !.Kind = "op", !.Op = <<selectOperationForGetEimPackage(queue[d])>>])
  /\ UNCHANGED <<queue, eim, notes, owed, known, rejections>>

(* The key of the eUICC is found by a plug-in, which needs its chain. *)
AnswerPackage(d) ==
  /\ run[d].At = "package"
  /\ \/ /\ ~known[d]
        /\ Deliver(d, Error("chain not yet presented"))
        /\ UNCHANGED <<queue, eim, notes, owed, rejections>>
     \/ /\ known[d] /\ ~trusted[d] /\ rejections[d] < MaxRejections
        /\ rejections' = [rejections EXCEPT ![d] = @ + 1]
        /\ Deliver(d, Error("no trusted ci root"))
        /\ UNCHANGED <<queue, eim, notes, owed>>
     \/ /\ known[d] /\ trusted[d]
        /\ IF associationToken(mem[d].Device, OwnEim) = associationToken(eim[d], OwnEim)
           THEN Accept(d, run[d].Op[1])
           ELSE /\ Deliver(d, Error("signature"))
                /\ UNCHANGED <<queue, eim, notes, owed>>
        /\ UNCHANGED rejections
  /\ UNCHANGED known

AnswerResult(d) ==
  /\ run[d].At \in {"data", "result"}
  /\ Accept(d, run[d].Op[1])
  /\ known' = [known EXCEPT ![d] = @ \/ run[d].Op[1].Certs]
  /\ UNCHANGED rejections

handleNotification(d) ==
  /\ run[d].At = "install"
  /\ StoreNotifications(d)
  /\ Deliver(d, Empty)
  /\ UNCHANGED <<queue, eim, owed, known, rejections>>

EimAnswer(d) ==
  /\ call[d].At = "sent" /\ run[d].At \notin RelaySteps
  /\ AnswerPoll(d) \/ AnswerPackage(d) \/ AnswerResult(d) \/ handleNotification(d)
  /\ UNCHANGED <<fleet, held, trusted, mem, disk, run, faults, want, settled, relayVars>>

-----------------------------------------------------------------------------
(* The relay's part of an exchange. *)

RelayMessage(d) ==
  LET message(endpoint, tx, address) ==
        [Endpoint |-> endpoint, Transaction |-> tx, Address |-> address]
  IN CASE run[d].At = "init" -> message("InitiateAuthentication", <<>>, <<run[d].Op[1].SMDP>>)
       [] run[d].At = "auth" -> message("AuthenticateClient", run[d].Tx, <<>>)
       [] run[d].At = "bpp" -> message("GetBoundProfilePackage", run[d].Tx, <<>>)
       [] run[d].At = "notify" -> message("HandleNotification", run[d].Tx, <<run[d].Op[1].SMDP>>)
       [] OTHER -> message("CancelSession", IF fleet[d].NamesTransaction THEN run[d].Tx ELSE <<>>, <<>>)

handleRelay(d) ==
  /\ call[d].At = "sent" /\ run[d].At \in RelaySteps
  /\ IF RouteOf(RelayMessage(d)) = <<>>
     THEN Deliver(d, Error("unknown session")) /\ UNCHANGED serving
     ELSE /\ serving' = serving \cup {Request(d, RelayMessage(d))}
          /\ call' = [call EXCEPT ![d].At = "relayed"]
          /\ UNCHANGED blockwiseResponses
  /\ UNCHANGED <<fleet, eimVars, mem, disk, run, faults, historyVars, byTransaction, sessions>>

(* The transactions that are in use somewhere. *)
Taken ==
  {t \in Transactions : \/ \E r \in serving : <<t>> \in {r.Msg.Transaction, r.Answer.Transaction}
                        \/ \E d \in Devices : <<t>> \in {run[d].Tx, call[d].Answer.Transaction}}

Smdp(r) ==
  /\ \/ SmdpAnswer(r, Taken) /\ UNCHANGED faults
     \/ SmdpRefuse(r) /\ Spend
  /\ UNCHANGED <<fleet, eimVars, ipaVars, historyVars, blockwiseResponses>>

RelayDone(r) ==
  /\ RelayEnd(r)
  /\ IF r.Wanted THEN Deliver(r.Device, relayResponse(r)) ELSE UNCHANGED <<call, blockwiseResponses>>
  /\ UNCHANGED <<fleet, eimVars, mem, disk, run, faults, historyVars>>

RelayAbandon(r) ==
  /\ Abandon(r)
  /\ UNCHANGED <<fleet, eimVars, ipaVars, faults, historyVars, blockwiseResponses>>

-----------------------------------------------------------------------------
(* Runner. *)

(* A new process has a new connection, hence a new remote address. *)
Start(d) ==
  /\ run[d].At = "down"
  /\ mem' = [mem EXCEPT ![d] = Apply(disk[d])]
  /\ Go(d, "idle", <<>>, <<>>)
  /\ blockwiseResponses' = Drop(blockwiseResponses, coapBlockwiseCacheKey(d))
  /\ UNCHANGED <<fleet, eimVars, disk, call, faults, historyVars, relayVars>>

Poll(d) ==
  /\ run[d].At = "idle"
  /\ Send(d, "poll", <<>>, <<>>)
  /\ UNCHANGED <<fleet, eimVars, mem, disk, faults, historyVars, relayVars, blockwiseResponses>>

(* What the process does with an answer leaves these alone. *)
Local == UNCHANGED <<fleet, eimVars, disk, want, settled, relayVars, blockwiseResponses>>

Answered(d, step) == run[d].At = step /\ call[d].At = "answered"
AnswerOf(d) == call[d].Answer
Calm == UNCHANGED <<faults, owed>>

(* A fault: the package is applied before the eIM has its result. *)
handleEUICCPackageEarly(d, op) ==
  IF shouldDeferSignedPackage(mem[d]) THEN Finish(d) /\ UNCHANGED mem
  ELSE /\ mem' = [mem EXCEPT ![d] =
            LET done == [@ EXCEPT !.Device = applyOperationState(@, op)]
            IN IF notificationKindForOperation(op) = <<>> THEN done
               ELSE queueNotification(done, notificationKindForOperation(op)[1], op)]
       /\ Send(d, "package", <<op>>, <<>>)

handleEUICCPackage(d, op) ==
  IF shouldDeferSignedPackage(mem[d]) THEN Finish(d) /\ UNCHANGED mem
  ELSE /\ mem' = [mem EXCEPT ![d] =
            IF notificationKindForOperation(op) = <<>> THEN @
            ELSE queueNotification(@, notificationKindForOperation(op)[1], op)]
       /\ Send(d, "package", <<op>>, <<>>)

(* Direct downloads talk to the SM-DP+ without the eIM. *)
handleProfileDownloadTrigger(d, op) ==
  IF ProfileDownloadDownloader(op, mem[d].Device.Indirect) = "indirect"
  THEN Send(d, "init", <<op>>, <<>>) ELSE Send(d, "result", <<op>>, <<>>)

pollOnce(d) ==
  /\ Answered(d, "poll")
  /\ IF AnswerOf(d).Kind = "op"
     THEN LET op == AnswerOf(d).Op[1]
          IN \/ op.Kind = "package" /\ handleEUICCPackage(d, op) /\ Calm
             \/ op.Kind = "data" /\ Send(d, "data", <<op>>, <<>>) /\ UNCHANGED mem /\ Calm
             \/ op.Kind = "trigger" /\ handleProfileDownloadTrigger(d, op) /\ UNCHANGED mem /\ Calm
     ELSE IF AnswerOf(d).Kind = "nothing" THEN Finish(d) /\ UNCHANGED mem /\ Calm
     ELSE End(d) /\ UNCHANGED faults
  /\ Local

(* A direct download fails. *)
DownloadFails(d) ==
  /\ Answered(d, "poll") /\ AnswerOf(d).Kind = "op" /\ AnswerOf(d).Op[1].Kind = "trigger"
  /\ ProfileDownloadDownloader(AnswerOf(d).Op[1], mem[d].Device.Indirect) = "direct"
  /\ Spend
  /\ End(d)
  /\ Local

OnPackage(d) ==
  /\ Answered(d, "package")
  /\ IF AnswerOf(d).Kind = "ok"
     THEN /\ mem' = [mem EXCEPT ![d] = acknowledgeNotifications(
               [mem[d] EXCEPT !.Device = applyOperationState(mem[d].Device, run[d].Op[1])], AnswerOf(d).Acks)]
          /\ Finish(d) /\ Calm
     ELSE IF IsRetriableESipaError(AnswerOf(d))
     THEN /\ mem' = [mem EXCEPT ![d] = handleRetriableESipaError(@, AnswerOf(d))]
          /\ Finish(d) /\ Calm
     ELSE End(d) /\ UNCHANGED faults
  /\ Local

(* A fault: the chain is not marked presented. *)
handleIpaEuiccDataRequestUnmarked(d) ==
  /\ Answered(d, "data")
  /\ IF AnswerOf(d).Kind = "ok" THEN Finish(d) /\ UNCHANGED mem /\ Calm
     ELSE End(d) /\ UNCHANGED faults
  /\ Local

handleIpaEuiccDataRequest(d) ==
  /\ Answered(d, "data")
  /\ IF AnswerOf(d).Kind = "ok"
     THEN mem' = [mem EXCEPT ![d].Presented = TRUE] /\ Finish(d) /\ Calm
     ELSE End(d) /\ UNCHANGED faults
  /\ Local

OnInit(d) ==
  /\ Answered(d, "init")
  /\ IF AnswerOf(d).Kind = "ok"
     THEN Send(d, "auth", run[d].Op, AnswerOf(d).Transaction) /\ UNCHANGED mem /\ Calm
     ELSE End(d) /\ UNCHANGED faults
  /\ Local

(* The eUICC may refuse to prepare the download or to load the package. *)
OnAuth(d) ==
  /\ Answered(d, "auth")
  /\ IF AnswerOf(d).Kind = "ok"
     THEN /\ \/ Send(d, "bpp", run[d].Op, AnswerOf(d).Transaction) /\ UNCHANGED faults
             \/ Send(d, "cancel", run[d].Op, AnswerOf(d).Transaction) /\ Spend
          /\ UNCHANGED <<mem, owed>>
     ELSE End(d) /\ UNCHANGED faults
  /\ Local

OnBpp(d) ==
  /\ Answered(d, "bpp")
  /\ IF AnswerOf(d).Kind = "ok"
     THEN \/ Send(d, "notify", run[d].Op, run[d].Tx) /\ UNCHANGED faults
          \/ Send(d, "cancel", run[d].Op, run[d].Tx) /\ Spend
     ELSE Send(d, "cancel", run[d].Op, run[d].Tx) /\ UNCHANGED faults
  /\ UNCHANGED <<mem, owed>>
  /\ Local

(* Client.Relay: an empty answer is an error. *)
OnNotify(d) ==
  /\ Answered(d, "notify")
  /\ IF AnswerOf(d).Kind = "ok"
     THEN Send(d, "result", run[d].Op, <<>>) /\ UNCHANGED mem /\ Calm
     ELSE End(d) /\ UNCHANGED faults
  /\ Local

(* cancelSession returns the error that led to it. *)
OnCancel(d) ==
  /\ Answered(d, "cancel")
  /\ End(d) /\ UNCHANGED faults
  /\ Local

OnResult(d) ==
  /\ Answered(d, "result")
  /\ IF AnswerOf(d).Kind = "ok"
     THEN LET op == run[d].Op[1]
              done == [mem[d] EXCEPT !.Device = recordDownload(mem[d].Device, op.ICCID, op.SMDP)]
          IN /\ mem' = [mem EXCEPT ![d] = queueNotification(done, "install", op)]
             /\ Send(d, "install", run[d].Op, <<>>) /\ Calm
     ELSE End(d) /\ UNCHANGED faults
  /\ Local

OnInstall(d) ==
  /\ Answered(d, "install")
  /\ IF AnswerOf(d).Kind = "empty"
     THEN /\ mem' = [mem EXCEPT ![d] =
               acknowledgeNotifications(@, DOMAIN pendingNotificationTLVs(d))]
          /\ Finish(d) /\ Calm
     ELSE End(d) /\ UNCHANGED faults
  /\ Local

persistState(d) ==
  /\ run[d].At = "save"
  /\ disk' = [disk EXCEPT ![d] = Saved(mem[d])]
  /\ want' = [want EXCEPT ![d] = IF owed[d] = <<>> THEN @ ELSE Effect(@, owed[d][1])]
  /\ owed' = [owed EXCEPT ![d] = <<>>]
  /\ settled' = [settled EXCEPT ![d] =
       {n \in DOMAIN notes[d] : n < mem[d].Next} \ DOMAIN mem[d].Pending]
  /\ Go(d, "idle", <<>>, <<>>)
  /\ UNCHANGED <<fleet, eimVars, mem, call, faults, relayVars, blockwiseResponses>>

-----------------------------------------------------------------------------
(* Faults and the operator (external). *)

(* The exchange fails, before or after the eIM had the request. *)
Fail(d) ==
  /\ call[d].At # "none" /\ AnswerOf(d).Kind # "error"
  /\ Spend
  /\ call' = [call EXCEPT ![d] = [NoCall EXCEPT !.At = "answered", !.Answer = Error("transport")]]
  /\ Unwanted(d)
  /\ UNCHANGED <<fleet, eimVars, mem, disk, run, historyVars, byTransaction, sessions, blockwiseResponses>>

Crash(d) ==
  /\ run[d].At # "down"
  /\ Spend
  /\ End(d)
  /\ Unwanted(d)
  /\ UNCHANGED <<fleet, eimVars, disk, want, settled, byTransaction, sessions, blockwiseResponses>>

Pending(d, kind) == \E i \in DOMAIN queue[d] : queue[d][i].Kind = kind

(* The operator does what warnAwaitingChainPresentation asks for. *)
FollowWarning(d) ==
  /\ shouldDeferSignedPackage(mem[d]) /\ Pending(d, "package")
  /\ held' = [held EXCEPT ![d] = SelectSeq(queue[d], IsPackage)]
  /\ queue' = [queue EXCEPT ![d] =
       SelectSeq(@, LAMBDA op : ~IsPackage(op)) \o
         (IF Pending(d, "data") THEN <<>> ELSE <<[NewOp EXCEPT !.Kind = "data", !.Certs = TRUE]>>)]
  /\ UNCHANGED <<fleet, known, trusted, rejections, eim, notes, ipaVars, faults, historyVars, relayVars, blockwiseResponses>>

QueueAgain(d) ==
  /\ held[d] # <<>> /\ ~Pending(d, "data")
  /\ queue' = [queue EXCEPT ![d] = @ \o held[d]]
  /\ held' = [held EXCEPT ![d] = <<>>]
  /\ UNCHANGED <<fleet, known, trusted, rejections, eim, notes, ipaVars, faults, historyVars, relayVars, blockwiseResponses>>

(* ... or what warnUntrustedCI asks for. *)
AddTrustedCI(d) ==
  /\ ~trusted[d] /\ rejections[d] > 0
  /\ trusted' = [trusted EXCEPT ![d] = TRUE]
  /\ UNCHANGED <<fleet, queue, held, known, rejections, eim, notes, ipaVars, faults, historyVars, relayVars, blockwiseResponses>>

-----------------------------------------------------------------------------
(***************************************************************************)
(* A fleet says of each device which transport it uses, whether its eUICC  *)
(* names the transaction when it cancels a session (the software eUICC     *)
(* does not), whether the eIM knows its chain and trusts its CI, the state *)
(* file it starts with and the operations queued for it.                   *)
(***************************************************************************)
Init ==
  /\ fleet \in Fleets
  /\ queue = [d \in Devices |-> fleet[d].Queue]
  /\ held = [d \in Devices |-> <<>>]
  /\ known = [d \in Devices |-> fleet[d].Known]
  /\ trusted = [d \in Devices |-> fleet[d].Trusted]
  /\ rejections = [d \in Devices |-> 0]
  /\ eim = [d \in Devices |-> SavedDevice(fleet[d].File)]
  /\ notes = [d \in Devices |-> <<>>]
  /\ mem = [d \in Devices |-> NewRunner]
  /\ disk = [d \in Devices |-> fleet[d].File]
  /\ run = [d \in Devices |-> Down]
  /\ call = [d \in Devices |-> NoCall]
  /\ faults = 0
  /\ owed = [d \in Devices |-> <<>>]
  /\ want = [d \in Devices |-> SavedDevice(fleet[d].File)]
  /\ settled = [d \in Devices |-> {}]
  /\ byTransaction = <<>> /\ serving = {} /\ sessions = <<>>
  /\ blockwiseResponses = <<>>

Active == {d \in Devices : fleet[d].Queue # <<>>}

Runner(d) ==
  \/ Start(d) \/ Poll(d) \/ pollOnce(d) \/ OnPackage(d) \/ handleIpaEuiccDataRequest(d)
  \/ OnInit(d) \/ OnAuth(d) \/ OnBpp(d) \/ OnNotify(d) \/ OnCancel(d)
  \/ OnResult(d) \/ OnInstall(d) \/ persistState(d)

Server(d) == EimAnswer(d) \/ handleRelay(d) \/ NextBlock(d)
Relayed(r) == Smdp(r) \/ RelayDone(r)
Operator(d) == FollowWarning(d) \/ QueueAgain(d) \/ AddTrustedCI(d)
Faulty(d) == DownloadFails(d) \/ Fail(d) \/ Crash(d) \/ Expire(d)

Next ==
  \/ \E d \in Active : Runner(d) \/ Server(d) \/ Operator(d) \/ Faulty(d)
  \/ \E r \in serving : Relayed(r) \/ RelayAbandon(r)

Spec == Init /\ [][Next]_vars

(***************************************************************************)
(* A process that ended is started again and goes on; the eIM and the      *)
(* SM-DP+s answer; the operator reads the log.  Faults are bounded.        *)
(***************************************************************************)
FairSpec ==
  /\ Spec
  /\ \A d \in Devices :
       /\ WF_vars(d \in Active /\ (Runner(d) \/ Server(d)))
       /\ WF_vars(\E r \in serving : r.Device = d /\ Relayed(r))
       /\ WF_vars(d \in Active /\ Operator(d))

-----------------------------------------------------------------------------
(* The state file holds exactly what the operations did whose results the  *)
(* eIM accepted and after which the process lived to save: an operation    *)
(* that was refused, deferred or given up leaves no trace in it.           *)
DurableEffects == \A d \in Devices : SavedDevice(disk[d]) = want[d]

(* A notification the eIM stored and the IPA was done with when it saved   *)
(* is never replaced by another, though StoreNotification overwrites: only *)
(* numbers given since the last save are given again after a crash.        *)
NotificationsKept ==
  [][\A d \in Devices : \A n \in settled[d] : notes'[d][n] = notes[d][n]]_vars

(* The messages of a session go to the SM-DP+ that opened it, also when    *)
(* its transaction was used before and the relay still has the old route.  *)
RoutesRight ==
  \A r \in serving :
    (r.Wanted /\ r.Msg.Endpoint \in {"AuthenticateClient", "GetBoundProfilePackage", "CancelSession"})
      => r.To = run[r.Device].Op[1].SMDP

(* Blocks fetched over CoAP are all of the one answer this device was      *)
(* given, and it is whole when the client stops.                           *)
WholeAnswers ==
  \A d \in Devices : call[d].Parts # {} =>
    /\ call[d].Parts = {[For |-> d, Answer |-> call[d].Answer, Size |-> call[d].Size]}
    /\ call[d].At = "answered" <=> call[d].Got = call[d].Size

(* A fleet stuck for one of the reasons the code has no answer to. *)
OutOfStep(d) == associationToken(eim[d], OwnEim) # associationToken(SavedDevice(disk[d]), OwnEim)
DownloadsIndirectly(d) == Pending(d, "trigger") /\ SavedDevice(disk[d]).Indirect

(* Every queued operation is recorded in the end: a deferring IPA whose    *)
(* operator follows the warning presents its chain and takes the packages, *)
(* a restarted one goes on.  Not so if a new association token was lost    *)
(* with the process, or for an indirect download.                          *)
WorkDone ==
  <>[](\A d \in Devices : (queue[d] = <<>> /\ held[d] = <<>>) \/ OutOfStep(d) \/ DownloadsIndirectly(d))

(* README.md lists the indirect download: a trigger that is carried out    *)
(* this way completes once nothing fails any more.                         *)
IndirectCompletes == \A d \in Devices : Pending(d, "trigger") ~> ~Pending(d, "trigger")

=============================================================================
