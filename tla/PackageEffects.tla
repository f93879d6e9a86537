--------------------------- MODULE PackageEffects ---------------------------
(***************************************************************************)
(* What results do to the eIM's view of one eUICC: euiccpkg/state.go and   *)
(* ipadata/request.go, called by ESipa handlers that run side by side, one *)
(* store call per step, and may stop between two of them.  The eUICC       *)
(* executes what it is offered, and its IPA repeats an upload until it is  *)
(* acknowledged.                                                           *)
(*                                                                         *)
(* ICCIDs are numbers, so that the store's order by ICCID is their order.  *)
(* An optional value is a sequence of length at most one.                  *)
(***************************************************************************)
EXTENDS Integers, Sequences, FiniteSets, FiniteSetsExt, Functions, TLC

CONSTANTS
  Plans,       \* what operators may request: sequences of [Kind, ICCID, EimID,
               \* Token, Address, Asks], Asks what a data request asks for
  Cards,       \* the eUICCs to begin with
  Handlers,    \* ESipa requests in progress
  MaxFailures  \* how often a store call may fail or a request be cancelled

Own == "own"

(* A plan asks only data requests for something.  An eUICC that polls has  *)
(* this eIM among its associated ones.                                     *)
ASSUME PlansAssumption ==
  \A p \in Plans :
    /\ p \in Seq(Range(p))
    /\ \A op \in Range(p) : op.ICCID \in Nat /\ (op.Asks # {} => op.Kind = "ipaEuiccData")

ASSUME CardsAssumption ==
  \A c \in Cards :
    /\ DOMAIN c = {"profiles", "address", "eims", "info"}
    /\ IsFiniteSet(DOMAIN c.profiles) /\ DOMAIN c.profiles \subseteq Nat
    /\ c.profiles \in [DOMAIN c.profiles -> [IsEnabled : BOOLEAN, IsFallback : BOOLEAN]]
    /\ Own \in DOMAIN c.eims /\ c.eims = [e \in DOMAIN c.eims |-> c.eims[e]]

VARIABLES
  plan,
  signing,     \* the token the package being enqueued was signed with, optional
  queue,       \* operations in sequence order: [Op, Token, Status], Token the
               \* association token the package was signed with
  rows,        \* Store.profileStates of this EID, by ICCID
  state,       \* Store.euiccStates of this EID, optional: [Address, Info]
  eims,        \* Store.associatedEIMs of this EID: optional token, by eIM
  card,        \* the eUICC: [profiles, address, eims, info]
  uploads,     \* results the IPA holds until acknowledged, by operation
  handler,     \* the ESipa requests
  failures,
  past,        \* history: the facts that were ever true of the eUICC
  exact        \* history: results were handled one at a time and in order

store == <<rows, state, eims>>
vars == <<plan, signing, queue, rows, state, eims, card, uploads, handler, failures, past, exact>>

NoRow == [IsEnabled |-> FALSE, IsFallback |-> FALSE]
Put(f, key, value) == [k \in DOMAIN f \cup {key} |-> IF k = key THEN value ELSE f[k]]
Drop(f, key) == Restrict(f, DOMAIN f \ {key})

(* Each number at the place that those below it leave it. *)
Sorted(s) == [i \in 1..Cardinality(s) |-> CHOOSE x \in s : Cardinality({y \in s : y < x}) = i - 1]

(***************************************************************************)
(* Store calls that write, as data: the handler makes them one by one.     *)
(***************************************************************************)
SetProfileState(iccid, row) == [to |-> "rows", key |-> iccid, value |-> <<row>>]
DeleteProfileState(iccid) == [to |-> "rows", key |-> iccid, value |-> <<>>]
SetEUICCState(s) == [to |-> "state", key |-> 0, value |-> <<s>>]
SetAssociatedEIM(eim, token) == [to |-> "eims", key |-> eim, value |-> <<token>>]
DeleteAssociatedEIM(eim) == [to |-> "eims", key |-> eim, value |-> <<>>]

(***************************************************************************)
(* The effects, as the writes that follow what one read returned.          *)
(***************************************************************************)
setProfileEnabled(existing, iccid, enabled) ==
  LET row == IF iccid \in DOMAIN existing THEN existing[iccid] ELSE NoRow
  IN <<SetProfileState(iccid, [row EXCEPT !.IsEnabled = enabled])>>

(* A fault: rows that are not reported are kept. *)
syncProfileInventoryKeeping(existing, profiles) ==
  [i \in DOMAIN profiles |-> SetProfileState(profiles[i].ICCID, profiles[i].Row)]

syncProfileInventory(existing, profiles) ==
  LET seen == {profiles[i].ICCID : i \in DOMAIN profiles}
      unseen == Sorted(DOMAIN existing \ seen)
  IN [i \in DOMAIN profiles |-> SetProfileState(profiles[i].ICCID, profiles[i].Row)]
     \o [i \in DOMAIN unseen |-> DeleteProfileState(unseen[i])]

(* A fault: the mark is set on the new profile and not taken off the old. *)
setProfileFallbackOnly(existing, iccid) ==
  LET row == IF iccid \in DOMAIN existing THEN existing[iccid] ELSE NoRow
  IN <<SetProfileState(iccid, [row EXCEPT !.IsFallback = TRUE])>>

(* In the order of the ICCIDs, so the new mark may come before the old one *)
(* goes; a profile that has no row gets one.                               *)
setProfileFallback(existing, iccid) ==
  LET moved == Sorted({p \in DOMAIN existing : existing[p].IsFallback # (p = iccid)})
      rewritten == [i \in DOMAIN moved |->
                      SetProfileState(moved[i], [existing[moved[i]] EXCEPT
                                                   !.IsFallback = moved[i] = iccid])]
  IN IF iccid \in DOMAIN existing THEN rewritten
     ELSE Append(rewritten, SetProfileState(iccid, [NoRow EXCEPT !.IsFallback = TRUE]))

clearProfileFallback(existing) ==
  LET marked == Sorted({p \in DOMAIN existing : existing[p].IsFallback})
  IN [i \in DOMAIN marked |->
        SetProfileState(marked[i], [existing[marked[i]] EXCEPT !.IsFallback = FALSE])]

setEUICCDefaultSMDPAddress(found, address) ==
  <<SetEUICCState([IF found = <<>> THEN [Address |-> <<>>, Info |-> 0] ELSE found[1]
                     EXCEPT !.Address = <<address>>])>>

applyPSMOState(op, profileStates, euiccState, report) ==
  CASE op.Kind = "enable" -> setProfileEnabled(profileStates, op.ICCID, TRUE)
    [] op.Kind = "disable" -> setProfileEnabled(profileStates, op.ICCID, FALSE)
    [] op.Kind = "delete" -> <<DeleteProfileState(op.ICCID)>>
    [] op.Kind = "listProfileInfo" -> syncProfileInventory(profileStates, report.profiles)
    [] op.Kind = "setFallbackAttribute" -> setProfileFallback(profileStates, op.ICCID)
    [] op.Kind = "unsetFallbackAttribute" -> clearProfileFallback(profileStates)
    [] op.Kind = "setDefaultDpAddress" -> setEUICCDefaultSMDPAddress(euiccState, op.Address)
    [] OTHER -> <<>>

existingAssociationToken(associated, eim) ==
  IF eim \in DOMAIN associated THEN associated[eim] ELSE <<>>

(* Faults: the token of an added eIM is the configured one; an update      *)
(* without a token is stored as it was sent.                               *)
applyECOStateConfigured(op, associated, report) ==
  CASE op.Kind = "addEim" -> <<SetAssociatedEIM(op.EimID, op.Token)>>
    [] op.Kind = "updateEim" /\ op.Token # <<>> -> <<SetAssociatedEIM(op.EimID, op.Token)>>
    [] op.Kind = "deleteEim" -> <<DeleteAssociatedEIM(op.EimID)>>
    [] OTHER -> <<>>


applyECOStateAsSent(op, associated, report) ==
  CASE op.Kind = "addEim" -> <<SetAssociatedEIM(op.EimID, report.token)>>
    [] op.Kind = "updateEim" -> <<SetAssociatedEIM(op.EimID, op.Token)>>
    [] op.Kind = "deleteEim" -> <<DeleteAssociatedEIM(op.EimID)>>
    [] OTHER -> <<>>

(* The token the eUICC returned; an update without one keeps the stored. *)
applyECOState(op, associated, report) ==
  CASE op.Kind = "addEim" ->
         <<SetAssociatedEIM(op.EimID, IF report.token # <<>> THEN report.token ELSE op.Token)>>
    [] op.Kind = "updateEim" ->
         <<SetAssociatedEIM(op.EimID,
             IF op.Token # <<>> THEN op.Token
             ELSE existingAssociationToken(associated, op.EimID))>>
    [] op.Kind = "deleteEim" -> <<DeleteAssociatedEIM(op.EimID)>>
    [] OTHER -> <<>>

ApplyPackageResultState(op, report) ==
  applyPSMOState(op, rows, state, report) \o applyECOState(op, eims, report)

(* ApplyResponse after its SetEUICCState: the inventory, when reported. *)
syncDataInventory(report) ==
  IF report.profiles = <<>> /\ ~report.listed THEN <<>>
  ELSE syncProfileInventory(rows, report.profiles)

(***************************************************************************)
(* Requests.  Sign reads the token of the own association.                 *)
(***************************************************************************)
AssociationTokenForEIM(associated) ==
  IF existingAssociationToken(associated, Own) = <<>> THEN 0
  ELSE existingAssociationToken(associated, Own)[1]

IsPackage(op) == op.Kind \notin {"ipaEuiccData", "profileDownload"}

Sign ==
  /\ Len(queue) < Len(plan) /\ signing = <<>> /\ IsPackage(plan[Len(queue) + 1])
  /\ signing' = <<AssociationTokenForEIM(eims)>>
  /\ UNCHANGED <<plan, queue, rows, state, eims, card, uploads, handler, failures, past, exact>>

Enqueue ==
  /\ Len(queue) < Len(plan)
  /\ \E op \in {plan[Len(queue) + 1]} :
       /\ IsPackage(op) => signing # <<>>
       /\ queue' = Append(queue, [Op |-> op, Status |-> "pending",
                                  Token |-> IF IsPackage(op) THEN signing[1] ELSE 0])
  /\ signing' = <<>>
  /\ UNCHANGED <<plan, rows, state, eims, card, uploads, handler, failures, past, exact>>

(***************************************************************************)
(* The device (external).  A package of an eIM that the eUICC has no       *)
(* association with, or signed with another token than it has for it, is   *)
(* refused unsigned; results are signed over the token the eUICC had when  *)
(* the package arrived.                                                    *)
(***************************************************************************)
Inventory(c) ==
  LET iccids == Sorted(DOMAIN c.profiles)
  IN [i \in DOMAIN iccids |-> [ICCID |-> iccids[i], Row |-> c.profiles[iccids[i]]]]

Marked(c, iccid) == [p \in DOMAIN c.profiles |->
                       [c.profiles[p] EXCEPT !.IsFallback = p = iccid]]

Unmarked(c) == [p \in DOMAIN c.profiles |-> [c.profiles[p] EXCEPT !.IsFallback = FALSE]]

Switched(c, iccid) == [p \in DOMAIN c.profiles |->
                         [c.profiles[p] EXCEPT !.IsEnabled = p = iccid]]

(* Whether the eUICC can do it, and what it is afterwards. *)
Can(c, op) ==
  LET present == op.ICCID \in DOMAIN c.profiles
      enabled == present /\ c.profiles[op.ICCID].IsEnabled
  IN CASE op.Kind \in {"enable", "delete"} -> present /\ ~enabled
       [] op.Kind = "disable" -> enabled
       [] op.Kind = "setFallbackAttribute" -> present
       [] op.Kind = "profileDownload" -> ~present
       [] op.Kind = "addEim" -> op.EimID \notin DOMAIN c.eims
       [] op.Kind \in {"updateEim", "deleteEim"} -> op.EimID \in DOMAIN c.eims
       [] OTHER -> TRUE

NewToken == 9

After(c, op) ==
  CASE op.Kind = "enable" -> [c EXCEPT !.profiles = Switched(c, op.ICCID)]
    [] op.Kind = "disable" -> [c EXCEPT !.profiles = Put(c.profiles, op.ICCID,
                                  [c.profiles[op.ICCID] EXCEPT !.IsEnabled = FALSE])]
    [] op.Kind = "delete" -> [c EXCEPT !.profiles = Drop(c.profiles, op.ICCID)]
    [] op.Kind = "setFallbackAttribute" -> [c EXCEPT !.profiles = Marked(c, op.ICCID)]
    [] op.Kind = "unsetFallbackAttribute" -> [c EXCEPT !.profiles = Unmarked(c)]
    [] op.Kind = "setDefaultDpAddress" -> [c EXCEPT !.address = <<op.Address>>]
    [] op.Kind = "addEim" -> [c EXCEPT !.eims = Put(c.eims, op.EimID, <<NewToken>>)]
    [] op.Kind = "updateEim" /\ op.Token # <<>> -> [c EXCEPT !.eims = Put(c.eims, op.EimID, op.Token)]
    [] op.Kind = "deleteEim" -> [c EXCEPT !.eims = Drop(c.eims, op.EimID)]
    [] op.Kind = "profileDownload" -> [c EXCEPT !.profiles = Put(c.profiles, op.ICCID, NoRow)]
    [] op.Kind = "ipaEuiccData" -> [c EXCEPT !.info = c.info + 1]
    [] OTHER -> c

ReportOf(c, op) ==
  [token |-> IF op.Kind = "addEim" THEN <<NewToken>> ELSE <<>>,
   listed |-> "profiles" \in op.Asks,
   profiles |-> IF op.Kind = "listProfileInfo" \/ "profiles" \in op.Asks
                THEN Inventory(c) ELSE <<>>,
   state |-> [Address |-> IF "address" \in op.Asks THEN c.address ELSE <<>>,
              Info |-> c.info]]

Pending == {i \in DOMAIN queue : queue[i].Status = "pending"}
PendingPackages == {i \in Pending : IsPackage(queue[i].Op)}

(* A fault: an operation is offered once, the next one after it. *)
OfferedOnce ==
  LET left == Pending \ DOMAIN uploads
  IN IF left # {} THEN Min(left) ELSE Min(Pending)

(* selectOperationForGetEimPackage: packages first. *)
Offered == IF PendingPackages # {} THEN Min(PendingPackages) ELSE Min(Pending)

Facts(c) ==
  {<<"enabled", p>> : p \in {q \in DOMAIN c.profiles : c.profiles[q].IsEnabled}}
  \cup {<<"fallback", p>> : p \in {q \in DOMAIN c.profiles : c.profiles[q].IsFallback}}
  \cup {<<"profile", p>> : p \in DOMAIN c.profiles}
  \cup {<<"token", e, c.eims[e][1]>> : e \in {d \in DOMAIN c.eims : c.eims[d] # <<>>}}

Executed == DOMAIN uploads
Unacknowledged == {i \in Executed : ~uploads[i].acknowledged}

Execute ==
  /\ Pending # {} /\ Offered \notin Executed
  /\ LET op == queue[Offered].Op
         token == AssociationTokenForEIM(card.eims)
         refused == IsPackage(op) /\ (Own \notin DOMAIN card.eims \/ queue[Offered].Token # token)
         ok == ~refused /\ Can(card, op)
         after == IF ok THEN After(card, op) ELSE card
     IN /\ card' = after
        /\ past' = past \cup Facts(after)
        /\ uploads' = Put(uploads, Offered,
                          [ok |-> ok, refused |-> refused, token |-> token,
                           report |-> ReportOf(after, op), acknowledged |-> FALSE])
        /\ handler' = [h \in Handlers |->
                          [handler[h] EXCEPT !.alone = handler[h].alone /\ after.profiles = card.profiles]]
  /\ exact' = (exact /\ Unacknowledged = {})
  /\ UNCHANGED <<plan, signing, queue, rows, state, eims, failures>>

(***************************************************************************)
(* The handler of an upload: the store calls still to make.                *)
(***************************************************************************)
Idle == [on |-> 0, calls |-> <<>>, writes |-> <<>>, alone |-> FALSE]
Busy(h) == handler[h].on # 0

CallsFor(op, upload) ==
  IF ~IsPackage(op)
  THEN <<"record">> \o (IF op.Kind = "ipaEuiccData" /\ upload.ok
                         THEN <<"state", "sync">> ELSE <<>>)
  ELSE (IF upload.refused THEN <<>> ELSE <<"verify">>)
       \o <<"record">> \o (IF upload.ok THEN <<"apply">> ELSE <<>>)

(* A package result finds its operation in the queue or behind it, data    *)
(* and triggers only in the queue.                                         *)
Receive(i) ==
  /\ i \in Unacknowledged /\ \E h \in Handlers : ~Busy(h)
  /\ IsPackage(queue[i].Op) \/ queue[i].Status = "pending"
  /\ handler' = [handler EXCEPT ![CHOOSE h \in Handlers : ~Busy(h)] =
       [on |-> i, calls |-> CallsFor(queue[i].Op, uploads[i]), writes |-> <<>>,
        alone |-> /\ \A g \in Handlers : ~Busy(g)
                  /\ uploads[i].report.profiles = Inventory(card)]]
  /\ exact' = (exact /\ \A g \in Handlers : ~Busy(g))
  /\ UNCHANGED <<plan, signing, queue, rows, state, eims, card, uploads, failures, past>>

Calling(h, call) ==
  Busy(h) /\ handler[h].writes = <<>> /\ handler[h].calls # <<>> /\ Head(handler[h].calls) = call

(* The handler has made its call, and others are no longer alone. *)
Advanced(h, writes) ==
  [g \in Handlers |->
     IF g = h THEN [handler[h] EXCEPT !.calls = Tail(handler[h].calls), !.writes = writes]
     ELSE [handler[g] EXCEPT !.alone = FALSE]]

(* VerifyPackageResult with the token the store has now. *)
Verify(h) ==
  /\ Calling(h, "verify")
  /\ handler' = IF AssociationTokenForEIM(eims) = uploads[handler[h].on].token
                THEN Advanced(h, <<>>) ELSE [handler EXCEPT ![h] = Idle]
  /\ UNCHANGED <<plan, signing, queue, rows, state, eims, card, uploads, failures, past, exact>>

RecordEUICCPackageResult(h) ==
  /\ Calling(h, "record")
  /\ handler' = Advanced(h, <<>>)
  /\ queue' = [queue EXCEPT ![handler[h].on].Status =
                 IF uploads[handler[h].on].ok THEN "done" ELSE "failed"]
  /\ UNCHANGED <<plan, signing, rows, state, eims, card, uploads, failures, past, exact>>

(* The read an effect begins with, and the writes that follow from it. *)
ReadStore(h) ==
  \E call \in {"apply", "state", "sync"} :
    /\ Calling(h, call)
    /\ LET report == uploads[handler[h].on].report
           op == queue[handler[h].on].Op
       IN handler' = Advanced(h,
            CASE call = "apply" -> ApplyPackageResultState(op, report)
              [] call = "state" -> <<SetEUICCState(report.state)>>
              [] call = "sync" -> syncDataInventory(report))
    /\ UNCHANGED <<plan, signing, queue, rows, state, eims, card, uploads, failures, past, exact>>

Written(f, w) == IF w.value = <<>> THEN Drop(f, w.key) ELSE Put(f, w.key, w.value[1])

WriteStore(h) ==
  /\ Busy(h) /\ handler[h].writes # <<>>
  /\ LET w == Head(handler[h].writes)
     IN /\ rows' = IF w.to = "rows" THEN Written(rows, w) ELSE rows
        /\ state' = IF w.to = "state" THEN w.value ELSE state
        /\ eims' = IF w.to = "eims" THEN Written(eims, w) ELSE eims
  /\ handler' = [g \in Handlers |->
                   IF g = h THEN [handler[h] EXCEPT !.writes = Tail(handler[h].writes)]
                   ELSE [handler[g] EXCEPT !.alone = FALSE]]
  /\ UNCHANGED <<plan, signing, queue, card, uploads, failures, past, exact>>

Finished(h) == Busy(h) /\ handler[h].calls = <<>> /\ handler[h].writes = <<>>

(* The answer reaches the IPA, or is lost on the way. *)
Answer(h) ==
  /\ Finished(h)
  /\ handler' = [handler EXCEPT ![h] = Idle]
  /\ \/ uploads' = [uploads EXCEPT ![handler[h].on].acknowledged = TRUE]
     \/ uploads' = uploads
  /\ UNCHANGED <<plan, signing, queue, rows, state, eims, card, failures, past, exact>>

(* A store call fails or the request is cancelled: the rest is not done.   *)
(* Data is on record by then, and what is left of it is never applied.     *)
Fail(h) ==
  /\ Busy(h) /\ ~Finished(h) /\ failures < MaxFailures
  /\ failures' = failures + 1
  /\ handler' = [handler EXCEPT ![h] = Idle]
  /\ exact' = (exact /\ (IsPackage(queue[handler[h].on].Op)
                         \/ queue[handler[h].on].Status = "pending"))
  /\ UNCHANGED <<plan, signing, queue, rows, state, eims, card, uploads, past>>

(***************************************************************************)
(* The view is empty, or it is what an inventory has just made it.         *)
(***************************************************************************)
Init ==
  /\ plan \in Plans /\ card \in Cards
  /\ signing = <<>> /\ queue = <<>> /\ uploads = <<>> /\ failures = 0
  /\ handler = [h \in Handlers |-> Idle]
  /\ exact \in BOOLEAN
  /\ rows = IF exact THEN card.profiles ELSE <<>>
  /\ state = <<>> /\ eims = card.eims
  /\ past = Facts(card)

HandlerStep(h) ==
  Verify(h) \/ RecordEUICCPackageResult(h) \/ ReadStore(h) \/ WriteStore(h) \/ Answer(h)

Next ==
  \/ Sign
  \/ Enqueue
  \/ Execute
  \/ \E i \in DOMAIN queue : Receive(i)
  \/ \E h \in Handlers : HandlerStep(h) \/ Fail(h)

(***************************************************************************)
(* Requests run to their end, and an IPA whose result was not acknowledged *)
(* gets through to the eIM again and again.                                *)
(***************************************************************************)
Positions == 1..Max({Len(p) : p \in Plans})

Fairness ==
  /\ \A h \in Handlers : WF_vars(HandlerStep(h))
  /\ \A i \in Positions : SF_vars(i \in DOMAIN queue /\ Receive(i))

Spec == Init /\ [][Next]_vars /\ Fairness

(***************************************************************************)
(* Properties.                                                             *)
(***************************************************************************)
(* NothingInvented: however handlers interleave, fail and repeat, the view *)
(* holds no profile, enabled mark, fallback mark or association token that *)
(* the eUICC never had (lost updates of setProfileEnabled and              *)
(* setProfileFallback lose changes, they do not make any up).              *)
NothingInvented ==
  Facts([profiles |-> rows, eims |-> eims]) \subseteq past

(* InventoryHeals: an inventory that is handled with no other request in   *)
(* between, while its report is still true, leaves exactly the eUICC's     *)
(* profiles and marks, whatever earlier interleavings and failures left in *)
(* the rows (both syncProfileInventory).                                   *)
InventoryHeals ==
  \A h \in Handlers :
    LET op == queue[handler[h].on].Op
    IN /\ Finished(h) /\ handler[h].alone /\ uploads[handler[h].on].ok
       /\ op.Kind = "listProfileInfo" \/ "profiles" \in op.Asks
       => rows = card.profiles

(* ViewFollows: while results are handled one at a time and in order, each *)
(* repeated until acknowledged, the view follows the eUICC although calls  *)
(* fail half way: the rows are profiles it has, with its fallback mark and *)
(* every enabled profile marked enabled (a profile switched off by another *)
(* one's enabling keeps its mark until the next inventory), a known        *)
(* default address is its own, and so are the associations and tokens      *)
(* (ApplyPackageResultState, ApplyResponse).                               *)
ViewFollows ==
  exact /\ Unacknowledged = {} /\ (\A h \in Handlers : ~Busy(h)) =>
    /\ DOMAIN rows \subseteq DOMAIN card.profiles
    /\ \A p \in DOMAIN card.profiles :
         LET row == IF p \in DOMAIN rows THEN rows[p] ELSE NoRow
         IN /\ row.IsFallback = card.profiles[p].IsFallback
            /\ card.profiles[p].IsEnabled => row.IsEnabled
    /\ state # <<>> => state[1].Address \in {<<>>, card.address}
    /\ eims = card.eims

ChangesToken(op) ==
  op.EimID = Own /\ (op.Kind \in {"addEim", "deleteEim"} \/ (op.Kind = "updateEim" /\ op.Token # <<>>))

(* RefusalsExplained: the eUICC refuses a package for its token only when  *)
(* a change of that token was queued before it: no other sequence of       *)
(* results, failures and repetitions makes Sign use a token the eUICC does *)
(* not have (AssociationTokenForEIM, existingAssociationToken).            *)
RefusalsExplained ==
  \A i \in Executed : uploads[i].refused => \E j \in 1..i - 1 : ChangesToken(queue[j].Op)

(* ResultsRecorded: a result the eUICC produced is recorded in the end: a  *)
(* verification that fails because the token is about to change succeeds   *)
(* when the upload is repeated (verifiedOperationResult).                  *)
ResultsRecorded ==
  \A i \in Positions : (i \in Executed) ~> (i \notin Pending)
=============================================================================
