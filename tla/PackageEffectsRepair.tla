------------------------ MODULE PackageEffectsRepair ------------------------
(***************************************************************************)
(* What handlers side by side do not spoil, for every plan, every eUICC    *)
(* and any number of handlers and failures: tokens agree until one is      *)
(* changed, and an undisturbed inventory makes the rows right.             *)
(***************************************************************************)
EXTENDS PackageEffectsProofs

-----------------------------------------------------------------------------
(* Packages are executed in order; until one changes the own token, all    *)
(* that has been signed and stored has the eUICC's.                        *)
InOrder ==
  /\ DOMAIN queue \ Pending \subseteq Executed
  /\ \A k \in Executed, i \in DOMAIN queue :
       IsPackage(queue[k].Op) /\ IsPackage(queue[i].Op) /\ i < k => i \in Executed

Keeps(w, token) ==
  w.to = "eims" /\ w.key = Own =>
    w.value # <<>> /\ token = IF w.value[1] = <<>> THEN 0 ELSE w.value[1][1]

AllKeep(handlers, token) ==
  \A h \in Handlers : \A w \in Range(handlers[h].writes) : Keeps(w, token)

Calm == \A k \in Executed : ~ChangesToken(queue[k].Op)

Agreed ==
  /\ Own \in DOMAIN card.eims
  /\ AssociationTokenForEIM(eims) = OwnToken
  /\ signing # <<>> => signing[1] = OwnToken
  /\ \A i \in DOMAIN queue : IsPackage(queue[i].Op) => queue[i].Token = OwnToken
  /\ AllKeep(handler, OwnToken)

Settled == Calm => Agreed

-----------------------------------------------------------------------------
(* Behind RefusalsExplained: packages are executed in their order.  Most   *)
(* steps leave the queue alone and execute nothing.                        *)
Quiet == queue' = queue /\ Executed' = Executed

LEMMA AnswerMeans ==
  ASSUME Sound, NEW h \in Handlers, Answer(h)
  PROVE  /\ UNCHANGED <<plan, signing, queue, rows, state, eims, card, failures, past, exact>>
         /\ handler' = [handler EXCEPT ![h] = Idle]
         /\ DOMAIN uploads' = DOMAIN uploads
         /\ \A i \in DOMAIN uploads :
              /\ uploads'[i].ok = uploads[i].ok /\ uploads'[i].report = uploads[i].report
              /\ uploads'[i].refused = uploads[i].refused
<1> DEFINE on == handler[h].on
<1>1. uploads' = uploads \/ uploads' = [uploads EXCEPT ![on].acknowledged = TRUE]
  BY DEF Answer
<1>2. \A i \in DOMAIN uploads : DOMAIN uploads[i] = UploadFields
  BY DEF Sound, UploadsSound
<1>3. /\ UNCHANGED <<plan, signing, queue, rows, state, eims, card, failures, past, exact>>
      /\ handler' = [handler EXCEPT ![h] = Idle]
  BY DEF Answer
<1> HIDE DEF on
<1>4. /\ DOMAIN uploads' = DOMAIN uploads
      /\ \A i \in DOMAIN uploads :
           /\ uploads'[i].ok = uploads[i].ok /\ uploads'[i].report = uploads[i].report
           /\ uploads'[i].refused = uploads[i].refused
  BY <1>1, <1>2 DEF UploadFields
<1>5. QED
  BY <1>3, <1>4

LEMMA QuietSteps ==
  ASSUME Sound,
         \/ Sign \/ UNCHANGED vars
         \/ \E i \in DOMAIN queue : Receive(i)
         \/ \E h \in Handlers : Verify(h) \/ ReadStore(h) \/ WriteStore(h) \/ Answer(h) \/ Fail(h)
  PROVE  Quiet
<1>1. ASSUME NEW h \in Handlers, Answer(h)
      PROVE  Quiet
  BY <1>1, AnswerMeans DEF Quiet, Executed
<1>2. QED
  BY <1>1, Zenon DEF Quiet, Executed, Sign, vars, Receive, Verify, ReadStore, WriteStore, Fail

LEMMA InOrderStep == Sound /\ InOrder /\ [Next]_vars => InOrder'
<1> SUFFICES ASSUME Sound, InOrder, [Next]_vars
             PROVE  InOrder'
  OBVIOUS
<1>0. Executed \subseteq DOMAIN queue
  BY DEF Sound, UploadsSound, Executed
<1>1. CASE Quiet
  BY <1>1 DEF Quiet, InOrder, Pending
<1>2. CASE Enqueue
  <2> DEFINE n == Len(queue) + 1
  <2>1. /\ DOMAIN queue' = DOMAIN queue \cup {n} /\ n \notin DOMAIN queue
        /\ n \in Nat /\ \A i \in DOMAIN queue : i \in Nat /\ i < n
        /\ \A i \in DOMAIN queue : queue'[i] = queue[i]
        /\ queue'[n].Status = "pending" /\ uploads' = uploads
    BY <1>2, EnqueueMeans
  <2> HIDE DEF n
  <2>2. Executed' = Executed
    BY <2>1 DEF Executed
  <2>3. DOMAIN queue' \ Pending' \subseteq Executed
    BY <2>1 DEF Pending, InOrder
  <2>4. \A k \in Executed, i \in DOMAIN queue' : i < k => i \in DOMAIN queue
    BY <1>0, <2>1
  <2>5. QED
    BY <1>0, <2>1, <2>2, <2>3, <2>4 DEF InOrder
<1>3. CASE Execute
  <2>1. /\ Pending # {} /\ Offered \notin Executed /\ queue' = queue
        /\ uploads' = Put(uploads, Offered, TheUpload)
    BY <1>3, ExecuteMeans
  <2>2. Executed' = Executed \cup {Offered}
    BY <2>1 DEF Executed, Put
  <2>3. /\ Offered \in Pending
        /\ IsPackage(queue[Offered].Op) => \A i \in PendingPackages : Offered <= i
    BY <2>1, OfferedIsPending DEF Sound
  <2>4. \A i \in DOMAIN queue : i \in Nat
    BY SeqDomain DEF Sound, QueueSound
  <2>5. ASSUME NEW i \in DOMAIN queue, IsPackage(queue[Offered].Op), IsPackage(queue[i].Op), i < Offered
        PROVE  i \in Executed
    <3>1. i \notin PendingPackages
      BY <2>3, <2>4, <2>5 DEF Pending
    <3>2. QED
      BY <2>5, <3>1 DEF PendingPackages, InOrder
  <2>6. Pending' = Pending /\ DOMAIN queue \ Pending \subseteq Executed
    BY <2>1 DEF InOrder, Pending
  <2>7. \A k \in Executed \cup {Offered}, i \in DOMAIN queue :
          IsPackage(queue[k].Op) /\ IsPackage(queue[i].Op) /\ i < k => i \in Executed \cup {Offered}
    BY <2>5 DEF InOrder
  <2>8. QED
    BY <2>1, <2>2, <2>6, <2>7 DEF InOrder
<1>4. ASSUME NEW h \in Handlers, RecordEUICCPackageResult(h)
      PROVE  InOrder'
  <2>1. /\ DOMAIN queue' = DOMAIN queue /\ handler[h].on \in DOMAIN uploads
        /\ \A i \in DOMAIN queue : queue'[i].Op = queue[i].Op
        /\ \A i \in DOMAIN queue : i # handler[h].on => queue'[i] = queue[i]
        /\ uploads' = uploads
    BY <1>4, RecordMeans
  <2>2. Executed' = Executed /\ handler[h].on \in Executed
    BY <2>1 DEF Executed
  <2>3. DOMAIN queue' \ Pending' \subseteq Executed
    BY <2>1, <2>2 DEF InOrder, Pending
  <2>4. QED
    BY <1>0, <2>1, <2>2, <2>3 DEF InOrder
<1>5. QED
  BY <1>1, <1>2, <1>3, <1>4, QuietSteps DEF Next, HandlerStep

(* No effect on profiles or on the default address is a write to eims. *)
LEMMA PSMOTo ==
  ASSUME NEW r, IsRows(r), NEW op, NEW s, NEW report, IsSeq(report.profiles)
  PROVE  \A w \in Range(applyPSMOState(op, r, s, report)) : w.to # "eims"
<1> DEFINE effect == applyPSMOState(op, r, s, report)
<1>0. \A k, row : SetProfileState(k, row).to # "eims" /\ DeleteProfileState(k).to # "eims"
  BY DEF SetProfileState, DeleteProfileState
<1>1. CASE op.Kind \in {"enable", "disable", "delete", "setDefaultDpAddress"}
  <2>1. \E w : effect = <<w>> /\ w.to # "eims"
    <3>1. CASE op.Kind = "enable"
      BY <1>0, <3>1 DEF applyPSMOState, setProfileEnabled
    <3>2. CASE op.Kind = "disable"
      BY <1>0, <3>2 DEF applyPSMOState, setProfileEnabled
    <3>3. CASE op.Kind = "delete"
      BY <1>0, <3>3 DEF applyPSMOState
    <3>4. CASE op.Kind = "setDefaultDpAddress"
      <4>1. \A x : SetEUICCState(x).to # "eims"
        BY DEF SetEUICCState
      <4>2. QED
        BY <3>4, <4>1 DEF applyPSMOState, setEUICCDefaultSMDPAddress
    <3>5. QED
      BY <1>1, <3>1, <3>2, <3>3, <3>4
  <2> HIDE DEF effect
  <2>2. QED
    BY <2>1, RangeOne DEF effect
<1>2. CASE op.Kind = "listProfileInfo"
  <2>1. effect = syncProfileInventory(r, report.profiles)
    BY <1>2 DEF applyPSMOState
  <2>2. \A w \in Range(syncProfileInventory(r, report.profiles)) :
          \/ \E x \in Range(report.profiles) : w = SetProfileState(x.ICCID, x.Row)
          \/ \E k \in DOMAIN r : w = DeleteProfileState(k)
    BY SyncRange
  <2> HIDE DEF effect
  <2>3. QED
    BY <1>0, <2>1, <2>2 DEF effect
<1>3. CASE op.Kind = "setFallbackAttribute"
  <2>1. effect = setProfileFallback(r, op.ICCID)
    BY <1>3 DEF applyPSMOState
  <2>2. Range(setProfileFallback(r, op.ICCID)) =
          {Moved(r, op.ICCID)[q] : q \in Misplaced(r, op.ICCID)}
          \cup (IF op.ICCID \in DOMAIN r THEN {}
                ELSE {SetProfileState(op.ICCID, [NoRow EXCEPT !.IsFallback = TRUE])})
    BY FallbackRange, Zenon
  <2>3. \A q \in Misplaced(r, op.ICCID) : Moved(r, op.ICCID)[q].to # "eims"
    BY <1>0 DEF Misplaced, Moved
  <2> HIDE DEF effect
  <2>4. QED
    BY <1>0, <2>1, <2>2, <2>3 DEF effect
<1>4. CASE op.Kind = "unsetFallbackAttribute"
  <2>1. effect = clearProfileFallback(r)
    BY <1>4 DEF applyPSMOState
  <2>2. \A w \in Range(clearProfileFallback(r)) :
          \E q \in DOMAIN r : w = SetProfileState(q, [r[q] EXCEPT !.IsFallback = FALSE])
    BY ClearRange
  <2>3. \A q \in DOMAIN r : SetProfileState(q, [r[q] EXCEPT !.IsFallback = FALSE]).to # "eims"
    BY <1>0
  <2> HIDE DEF effect
  <2>4. QED
    BY <2>1, <2>2, <2>3, Zenon DEF effect
<1>5. CASE op.Kind \notin {"enable", "disable", "delete", "listProfileInfo", "setFallbackAttribute",
                           "unsetFallbackAttribute", "setDefaultDpAddress"}
  <2>1. effect = <<>>
    BY <1>5, Zenon DEF applyPSMOState
  <2> HIDE DEF effect
  <2>2. QED
    BY <2>1, RangeNone DEF effect
<1>6. QED
  BY <1>1, <1>2, <1>3, <1>4, <1>5

(* Of the changes of associations, an update without a token keeps it. *)
LEMMA ECOKeeps ==
  ASSUME NEW a, NEW op, ~ChangesToken(op), NEW report
  PROVE  \A w \in Range(applyECOState(op, a, report)) : Keeps(w, AssociationTokenForEIM(a))
<1> DEFINE effect == applyECOState(op, a, report)
           old == existingAssociationToken(a, op.EimID)
<1>1. CASE op.EimID = Own /\ op.Kind = "updateEim"
  <2>1. op.Token = <<>>
    BY <1>1 DEF ChangesToken
  <2>2. effect = <<SetAssociatedEIM(op.EimID, old)>>
    BY <1>1, <2>1 DEF applyECOState
  <2>3. Keeps(SetAssociatedEIM(op.EimID, old), AssociationTokenForEIM(a))
    <3>1. AssociationTokenForEIM(a) = IF old = <<>> THEN 0 ELSE old[1]
      BY <1>1 DEF AssociationTokenForEIM
    <3> HIDE DEF old
    <3>2. QED
      BY <3>1 DEF Keeps, SetAssociatedEIM
  <2> HIDE DEF old, effect
  <2>4. QED
    BY <2>2, <2>3, RangeOne DEF effect
<1>2. CASE op.EimID # Own /\ op.Kind \in {"addEim", "updateEim", "deleteEim"}
  <2>1. \E w : effect = <<w>> /\ w.key # Own
    BY <1>2 DEF applyECOState, SetAssociatedEIM, DeleteAssociatedEIM
  <2> HIDE DEF effect
  <2>2. QED
    BY <2>1, RangeOne DEF effect, Keeps
<1>3. CASE op.Kind \notin {"addEim", "updateEim", "deleteEim"}
  <2>1. effect = <<>>
    BY <1>3 DEF applyECOState
  <2> HIDE DEF effect
  <2>2. QED
    BY <2>1, RangeNone DEF effect
<1>4. QED
  BY <1>1, <1>2, <1>3 DEF ChangesToken

LEMMA ReadKeeps ==
  ASSUME Sound, NEW h \in Handlers, ReadStore(h), Calm
  PROVE  \E writes : /\ handler' = Advanced(h, writes)
                     /\ \A w \in Range(writes) : Keeps(w, AssociationTokenForEIM(eims))
<1> DEFINE on == handler[h].on
           report == uploads[on].report
           op == queue[on].Op
           token == AssociationTokenForEIM(eims)
<1>1. \/ handler' = Advanced(h, ApplyPackageResultState(op, report)) /\ Head(handler[h].calls) = "apply"
      \/ handler' = Advanced(h, <<SetEUICCState(report.state)>>)
      \/ handler' = Advanced(h, syncDataInventory(report))
  BY Zenon DEF ReadStore, Calling
<1>2. Busy(h) /\ handler[h].calls # <<>>
  BY DEF ReadStore, Calling
<1>3. on \in DOMAIN uploads
  BY <1>2 DEF Busy, Sound, HandlersSound, HandlerSound
<1>4. ~ChangesToken(op) /\ IsRows(rows) /\ IsSeq(report.profiles)
  BY <1>3 DEF Calm, Executed, Sound, ViewSound, UploadsSound, UploadTrue
<1> HIDE DEF on, report, op
<1>5. ASSUME Head(handler[h].calls) = "apply"
      PROVE  \A w \in Range(ApplyPackageResultState(op, report)) : Keeps(w, token)
  <2> DEFINE s == applyPSMOState(op, rows, state, report)
             t == applyECOState(op, eims, report)
  <2>1. IsSeq(s) /\ IsSeq(t)
    <3>1. "apply" \in Range(handler[h].calls)
      BY <1>2, <1>5, RangeTail DEF Sound, HandlersSound, HandlerSound
    <3>2. uploads[on].ok
      BY <3>1 DEF on, Sound, HandlersSound, HandlerSound
    <3>3. /\ UploadTrue(op, uploads[on], past) /\ op.ICCID \in Nat
          /\ IsRows(rows) /\ ViewTrue(rows, eims, past)
      BY <1>3 DEF Sound, UploadsSound, QueueSound, ViewSound, Asked, op
    <3>4. AllTrue(applyPSMOState(op, rows, state, uploads[on].report), past)
      BY <3>2, <3>3, PSMOTrue
    <3>5. AllTrue(applyECOState(op, eims, uploads[on].report), past)
      BY <3>2, <3>3, ECOTrue
    <3>6. QED
      BY <3>4, <3>5 DEF AllTrue, report
  <2>2. \A w \in Range(s) : Keeps(w, token)
    <3>1. \A w \in Range(s) : w.to # "eims"
      BY <1>4, PSMOTo
    <3>2. QED
      BY <3>1 DEF Keeps
  <2>3. \A w \in Range(t) : Keeps(w, token)
    BY <1>4, ECOKeeps
  <2>4. ApplyPackageResultState(op, report) = s \o t
    BY DEF ApplyPackageResultState
  <2> HIDE DEF s, t, token
  <2>5. QED
    BY <2>1, <2>2, <2>3, <2>4, RangeJoin
<1> HIDE DEF token
<1>6. \A w \in Range(<<SetEUICCState(report.state)>>) : Keeps(w, token)
  <2>1. Keeps(SetEUICCState(report.state), token)
    BY DEF Keeps, SetEUICCState
  <2>2. QED
    BY <2>1, RangeOne
<1>7. \A w \in Range(syncDataInventory(report)) : Keeps(w, token)
  <2>1. \A k, row : Keeps(SetProfileState(k, row), token) /\ Keeps(DeleteProfileState(k), token)
    BY DEF Keeps, SetProfileState, DeleteProfileState
  <2>2. \A w \in Range(syncProfileInventory(rows, report.profiles)) :
          \/ \E x \in Range(report.profiles) : w = SetProfileState(x.ICCID, x.Row)
          \/ \E k \in DOMAIN rows : w = DeleteProfileState(k)
    BY <1>4, SyncRange
  <2>3. \A w \in Range(syncProfileInventory(rows, report.profiles)) : Keeps(w, token)
    BY <2>1, <2>2
  <2>4. QED
    BY <2>3, RangeNone DEF syncDataInventory
<1>8. QED
  BY <1>1, <1>5, <1>6, <1>7 DEF token

LEMMA AdvancedKeeps ==
  ASSUME Sound, NEW h \in Handlers, NEW token, AllKeep(handler, token), NEW writes,
         \A w \in Range(writes) : Keeps(w, token)
  PROVE  AllKeep(Advanced(h, writes), token)
<1>1. \A g \in Handlers : DOMAIN handler[g] = {"on", "calls", "writes", "alone"}
  BY DEF Sound, HandlersSound, HandlerSound
<1>2. Advanced(h, writes)[h].writes = writes
  BY <1>1, Zenon DEF Advanced
<1>3. \A g \in Handlers \ {h} : Advanced(h, writes)[g].writes = handler[g].writes
  BY <1>1 DEF Advanced
<1>4. QED
  BY <1>2, <1>3 DEF AllKeep

LEMMA IdleKeeps ==
  ASSUME Sound, NEW h \in Handlers, NEW token, AllKeep(handler, token)
  PROVE  AllKeep([handler EXCEPT ![h] = Idle], token)
<1>1. Idle.writes = <<>>
  BY DEF Idle
<1>2. QED
  BY <1>1, RangeNone DEF AllKeep, Sound, HandlersSound

(* The eUICC's token for this eIM stays unless the operation changes it. *)
LEMMA TokenStays ==
  ASSUME NEW c, IsCard(c), Own \in DOMAIN c.eims, NEW op, ~ChangesToken(op)
  PROVE  /\ Own \in DOMAIN After(c, op).eims
         /\ AssociationTokenForEIM(After(c, op).eims) = AssociationTokenForEIM(c.eims)
<1> DEFINE same(d) == Own \in DOMAIN d.eims /\ d.eims[Own] = c.eims[Own]
<1>1. same(After(c, op))
  <2>1. CASE op.Kind = "addEim"
    <3>1. op.EimID # Own /\ After(c, op).eims = Put(c.eims, op.EimID, <<NewToken>>)
      BY <2>1 DEF ChangesToken, After, IsCard
    <3>2. QED
      BY <3>1 DEF Put
  <2>2. CASE op.Kind = "updateEim" /\ op.Token # <<>>
    <3>1. op.EimID # Own /\ After(c, op).eims = Put(c.eims, op.EimID, op.Token)
      BY <2>2 DEF ChangesToken, After, IsCard
    <3>2. QED
      BY <3>1 DEF Put
  <2>3. CASE op.Kind = "deleteEim"
    <3>1. op.EimID # Own /\ After(c, op).eims = Drop(c.eims, op.EimID)
      BY <2>3 DEF ChangesToken, After, IsCard
    <3>2. QED
      BY <3>1 DEF Drop, Restrict
  <2>4. CASE op.Kind \notin {"addEim", "deleteEim"} /\ ~(op.Kind = "updateEim" /\ op.Token # <<>>)
    <3>1. After(c, op).eims = c.eims
      BY <2>4 DEF After, IsCard
    <3>2. QED
      BY <3>1
  <2>5. QED
    BY <2>1, <2>2, <2>3, <2>4, Zenon
<1>2. QED
  BY <1>1 DEF AssociationTokenForEIM, existingAssociationToken

LEMMA WriteKeeps ==
  ASSUME NEW a, NEW w, w.to = "eims", Keeps(w, AssociationTokenForEIM(a))
  PROVE  AssociationTokenForEIM(Written(a, w)) = AssociationTokenForEIM(a)
<1>1. CASE w.key # Own
  <2>1. \/ Written(a, w) = Drop(a, w.key)
        \/ Written(a, w) = Put(a, w.key, w.value[1])
    BY DEF Written
  <2>2. existingAssociationToken(Drop(a, w.key), Own) = existingAssociationToken(a, Own)
    BY <1>1, Zenon DEF existingAssociationToken, Drop, Restrict
  <2>3. existingAssociationToken(Put(a, w.key, w.value[1]), Own) = existingAssociationToken(a, Own)
    BY <1>1 DEF existingAssociationToken, Put
  <2>4. QED
    BY <2>1, <2>2, <2>3, Zenon DEF AssociationTokenForEIM
<1>2. CASE w.key = Own
  <2>1. w.value # <<>> /\ AssociationTokenForEIM(a) = IF w.value[1] = <<>> THEN 0 ELSE w.value[1][1]
    BY <1>2 DEF Keeps
  <2>2. Written(a, w) = Put(a, Own, w.value[1])
    BY <1>2, <2>1 DEF Written
  <2>3. existingAssociationToken(Put(a, Own, w.value[1]), Own) = w.value[1]
    BY DEF existingAssociationToken, Put
  <2>4. QED
    BY <2>1, <2>2, <2>3 DEF AssociationTokenForEIM
<1>3. QED
  BY <1>1, <1>2

LEMMA SettledInit == Init => InOrder /\ Settled /\ RefusalsExplained
<1> SUFFICES ASSUME Init
             PROVE  InOrder /\ Settled /\ RefusalsExplained
  OBVIOUS
<1>1. queue = <<>> /\ uploads = <<>> /\ signing = <<>> /\ eims = card.eims /\ card \in Cards
  BY DEF Init
<1>2. DOMAIN queue = {} /\ Executed = {}
  BY <1>1 DEF Executed
<1>3. AllKeep(handler, OwnToken)
  <2>1. \A h \in Handlers : handler[h].writes = <<>>
    BY DEF Init, Idle
  <2>2. QED
    BY <2>1, RangeNone DEF AllKeep
<1>4. Own \in DOMAIN card.eims
  BY <1>1, CardsAssumption, Zenon
<1>5. QED
  BY <1>1, <1>2, <1>3, <1>4 DEF InOrder, Settled, Agreed, RefusalsExplained, OwnToken

(* An operation once queued stays, and one executed stays executed. *)
LEMMA OpsStay ==
  ASSUME Sound, [Next]_vars
  PROVE  /\ DOMAIN queue \subseteq DOMAIN queue' /\ Executed \subseteq Executed'
         /\ \A i \in DOMAIN queue : queue'[i].Op = queue[i].Op
<1>1. CASE Quiet
  BY <1>1 DEF Quiet
<1>2. CASE Enqueue
  BY <1>2, EnqueueMeans, Zenon DEF Executed
<1>3. CASE Execute
  <2>1. queue' = queue /\ uploads' = Put(uploads, Offered, TheUpload)
    BY <1>3, ExecuteMeans
  <2>2. QED
    BY <2>1 DEF Executed, Put
<1>4. ASSUME NEW h \in Handlers, RecordEUICCPackageResult(h)
      PROVE  /\ DOMAIN queue \subseteq DOMAIN queue' /\ Executed \subseteq Executed'
             /\ \A i \in DOMAIN queue : queue'[i].Op = queue[i].Op
  <2>1. /\ DOMAIN queue' = DOMAIN queue /\ uploads' = uploads
        /\ \A i \in DOMAIN queue : queue'[i].Op = queue[i].Op
    BY <1>4, RecordMeans, Zenon
  <2>2. QED
    BY <2>1 DEF Executed
<1>5. QED
  BY <1>1, <1>2, <1>3, <1>4, QuietSteps DEF Next, HandlerStep

LEMMA CalmBefore ==
  ASSUME Sound, [Next]_vars, Calm'
  PROVE  Calm
<1>1. \A k \in Executed : k \in Executed' /\ queue'[k].Op = queue[k].Op
  BY OpsStay, Zenon DEF Sound, UploadsSound, Executed
<1>2. QED
  BY <1>1 DEF Calm

LEMMA SettledStep == Sound /\ Settled /\ [Next]_vars => Settled'
<1> SUFFICES ASSUME Sound, Settled, [Next]_vars, Calm'
             PROVE  Agreed'
  BY DEF Settled
<1>0. Calm /\ Agreed
  BY CalmBefore DEF Settled
<1>1. CASE Sign
  <2>1. signing' = <<AssociationTokenForEIM(eims)>> /\ UNCHANGED <<queue, eims, card, handler>>
    BY <1>1 DEF Sign
  <2>2. QED
    BY <1>0, <2>1 DEF Agreed, OwnToken
<1>2. CASE Enqueue
  <2> DEFINE n == Len(queue) + 1
  <2>1. /\ DOMAIN queue' = DOMAIN queue \cup {n}
        /\ \A i \in DOMAIN queue : queue'[i] = queue[i]
        /\ IsPackage(queue'[n].Op) => signing # <<>> /\ queue'[n].Token = signing[1]
        /\ UNCHANGED <<eims, card, handler>> /\ signing' = <<>>
    BY <1>2, EnqueueMeans
  <2> HIDE DEF n
  <2>2. OwnToken' = OwnToken
    BY <2>1 DEF OwnToken
  <2>3. \A i \in DOMAIN queue' : IsPackage(queue'[i].Op) => queue'[i].Token = OwnToken
    BY <1>0, <2>1 DEF Agreed
  <2>4. QED
    BY <1>0, <2>1, <2>2, <2>3 DEF Agreed
<1>3. CASE Execute
  <2>1. /\ card' = TheCard /\ UNCHANGED <<signing, queue, eims>>
        /\ uploads' = Put(uploads, Offered, TheUpload)
        /\ handler' = [h \in Handlers |->
              [handler[h] EXCEPT !.alone = handler[h].alone /\ TheCard.profiles = card.profiles]]
    BY <1>3, ExecuteMeans
  <2>2. ~ChangesToken(TheOp)
    <3>1. Offered \in Executed'
      BY <2>1 DEF Executed, Put
    <3>2. QED
      BY <2>1, <3>1 DEF Calm, TheOp
  <2>3. Own \in DOMAIN TheCard.eims /\ AssociationTokenForEIM(TheCard.eims) = OwnToken
    <3>1. IsCard(card) /\ Own \in DOMAIN card.eims
      BY <1>0 DEF Sound, ViewSound, Agreed
    <3>2. /\ Own \in DOMAIN After(card, TheOp).eims
          /\ AssociationTokenForEIM(After(card, TheOp).eims) = AssociationTokenForEIM(card.eims)
      BY <2>2, <3>1, TokenStays
    <3>3. QED
      BY <3>1, <3>2 DEF TheCard, OwnToken
  <2>4. OwnToken' = OwnToken
    BY <2>1, <2>3 DEF OwnToken
  <2>5. AllKeep(handler', OwnToken)
    <3>1. \A h \in Handlers : handler'[h].writes = handler[h].writes
      BY <2>1 DEF Sound, HandlersSound, HandlerSound
    <3>2. QED
      BY <1>0, <3>1 DEF Agreed, AllKeep
  <2>6. QED
    BY <1>0, <2>1, <2>3, <2>4, <2>5 DEF Agreed
<1>4. ASSUME NEW i \in DOMAIN queue, Receive(i)
      PROVE  Agreed'
  <2>1. UNCHANGED <<signing, queue, eims, card>>
    BY <1>4, Zenon DEF Receive
  <2>2. \A h \in Handlers : handler'[h].writes \in {handler[h].writes, <<>>}
    BY <1>4, Zenon DEF Receive, Sound, HandlersSound
  <2>3. AllKeep(handler', OwnToken)
    BY <1>0, <2>2, RangeNone, Zenon DEF Agreed, AllKeep
  <2>4. QED
    BY <1>0, <2>1, <2>3 DEF Agreed, OwnToken
<1>5. ASSUME NEW h \in Handlers, Verify(h) \/ Fail(h) \/ Answer(h)
      PROVE  Agreed'
  <2>1. UNCHANGED <<signing, queue, eims, card>>
    BY <1>5 DEF Verify, Fail, Answer
  <2>2. handler' = Advanced(h, <<>>) \/ handler' = [handler EXCEPT ![h] = Idle]
    BY <1>5 DEF Verify, Fail, Answer
  <2>3. AllKeep(handler, OwnToken)
    BY <1>0 DEF Agreed
  <2>4. AllKeep(Advanced(h, <<>>), OwnToken) /\ AllKeep([handler EXCEPT ![h] = Idle], OwnToken)
    BY <2>3, AdvancedKeeps, IdleKeeps, RangeNone
  <2>5. AllKeep(handler', OwnToken)
    BY <2>2, <2>4
  <2>6. QED
    BY <1>0, <2>1, <2>5, Zenon DEF Agreed, OwnToken
<1>6. ASSUME NEW h \in Handlers, RecordEUICCPackageResult(h)
      PROVE  Agreed'
  <2>1. /\ DOMAIN queue' = DOMAIN queue /\ handler' = Advanced(h, <<>>)
        /\ \A i \in DOMAIN queue : queue'[i].Op = queue[i].Op /\ queue'[i].Token = queue[i].Token
        /\ UNCHANGED <<signing, eims, card>>
    BY <1>6, RecordMeans, Zenon
  <2>2. AllKeep(handler, OwnToken)
    BY <1>0 DEF Agreed
  <2>3. AllKeep(Advanced(h, <<>>), OwnToken)
    BY <2>2, AdvancedKeeps, RangeNone
  <2>4. QED
    BY <1>0, <2>1, <2>3, Zenon DEF Agreed, OwnToken
<1>7. ASSUME NEW h \in Handlers, ReadStore(h)
      PROVE  Agreed'
  <2>1. UNCHANGED <<signing, queue, eims, card>>
    BY <1>7 DEF ReadStore
  <2>2. PICK writes : /\ handler' = Advanced(h, writes)
                      /\ \A w \in Range(writes) : Keeps(w, AssociationTokenForEIM(eims))
    BY <1>0, <1>7, ReadKeeps
  <2>3. AllKeep(handler, OwnToken) /\ AssociationTokenForEIM(eims) = OwnToken
    BY <1>0 DEF Agreed
  <2>4. AllKeep(Advanced(h, writes), OwnToken)
    BY <2>2, <2>3, AdvancedKeeps
  <2>5. QED
    BY <1>0, <2>1, <2>2, <2>4, Zenon DEF Agreed, OwnToken
<1>8. ASSUME NEW h \in Handlers, WriteStore(h)
      PROVE  Agreed'
  <2> DEFINE writes == handler[h].writes
             w == Head(writes)
  <2>1. UNCHANGED <<signing, queue, card>> /\ writes # <<>>
    BY <1>8 DEF WriteStore
  <2>2. eims' = IF w.to = "eims" THEN Written(eims, w) ELSE eims
    BY <1>8 DEF WriteStore
  <2>3. Range(writes) = {w} \cup Range(Tail(writes))
    BY <2>1, RangeTail, Zenon DEF Sound, HandlersSound, HandlerSound, AllTrue
  <2>4. AllKeep(handler, OwnToken) /\ AssociationTokenForEIM(eims) = OwnToken
    BY <1>0 DEF Agreed
  <2>5. Keeps(w, OwnToken) /\ \A x \in Range(Tail(writes)) : Keeps(x, OwnToken)
    BY <2>3, <2>4 DEF AllKeep
  <2>6. handler'[h].writes = Tail(writes) /\ \A g \in Handlers \ {h} : handler'[g].writes = handler[g].writes
    BY <1>8, Zenon DEF WriteStore, Sound, HandlersSound, HandlerSound
  <2> HIDE DEF w, writes
  <2>7. AllKeep(handler', OwnToken)
    BY <2>4, <2>5, <2>6, Zenon DEF AllKeep
  <2>8. AssociationTokenForEIM(eims') = OwnToken
    <3>1. CASE w.to = "eims"
      <4>1. AssociationTokenForEIM(Written(eims, w)) = AssociationTokenForEIM(eims)
        BY <2>4, <2>5, <3>1, WriteKeeps
      <4>2. QED
        BY <2>2, <2>4, <3>1, <4>1
    <3>2. CASE w.to # "eims"
      BY <2>2, <2>4, <3>2
    <3>3. QED
      BY <3>1, <3>2
  <2>9. OwnToken' = OwnToken
    BY <2>1 DEF OwnToken
  <2>10. QED
    BY <1>0, <2>1, <2>7, <2>8, <2>9 DEF Agreed
<1>9. CASE UNCHANGED vars
  BY <1>0, <1>9, Zenon DEF vars, Agreed, OwnToken
<1>10. QED
  BY <1>1, <1>2, <1>3, <1>4, <1>5, <1>6, <1>7, <1>8, <1>9 DEF Next, HandlerStep

LEMMA RefusalsStep == Sound /\ InOrder /\ Settled /\ RefusalsExplained /\ [Next]_vars => RefusalsExplained'
<1> SUFFICES ASSUME Sound, InOrder, Settled, RefusalsExplained, [Next]_vars
             PROVE  RefusalsExplained'
  OBVIOUS
<1> DEFINE Earlier(i) == \E j \in 1..i - 1 : ChangesToken(queue[j].Op)
           LaterEarlier(i) == \E j \in 1..i - 1 : ChangesToken(queue'[j].Op)
<1>0. Executed \subseteq DOMAIN queue /\ \A i \in DOMAIN queue : 1..i - 1 \subseteq DOMAIN queue
  BY SeqDomain DEF Sound, UploadsSound, QueueSound, Executed
<1>1. \A i \in DOMAIN queue : Earlier(i) => LaterEarlier(i)
  BY <1>0, OpsStay
<1>2. \A i \in Executed : uploads[i].refused => Earlier(i)
  BY DEF RefusalsExplained
<1> HIDE DEF Earlier, LaterEarlier
<1>3. ASSUME Executed' = Executed, \A i \in Executed : uploads'[i].refused = uploads[i].refused
      PROVE  RefusalsExplained'
  <2>1. \A i \in Executed' : uploads'[i].refused => LaterEarlier(i)
    BY <1>0, <1>1, <1>2, <1>3, Zenon
  <2>2. QED
    BY <2>1 DEF RefusalsExplained, LaterEarlier
<1>4. CASE uploads' = uploads
  BY <1>3, <1>4 DEF Executed
<1>5. ASSUME NEW h \in Handlers, Answer(h)
      PROVE  RefusalsExplained'
  BY <1>3, <1>5, AnswerMeans, Zenon DEF Executed
<1>6. CASE Execute
  <2>1. /\ Pending # {} /\ Offered \notin Executed /\ queue' = queue
        /\ uploads' = Put(uploads, Offered, TheUpload)
    BY <1>6, ExecuteMeans
  <2>2. /\ Executed' = Executed \cup {Offered} /\ uploads'[Offered] = TheUpload
        /\ \A i \in Executed : uploads'[i] = uploads[i]
    BY <2>1 DEF Executed, Put
  <2>3. TheUpload.refused => TheRefusal
    BY DEF TheUpload
  <2>4. Offered \in DOMAIN queue
    BY <2>1, OfferedIsPending DEF Sound, Pending
  <2>5. ASSUME TheRefusal
        PROVE  Earlier(Offered)
    <3>1. IsPackage(queue[Offered].Op) /\ ~Agreed
      BY <2>4, <2>5 DEF TheRefusal, TheOp, Agreed
    <3>2. PICK k \in Executed : ChangesToken(queue[k].Op)
      BY <3>1 DEF Settled, Calm
    <3>3. IsPackage(queue[k].Op)
      BY <3>2 DEF ChangesToken, IsPackage
    <3>4. k \in Nat \ {0} /\ Offered \in Nat /\ k # Offered
      BY <1>0, <2>1, <2>4, SeqDomain DEF Sound, QueueSound
    <3>5. ~(Offered < k)
      BY <2>1, <2>4, <3>1, <3>3 DEF InOrder
    <3>6. k \in 1..Offered - 1
      BY <3>4, <3>5
    <3>7. QED
      BY <3>2, <3>6 DEF Earlier
  <2>6. \A i \in Executed' : uploads'[i].refused => LaterEarlier(i)
    BY <1>0, <1>1, <1>2, <2>2, <2>3, <2>4, <2>5
  <2>7. QED
    BY <2>6 DEF RefusalsExplained, LaterEarlier
<1>7. QED
  BY <1>4, <1>5, <1>6, Zenon DEF Next, HandlerStep, Sign, Enqueue, Receive, Verify,
     RecordEUICCPackageResult, ReadStore, WriteStore, Fail, vars

(***************************************************************************)
(* The eUICC refuses a package for its token only when a change of that    *)
(* token was queued before it (RefusalsExplained), for any plans and any   *)
(* interleaving, failing and repeating of handlers: the queue is executed  *)
(* in order, so until a change of the token is executed, every token that  *)
(* AssociationTokenForEIM reads and existingAssociationToken writes back   *)
(* is the eUICC's.                                                         *)
(***************************************************************************)
THEOREM NoOtherRefusals == Spec => []RefusalsExplained
<1>1. Init => Sound /\ InOrder /\ Settled /\ RefusalsExplained
  BY SoundInit, SettledInit
<1>2. Sound /\ InOrder /\ Settled /\ RefusalsExplained /\ [Next]_vars
      => (Sound /\ InOrder /\ Settled /\ RefusalsExplained)'
  BY SoundStep, InOrderStep, SettledStep, RefusalsStep
<1>3. QED
  BY <1>1, <1>2, PTL DEF Spec

-----------------------------------------------------------------------------
(***************************************************************************)
(* An inventory under way, with no other request in between: its effect is *)
(* still to come and the last call, or what it has left to write makes the *)
(* rows the eUICC's.                                                       *)
(***************************************************************************)
Mending(w, profiles) ==
  /\ w.to = "rows"
  /\ w.value = <<>> => w.key \notin DOMAIN profiles
  /\ w.value # <<>> => w.key \in DOMAIN profiles /\ w.value[1] = profiles[w.key]

Mended(writes, r, profiles) ==
  /\ \A w \in Range(writes) : Mending(w, profiles)
  /\ \A p \in DOMAIN profiles :
       (p \in DOMAIN r /\ r[p] = profiles[p]) \/ \E w \in Range(writes) : w.key = p
  /\ \A p \in DOMAIN r \ DOMAIN profiles : \E w \in Range(writes) : w.key = p

Lists(op) == op.Kind = "listProfileInfo" \/ "profiles" \in op.Asks

CallsLeft(op) ==
  IF IsPackage(op) THEN {<<"verify", "record", "apply">>, <<"record", "apply">>, <<"apply">>}
  ELSE {<<"record", "state", "sync">>, <<"state", "sync">>, <<"sync">>}

Healed(hd, op, u, r, c) ==
  /\ u.report.profiles = Inventory(c)
  /\ hd.calls \in CallsLeft(op) \/ (hd.calls = <<>> /\ Mended(hd.writes, r, c.profiles))

Listing(hd, op, u) == hd.on # 0 /\ hd.alone /\ u.ok /\ Lists(op)

HealingOf(h) ==
  LET hd == handler[h]
  IN Listing(hd, queue[hd.on].Op, uploads[hd.on]) =>
       Healed(hd, queue[hd.on].Op, uploads[hd.on], rows, card)

Healing == \A h \in Handlers : HealingOf(h)

-----------------------------------------------------------------------------
(* Behind InventoryHeals: what an inventory writes. *)
LEMMA MendedStart ==
  ASSUME NEW c, IsCard(c), NEW r, IsRows(r), NEW writes,
         Range(writes) = Range(syncProfileInventory(r, Inventory(c)))
  PROVE  Mended(writes, r, c.profiles)
<1> DEFINE inv == Inventory(c)
           all == DOMAIN c.profiles
<1>1. IsSeq(inv) /\ Range(inv) = {[ICCID |-> p, Row |-> c.profiles[p]] : p \in all}
  BY InventoryRange, Zenon
<1>2. Range(writes) = {SetProfileState(x.ICCID, x.Row) : x \in Range(inv)}
                      \cup {DeleteProfileState(k) : k \in DOMAIN r \ {x.ICCID : x \in Range(inv)}}
  <2> HIDE DEF inv
  <2>1. QED
    BY <1>1, SyncRange, Zenon DEF inv
<1> HIDE DEF inv, all
<1>12. \A x \in Range(inv) : \E p \in all : x.ICCID = p /\ x.Row = c.profiles[p]
  BY <1>1
<1>13. \A p \in all : \E x \in Range(inv) : x.ICCID = p /\ x.Row = c.profiles[p]
  <2> TAKE p \in all
  <2> DEFINE x == [ICCID |-> p, Row |-> c.profiles[p]]
  <2>1. x \in Range(inv)
    BY <1>1, Zenon
  <2>2. x.ICCID = p /\ x.Row = c.profiles[p]
    OBVIOUS
  <2>3. QED
    BY <2>1, <2>2
<1>3. {x.ICCID : x \in Range(inv)} = all
  BY <1>12, <1>13
<1>4. \A p \in all : SetProfileState(p, c.profiles[p]) \in Range(writes)
  <2> TAKE p \in all
  <2>1. PICK x \in Range(inv) : x.ICCID = p /\ x.Row = c.profiles[p]
    BY <1>13, Zenon
  <2>2. SetProfileState(x.ICCID, x.Row) \in Range(writes)
    BY <1>2, Zenon
  <2>3. QED
    BY <2>1, <2>2, Zenon
<1>5. \A p \in DOMAIN r \ all : DeleteProfileState(p) \in Range(writes)
  BY <1>2, <1>3, Zenon
<1>6. \A w \in Range(writes) :
        \/ \E p \in all : w = SetProfileState(p, c.profiles[p])
        \/ \E p \in DOMAIN r \ all : w = DeleteProfileState(p)
  BY <1>2, <1>3, <1>12
<1>7. \A p, row : /\ SetProfileState(p, row).key = p /\ SetProfileState(p, row).to = "rows"
                  /\ SetProfileState(p, row).value = <<row>>
                  /\ DeleteProfileState(p).key = p /\ DeleteProfileState(p).to = "rows"
                  /\ DeleteProfileState(p).value = <<>>
  BY DEF SetProfileState, DeleteProfileState
<1>8. \A p \in all : Mending(SetProfileState(p, c.profiles[p]), c.profiles)
  BY DEF Mending, SetProfileState, all
<1>9. \A p \in DOMAIN r \ all : Mending(DeleteProfileState(p), c.profiles)
  BY Zenon DEF Mending, DeleteProfileState, all
<1>10. \A w \in Range(writes) : Mending(w, c.profiles)
  BY <1>6, <1>8, <1>9, Zenon
<1>11. QED
  BY <1>4, <1>5, <1>7, <1>10, Zenon DEF Mended, all

LEMMA MendedWrite ==
  ASSUME NEW r, NEW profiles, NEW writes, IsSeq(writes), writes # <<>>, Mended(writes, r, profiles)
  PROVE  /\ Mended(Tail(writes), Written(r, Head(writes)), profiles)
         /\ Head(writes).to = "rows"
<1> DEFINE w == Head(writes)
           rest == Tail(writes)
           n == Written(r, w)
<1>1. Range(writes) = {w} \cup Range(rest)
  BY RangeTail
<1> HIDE DEF w, rest
<1>2. Mending(w, profiles) /\ \A x \in Range(rest) : Mending(x, profiles)
  BY <1>1, Zenon DEF Mended
<1>3. CASE w.value = <<>>
  <2>1. w.key \notin DOMAIN profiles
    BY <1>2, <1>3 DEF Mending
  <2>2. n = Drop(r, w.key)
    BY <1>3 DEF Written
  <2>3. DOMAIN n = DOMAIN r \ {w.key} /\ \A p \in DOMAIN n : n[p] = r[p]
    BY <2>2 DEF Drop, Restrict
  <2> HIDE DEF n
  <2>4. \A p \in DOMAIN profiles : (p \in DOMAIN n /\ n[p] = profiles[p]) \/ \E x \in Range(rest) : x.key = p
    BY <1>1, <2>1, <2>3, Zenon DEF Mended
  <2>5. \A p \in DOMAIN n \ DOMAIN profiles : \E x \in Range(rest) : x.key = p
    BY <1>1, <2>3, Zenon DEF Mended
  <2>6. QED
    BY <1>2, <2>4, <2>5, Zenon DEF Mended, Mending, n, w, rest
<1>4. CASE w.value # <<>>
  <2>1. w.key \in DOMAIN profiles /\ w.value[1] = profiles[w.key]
    BY <1>2, <1>4, Zenon DEF Mending
  <2>2. n = Put(r, w.key, profiles[w.key])
    BY <1>4, <2>1, Zenon DEF Written
  <2>3. DOMAIN n = DOMAIN r \cup {w.key} /\ \A p \in DOMAIN n : n[p] = IF p = w.key THEN profiles[w.key] ELSE r[p]
    BY <2>2, Zenon DEF Put
  <2> HIDE DEF n
  <2>4. \A p \in DOMAIN profiles : (p \in DOMAIN n /\ n[p] = profiles[p]) \/ \E x \in Range(rest) : x.key = p
    BY <1>1, <2>1, <2>3, Zenon DEF Mended
  <2>5. \A p \in DOMAIN n \ DOMAIN profiles : \E x \in Range(rest) : x.key = p
    BY <1>1, <2>1, <2>3, Zenon DEF Mended
  <2>6. QED
    BY <1>2, <2>4, <2>5 DEF Mended, Mending, n, w, rest
<1>5. QED
  BY <1>3, <1>4, Zenon

LEMMA MendedEnd ==
  ASSUME NEW r, NEW profiles, IsRows(r), IsRows(profiles), Mended(<<>>, r, profiles)
  PROVE  r = profiles
<1>1. DOMAIN r = DOMAIN profiles /\ \A p \in DOMAIN profiles : r[p] = profiles[p]
  BY RangeNone, Zenon DEF Mended
<1>2. r \in [DOMAIN r -> Row] /\ profiles \in [DOMAIN profiles -> Row]
  BY DEF IsRows
<1>3. QED
  BY <1>1, <1>2

(* An inventory does not change as long as the profiles do not. *)
LEMMA SameInventory ==
  ASSUME NEW c, NEW d, c.profiles = d.profiles
  PROVE  Inventory(c) = Inventory(d)
BY Zenon DEF Inventory

(* The calls of an inventory that succeeded, one after the other. *)
LEMMA SameSeq ==
  ASSUME NEW R, NEW s \in Seq(R), NEW t \in Seq(R), Len(s) = Len(t), \A i \in 1..Len(s) : s[i] = t[i]
  PROVE  s = t
OBVIOUS

LEMMA JoinOne ==
  ASSUME NEW a, NEW b
  PROVE  <<a>> \o <<b>> = <<a, b>> /\ <<>> \o <<a>> = <<a>>
<1> DEFINE R == {a, b}
<1>1. <<a>> \in Seq(R) /\ <<b>> \in Seq(R) /\ <<>> \in Seq(R) /\ <<a, b>> \in Seq(R)
  OBVIOUS
<1>2. <<a>> \o <<b>> \in Seq(R) /\ Len(<<a>> \o <<b>>) = 2
  BY <1>1
<1>3. (<<a>> \o <<b>>)[1] = a /\ (<<a>> \o <<b>>)[2] = b
  BY <1>1
<1>4. <<>> \o <<a>> = <<a>>
  BY <1>1
<1> DEFINE s == <<a>> \o <<b>>
           t == <<a, b>>
<1>5. s \in Seq(R) /\ Len(s) = 2 /\ s[1] = a /\ s[2] = b
  BY <1>2, <1>3, Zenon
<1>6. t \in Seq(R) /\ Len(t) = 2 /\ t[1] = a /\ t[2] = b
  BY <1>1
<1> HIDE DEF s, t, R
<1>7. s = t
  <2>1. \A i \in 1..Len(s) : s[i] = t[i]
    BY <1>5, <1>6
  <2>2. QED
    BY <1>5, <1>6, <2>1, SameSeq
<1>8. QED
  BY <1>4, <1>7 DEF s, t

LEMMA JoinTwo ==
  ASSUME NEW a, NEW b, NEW c
  PROVE  <<a>> \o <<b, c>> = <<a, b, c>> /\ <<a, b>> \o <<c>> = <<a, b, c>>
<1> DEFINE R == {a, b, c}
<1>1. /\ <<a>> \in Seq(R) /\ <<c>> \in Seq(R) /\ <<a, b>> \in Seq(R)
      /\ <<b, c>> \in Seq(R) /\ <<a, b, c>> \in Seq(R)
  OBVIOUS
<1>2. <<a>> \o <<b, c>> \in Seq(R) /\ Len(<<a>> \o <<b, c>>) = 3
  BY <1>1
<1>3. (<<a>> \o <<b, c>>)[1] = a /\ (<<a>> \o <<b, c>>)[2] = b /\ (<<a>> \o <<b, c>>)[3] = c
  BY <1>1
<1>4. <<a, b>> \o <<c>> \in Seq(R) /\ Len(<<a, b>> \o <<c>>) = 3
  BY <1>1
<1>5. (<<a, b>> \o <<c>>)[1] = a /\ (<<a, b>> \o <<c>>)[2] = b /\ (<<a, b>> \o <<c>>)[3] = c
  BY <1>1
<1> DEFINE s == <<a>> \o <<b, c>>
           t == <<a, b>> \o <<c>>
           v == <<a, b, c>>
<1>6. s \in Seq(R) /\ Len(s) = 3 /\ s[1] = a /\ s[2] = b /\ s[3] = c
  BY <1>2, <1>3, Zenon
<1>7. t \in Seq(R) /\ Len(t) = 3 /\ t[1] = a /\ t[2] = b /\ t[3] = c
  BY <1>4, <1>5, Zenon
<1>8. v \in Seq(R) /\ Len(v) = 3 /\ v[1] = a /\ v[2] = b /\ v[3] = c
  BY <1>1
<1> HIDE DEF s, t, v, R
<1>9. (\A i \in 1..Len(s) : s[i] = v[i]) /\ (\A i \in 1..Len(t) : t[i] = v[i])
  BY <1>6, <1>7, <1>8
<1>10. s = v
  BY <1>6, <1>8, <1>9, SameSeq, Zenon
<1>11. t = v
  BY <1>7, <1>8, <1>9, SameSeq
<1>12. QED
  BY <1>10, <1>11 DEF s, t, v

LEMMA TailLeft ==
  ASSUME NEW op, NEW calls \in CallsLeft(op)
  PROVE  /\ calls # <<>>
         /\ Head(calls) \in {"verify", "record", "state"} => Tail(calls) \in CallsLeft(op)
         /\ Head(calls) = "apply" => IsPackage(op) /\ Tail(calls) = <<>>
         /\ Head(calls) = "sync" => ~IsPackage(op) /\ Tail(calls) = <<>>
<1>1. /\ Tail(<<"verify", "record", "apply">>) = <<"record", "apply">>
      /\ Tail(<<"record", "apply">>) = <<"apply">> /\ Tail(<<"apply">>) = <<>>
  OBVIOUS
<1>2. /\ Tail(<<"record", "state", "sync">>) = <<"state", "sync">>
      /\ Tail(<<"state", "sync">>) = <<"sync">> /\ Tail(<<"sync">>) = <<>>
  OBVIOUS
<1>3. CASE IsPackage(op)
  <2>1. calls \in {<<"verify", "record", "apply">>, <<"record", "apply">>, <<"apply">>}
    BY <1>3 DEF CallsLeft
  <2>2. CASE calls = <<"verify", "record", "apply">>
    BY <1>1, <1>3, <2>2 DEF CallsLeft
  <2>3. CASE calls = <<"record", "apply">>
    BY <1>1, <1>3, <2>3 DEF CallsLeft
  <2>4. CASE calls = <<"apply">>
    BY <1>1, <1>3, <2>4
  <2>5. QED
    BY <2>1, <2>2, <2>3, <2>4, Zenon
<1>4. CASE ~IsPackage(op)
  <2>1. calls \in {<<"record", "state", "sync">>, <<"state", "sync">>, <<"sync">>}
    BY <1>4 DEF CallsLeft
  <2>2. CASE calls = <<"record", "state", "sync">>
    BY <1>2, <1>4, <2>2 DEF CallsLeft
  <2>3. CASE calls = <<"state", "sync">>
    BY <1>2, <1>4, <2>3 DEF CallsLeft
  <2>4. CASE calls = <<"sync">>
    BY <1>2, <1>4, <2>4
  <2>5. QED
    BY <2>1, <2>2, <2>3, <2>4, Zenon
<1>5. QED
  BY <1>3, <1>4, Zenon

LEMMA FirstCalls ==
  ASSUME NEW op, Asked(op), Lists(op), NEW u, u.ok
  PROVE  CallsFor(op, u) \in CallsLeft(op)
<1>1. CASE IsPackage(op)
  <2>1. CallsFor(op, u) = (IF u.refused THEN <<>> ELSE <<"verify">>) \o <<"record">> \o <<"apply">>
    BY <1>1 DEF CallsFor
  <2>2. /\ <<>> \o <<"record">> = <<"record">> /\ <<"record">> \o <<"apply">> = <<"record", "apply">>
        /\ <<"verify">> \o <<"record">> = <<"verify", "record">>
        /\ <<"verify", "record">> \o <<"apply">> = <<"verify", "record", "apply">>
    BY JoinOne, JoinTwo, Zenon
  <2>3. QED
    BY <1>1, <2>1, <2>2, Zenon DEF CallsLeft
<1>2. CASE ~IsPackage(op)
  <2>1. op.Kind = "ipaEuiccData"
    BY <1>2, Zenon DEF Asked, Lists, IsPackage
  <2>2. CallsFor(op, u) = <<"record">> \o <<"state", "sync">>
    BY <1>2, <2>1 DEF CallsFor
  <2>3. <<"record">> \o <<"state", "sync">> = <<"record", "state", "sync">>
    BY JoinTwo, Zenon
  <2>4. QED
    BY <1>2, <2>2, <2>3 DEF CallsLeft
<1>3. QED
  BY <1>1, <1>2

LEMMA HealedKept ==
  ASSUME NEW hd, NEW op, NEW u, NEW r, NEW c, Healed(hd, op, u, r, c),
         NEW he, he.calls = hd.calls, he.writes = hd.writes,
         NEW v, v.report = u.report, NEW d, d.profiles = c.profiles
  PROVE  Healed(he, op, v, r, d)
<1>1. Inventory(d) = Inventory(c)
  BY SameInventory, Zenon
<1>2. QED
  BY <1>1, Zenon DEF Healed

(* The read with which an inventory's effect begins. *)
LEMMA ReadHeals ==
  ASSUME Sound, NEW h \in Handlers, ReadStore(h), handler[h].on # 0,
         LET on == handler[h].on
         IN /\ uploads[on].ok /\ Lists(queue[on].Op) /\ handler[h].calls \in CallsLeft(queue[on].Op)
            /\ uploads[on].report.profiles = Inventory(card)
  PROVE  \E writes :
           /\ handler' = Advanced(h, writes)
           /\ \/ Tail(handler[h].calls) \in CallsLeft(queue[handler[h].on].Op)
              \/ Tail(handler[h].calls) = <<>> /\ Mended(writes, rows, card.profiles)
<1> DEFINE on == handler[h].on
           calls == handler[h].calls
           op == queue[on].Op
           report == uploads[on].report
           sync == syncProfileInventory(rows, Inventory(card))
<1>1. on \in DOMAIN uploads /\ on \in DOMAIN queue
  BY Zenon DEF Sound, HandlersSound, HandlerSound, UploadsSound
<1>2. Asked(op) /\ Lists(op) /\ report.profiles = Inventory(card) /\ report.listed = ("profiles" \in op.Asks)
  BY <1>1, Zenon DEF Sound, QueueSound, UploadsSound
<1>3. IsCard(card) /\ IsRows(rows)
  BY Zenon DEF Sound, ViewSound
<1>4. IsSeq(sync)
  <2>1. IsSeq(Inventory(card))
    BY <1>3, InventoryRange, Zenon
  <2>2. QED
    BY <1>3, <2>1, SyncRange, Zenon
<1>5. calls \in CallsLeft(op)
  BY Zenon
<1>6. \/ handler' = Advanced(h, ApplyPackageResultState(op, report)) /\ Head(calls) = "apply"
      \/ handler' = Advanced(h, <<SetEUICCState(report.state)>>) /\ Head(calls) = "state"
      \/ handler' = Advanced(h, syncDataInventory(report)) /\ Head(calls) = "sync"
  BY Zenon DEF ReadStore, Calling
<1> HIDE DEF calls, op, report, sync, on
<1>7. CASE handler' = Advanced(h, ApplyPackageResultState(op, report)) /\ Head(calls) = "apply"
  <2>1. IsPackage(op) /\ Tail(calls) = <<>>
    BY <1>5, <1>7, TailLeft, Zenon
  <2>2. op.Kind = "listProfileInfo"
    BY <1>2, <2>1, Zenon DEF Asked, Lists, IsPackage
  <2>3. applyPSMOState(op, rows, state, report) = sync
    BY <1>2, <2>2 DEF applyPSMOState, sync
  <2>4. applyECOState(op, eims, report) = <<>>
    BY <2>2 DEF applyECOState
  <2>5. ApplyPackageResultState(op, report) = sync \o <<>>
    BY <2>3, <2>4, Zenon DEF ApplyPackageResultState
  <2>6. Range(sync \o <<>>) = Range(sync)
    <3>1. Range(sync \o <<>>) = Range(sync) \cup Range(<<>>)
      BY <1>4, RangeNone, RangeJoin, Zenon
    <3>2. QED
      BY <3>1, RangeNone, Zenon
  <2> DEFINE writes == ApplyPackageResultState(op, report)
  <2>7. Range(writes) = Range(syncProfileInventory(rows, Inventory(card)))
    BY <2>5, <2>6, Zenon DEF sync
  <2> HIDE DEF writes
  <2>8. Mended(writes, rows, card.profiles)
    BY <1>3, <2>7, MendedStart, Zenon
  <2>9. handler' = Advanced(h, writes)
    BY <1>7, Zenon DEF writes
  <2>10. QED
    BY <2>1, <2>8, <2>9, Zenon DEF calls, op, on
<1>8. CASE handler' = Advanced(h, <<SetEUICCState(report.state)>>) /\ Head(calls) = "state"
  <2>1. Tail(calls) \in CallsLeft(op)
    BY <1>5, <1>8, TailLeft, Zenon
  <2>2. QED
    BY <1>8, <2>1, Zenon DEF calls, op, on
<1>9. CASE handler' = Advanced(h, syncDataInventory(report)) /\ Head(calls) = "sync"
  <2>1. ~IsPackage(op) /\ Tail(calls) = <<>>
    BY <1>5, <1>9, TailLeft, Zenon
  <2>2. "profiles" \in op.Asks
    BY <1>2, <2>1, Zenon DEF Lists, IsPackage
  <2>3. syncDataInventory(report) = sync
    BY <1>2, <2>2, Zenon DEF syncDataInventory, sync
  <2>4. Range(sync) = Range(syncProfileInventory(rows, Inventory(card)))
    BY Zenon DEF sync
  <2>5. Mended(sync, rows, card.profiles)
    BY <1>3, <2>4, MendedStart, Zenon
  <2>6. QED
    BY <1>9, <2>1, <2>3, <2>5, Zenon DEF calls, op, on
<1>10. QED
  BY <1>6, <1>7, <1>8, <1>9, Zenon

(* What a step leaves of an inventory under way. *)
LEMMA HealingKept ==
  ASSUME Sound, NEW h \in Handlers, HealingOf(h), rows' = rows,
         handler'[h].on = handler[h].on, handler'[h].calls = handler[h].calls,
         handler'[h].writes = handler[h].writes,
         handler'[h].alone => handler[h].alone /\ card'.profiles = card.profiles,
         \A i \in DOMAIN uploads :
           queue'[i].Op = queue[i].Op /\ uploads'[i].ok = uploads[i].ok /\ uploads'[i].report = uploads[i].report
  PROVE  HealingOf(h)'
<1> DEFINE on == handler[h].on
           op == queue[on].Op
<1> SUFFICES ASSUME Listing(handler'[h], queue'[on].Op, uploads'[on])
             PROVE  Healed(handler'[h], queue'[on].Op, uploads'[on], rows', card')
  BY Zenon DEF HealingOf
<1>1. on # 0 /\ handler'[h].alone /\ uploads'[on].ok /\ Lists(queue'[on].Op)
  BY Zenon DEF Listing
<1>2. on \in DOMAIN uploads
  BY <1>1, Zenon DEF Sound, HandlersSound, HandlerSound
<1>3. queue'[on].Op = op /\ uploads'[on].ok = uploads[on].ok /\ uploads'[on].report = uploads[on].report
  BY <1>2, Zenon
<1>4. Listing(handler[h], op, uploads[on])
  BY <1>1, <1>3, Zenon DEF Listing
<1>5. Healed(handler[h], op, uploads[on], rows, card) /\ card'.profiles = card.profiles
  BY <1>1, <1>4, Zenon DEF HealingOf
<1> HIDE DEF op, on
<1>6. Healed(handler'[h], op, uploads'[on], rows, card')
  BY <1>3, <1>5, HealedKept, Zenon
<1>7. QED
  BY <1>3, <1>6, Zenon

LEMMA HealingAway ==
  ASSUME NEW h, handler'[h].on = 0 \/ ~handler'[h].alone
  PROVE  HealingOf(h)'
BY Zenon DEF HealingOf, Listing

(* What the handler's own call leaves of its inventory. *)
CallLeaves(h, writes) ==
  LET on == handler[h].on
  IN /\ uploads[on].ok /\ Lists(queue[on].Op) /\ handler[h].calls \in CallsLeft(queue[on].Op)
     /\ uploads[on].report.profiles = Inventory(card)
     => \/ Tail(handler[h].calls) \in CallsLeft(queue[on].Op)
        \/ Tail(handler[h].calls) = <<>> /\ Mended(writes, rows, card.profiles)

LEMMA HealingCall ==
  ASSUME Sound, NEW h \in Handlers, HealingOf(h), NEW writes, handler' = Advanced(h, writes),
         Busy(h), handler[h].calls # <<>>, rows' = rows, card' = card, uploads' = uploads,
         \A i \in DOMAIN uploads : queue'[i].Op = queue[i].Op,
         CallLeaves(h, writes)
  PROVE  HealingOf(h)'
<1> DEFINE on == handler[h].on
           op == queue[on].Op
<1>1. /\ handler'[h].on = on /\ handler'[h].alone = handler[h].alone
      /\ handler'[h].calls = Tail(handler[h].calls) /\ handler'[h].writes = writes
  BY AdvancedFields
<1>2. on # 0 /\ on \in DOMAIN uploads
  BY Zenon DEF Busy, Sound, HandlersSound, HandlerSound
<1>3. queue'[on].Op = op
  BY <1>2, Zenon
<1> SUFFICES ASSUME Listing(handler'[h], op, uploads[on])
             PROVE  Healed(handler'[h], op, uploads[on], rows, card)
  BY <1>1, <1>3, Zenon DEF HealingOf
<1>4. Listing(handler[h], op, uploads[on]) /\ uploads[on].ok /\ Lists(op)
  BY <1>1, <1>2, Zenon DEF Listing
<1>5. Healed(handler[h], op, uploads[on], rows, card)
  BY <1>4, Zenon DEF HealingOf
<1>6. handler[h].calls \in CallsLeft(op) /\ uploads[on].report.profiles = Inventory(card)
  BY <1>5, Zenon DEF Healed
<1>7. \/ Tail(handler[h].calls) \in CallsLeft(op)
      \/ Tail(handler[h].calls) = <<>> /\ Mended(writes, rows, card.profiles)
  BY <1>4, <1>6, Zenon DEF CallLeaves
<1> HIDE DEF on, op
<1>8. QED
  BY <1>1, <1>6, <1>7, Zenon DEF Healed

LEMMA HealingExecute ==
  ASSUME Sound, Execute, NEW h \in Handlers, HealingOf(h)
  PROVE  HealingOf(h)'
<1>1. /\ card' = TheCard /\ rows' = rows /\ queue' = queue /\ Offered \notin DOMAIN uploads
      /\ uploads' = Put(uploads, Offered, TheUpload)
  BY ExecuteMeans DEF Executed
<1>2. handler'[h] = [handler[h] EXCEPT !.alone = handler[h].alone /\ TheCard.profiles = card.profiles]
  BY ExecuteMeans
<1>3. DOMAIN handler[h] = {"on", "calls", "writes", "alone"}
  BY Zenon DEF Sound, HandlersSound, HandlerSound
<1>4. /\ handler'[h].on = handler[h].on /\ handler'[h].calls = handler[h].calls
      /\ handler'[h].writes = handler[h].writes
  BY <1>2, <1>3
<1>5. handler'[h].alone => handler[h].alone /\ card'.profiles = card.profiles
  BY <1>1, <1>2, <1>3, Zenon
<1>6. \A i \in DOMAIN uploads : uploads'[i] = uploads[i]
  BY <1>1 DEF Put
<1>7. QED
  BY <1>1, <1>4, <1>5, <1>6, HealingKept, Zenon

LEMMA HealingReceive ==
  ASSUME Sound, NEW i \in DOMAIN queue, Receive(i), NEW h \in Handlers, HealingOf(h)
  PROVE  HealingOf(h)'
<1> DEFINE free == CHOOSE g \in Handlers : ~Busy(g)
           b == (\A g \in Handlers : ~Busy(g)) /\ uploads[i].report.profiles = Inventory(card)
           new == [on |-> i, calls |-> CallsFor(queue[i].Op, uploads[i]), writes |-> <<>>, alone |-> b]
<1>1. UNCHANGED <<queue, rows, card, uploads>> /\ i \in DOMAIN uploads
  BY Zenon DEF Receive, Unacknowledged, Executed
<1>2. handler' = [handler EXCEPT ![free] = new]
  BY Zenon DEF Receive
<1>3. CASE h = free
  <2>1. handler'[h] = new
    BY <1>2, <1>3, Zenon DEF Sound, HandlersSound
  <2>2. new.on = i /\ new.calls = CallsFor(queue[i].Op, uploads[i]) /\ (new.alone => b)
    BY Zenon
  <2> HIDE DEF new, free
  <2> SUFFICES ASSUME Listing(new, queue[i].Op, uploads[i])
               PROVE  Healed(new, queue[i].Op, uploads[i], rows, card)
    BY <1>1, <2>1, <2>2, Zenon DEF HealingOf
  <2>3. b /\ uploads[i].ok /\ Lists(queue[i].Op)
    BY <2>2 DEF Listing
  <2>4. Asked(queue[i].Op)
    BY Zenon DEF Sound, QueueSound
  <2>5. new.calls \in CallsLeft(queue[i].Op)
    BY <2>2, <2>3, <2>4, FirstCalls, Zenon
  <2>6. QED
    BY <2>3, <2>5, Zenon DEF Healed
<1>4. CASE h # free
  <2> HIDE DEF new, free
  <2>1. handler'[h] = handler[h]
    BY <1>2, <1>4 DEF Sound, HandlersSound
  <2>2. QED
    BY <1>1, <2>1, HealingKept, Zenon
<1>5. QED
  BY <1>3, <1>4

(* Verify and RecordEUICCPackageResult, of the handler itself or another. *)
LEMMA HealingCalls ==
  ASSUME Sound, NEW g \in Handlers, NEW h \in Handlers, HealingOf(h), handler' = Advanced(g, <<>>),
         Busy(g), handler[g].calls # <<>>, Head(handler[g].calls) \in {"verify", "record"},
         rows' = rows, card' = card, uploads' = uploads,
         \A i \in DOMAIN uploads : queue'[i].Op = queue[i].Op
  PROVE  HealingOf(h)'
<1>1. CASE g = h
  <2>1. \A op : handler[h].calls \in CallsLeft(op) => Tail(handler[h].calls) \in CallsLeft(op)
    BY <1>1, TailLeft, Zenon
  <2>2. CallLeaves(h, <<>>)
    BY <2>1, Zenon DEF CallLeaves
  <2>3. handler' = Advanced(h, <<>>) /\ Busy(h) /\ handler[h].calls # <<>>
    BY <1>1, Zenon
  <2>4. QED
    BY <2>2, <2>3, HealingCall, Zenon
<1>2. CASE g # h
  <2>1. h \in Handlers \ {g} /\ ~Advanced(g, <<>>)[h].alone
    BY <1>2, AdvancedFields, Zenon
  <2>2. QED
    BY <2>1, HealingAway, Zenon
<1>3. QED
  BY <1>1, <1>2, Zenon

LEMMA HealingIdle ==
  ASSUME Sound, NEW g \in Handlers, NEW h \in Handlers, HealingOf(h), handler' = [handler EXCEPT ![g] = Idle],
         rows' = rows, card' = card, queue' = queue,
         \A i \in DOMAIN uploads : uploads'[i].ok = uploads[i].ok /\ uploads'[i].report = uploads[i].report
  PROVE  HealingOf(h)'
<1>1. CASE g = h
  <2>1. handler'[h].on = 0
    BY <1>1, Zenon DEF Idle, Sound, HandlersSound
  <2>2. QED
    BY <2>1, HealingAway, Zenon
<1>2. CASE g # h
  <2>1. handler'[h] = handler[h]
    BY <1>2, Zenon DEF Sound, HandlersSound
  <2>2. QED
    BY <2>1, HealingKept, Zenon
<1>3. QED
  BY <1>1, <1>2, Zenon

LEMMA HealingRead ==
  ASSUME Sound, NEW g \in Handlers, ReadStore(g), NEW h \in Handlers, HealingOf(h)
  PROVE  HealingOf(h)'
<1>1. UNCHANGED <<queue, rows, card, uploads>> /\ Busy(g) /\ handler[g].calls # <<>>
  BY Zenon DEF ReadStore, Calling
<1>2. PICK any : handler' = Advanced(g, any)
  BY Zenon DEF ReadStore
<1>3. CASE g = h
  <2>1. \E writes : handler' = Advanced(h, writes) /\ CallLeaves(h, writes)
    <3> DEFINE on == handler[h].on
               goes == /\ uploads[on].ok /\ Lists(queue[on].Op) /\ handler[h].calls \in CallsLeft(queue[on].Op)
                       /\ uploads[on].report.profiles = Inventory(card)
    <3>1. CASE goes
      <4>1. PICK writes :
              /\ handler' = Advanced(h, writes)
              /\ \/ Tail(handler[h].calls) \in CallsLeft(queue[on].Op)
                 \/ Tail(handler[h].calls) = <<>> /\ Mended(writes, rows, card.profiles)
        BY <1>1, <1>3, <3>1, ReadHeals, Zenon DEF Busy
      <4>2. CallLeaves(h, writes)
        BY <4>1, Zenon DEF CallLeaves
      <4>3. QED
        BY <4>1, <4>2, Zenon
    <3>2. CASE ~goes
      <4>1. CallLeaves(h, any)
        BY <3>2, Zenon DEF CallLeaves
      <4>2. QED
        BY <1>2, <1>3, <4>1, Zenon
    <3>3. QED
      BY <3>1, <3>2, Zenon
  <2>2. PICK writes : handler' = Advanced(h, writes) /\ CallLeaves(h, writes)
    BY <2>1
  <2>3. /\ Busy(h) /\ handler[h].calls # <<>> /\ rows' = rows /\ card' = card /\ uploads' = uploads
        /\ \A i \in DOMAIN uploads : queue'[i].Op = queue[i].Op
    BY <1>1, <1>3, Zenon
  <2>4. QED
    BY <2>2, <2>3, HealingCall, Zenon
<1>4. CASE g # h
  <2>1. h \in Handlers \ {g} /\ ~Advanced(g, any)[h].alone
    BY <1>4, AdvancedFields, Zenon
  <2>2. QED
    BY <1>2, <2>1, HealingAway, Zenon
<1>5. QED
  BY <1>3, <1>4

LEMMA HealingWrite ==
  ASSUME Sound, NEW g \in Handlers, WriteStore(g), NEW h \in Handlers, HealingOf(h)
  PROVE  HealingOf(h)'
<1> DEFINE on == handler[h].on
           op == queue[on].Op
           writes == handler[h].writes
           new == [handler[h] EXCEPT !.writes = Tail(writes)]
<1>0. \A k \in Handlers : DOMAIN handler[k] = {"on", "calls", "writes", "alone"}
  BY Zenon DEF Sound, HandlersSound, HandlerSound
<1>1. CASE g = h
  <2>1. writes # <<>> /\ UNCHANGED <<queue, card, uploads>> /\ handler'[h] = new
    BY <1>1 DEF WriteStore
  <2>2. rows' = IF Head(writes).to = "rows" THEN Written(rows, Head(writes)) ELSE rows
    BY <1>1 DEF WriteStore
  <2>3. new.on = on /\ new.calls = handler[h].calls /\ new.alone = handler[h].alone /\ new.writes = Tail(writes)
    BY <1>0
  <2>4. IsSeq(writes)
    BY Zenon DEF Sound, HandlersSound, HandlerSound, AllTrue
  <2> HIDE DEF new
  <2> SUFFICES ASSUME Listing(new, op, uploads[on])
               PROVE  Healed(new, op, uploads[on], rows', card)
    BY <2>1, <2>3, Zenon DEF HealingOf
  <2>5. Listing(handler[h], op, uploads[on])
    BY <2>3, Zenon DEF Listing
  <2>6. Healed(handler[h], op, uploads[on], rows, card)
    BY <2>5, Zenon DEF HealingOf
  <2>7. uploads[on].report.profiles = Inventory(card)
    BY <2>6, Zenon DEF Healed
  <2>8. CASE handler[h].calls \in CallsLeft(op)
    BY <2>3, <2>7, <2>8, Zenon DEF Healed
  <2>9. CASE handler[h].calls = <<>> /\ Mended(writes, rows, card.profiles)
    <3> HIDE DEF writes
    <3>1. /\ Mended(Tail(writes), Written(rows, Head(writes)), card.profiles)
          /\ Head(writes).to = "rows"
      BY <2>1, <2>4, <2>9, MendedWrite, Zenon
    <3>2. QED
      BY <2>2, <2>3, <2>7, <2>9, <3>1, Zenon DEF Healed
  <2>10. QED
    BY <2>6, <2>8, <2>9, Zenon DEF Healed
<1>2. CASE g # h
  <2>1. handler'[h] = [handler[h] EXCEPT !.alone = FALSE]
    BY <1>2 DEF WriteStore
  <2>2. ~handler'[h].alone
    BY <1>0, <2>1
  <2>3. QED
    BY <2>2, HealingAway, Zenon
<1>3. QED
  BY <1>1, <1>2

LEMMA HealingStep == Sound /\ Healing /\ [Next]_vars => Healing'
<1> SUFFICES ASSUME Sound, Healing, [Next]_vars, NEW h \in Handlers
             PROVE  HealingOf(h)'
  BY DEF Healing
<1>0. HealingOf(h)
  BY DEF Healing
<1>1. CASE Sign \/ UNCHANGED vars
  <2>1. UNCHANGED <<queue, rows, card, uploads, handler>>
    BY <1>1, Zenon DEF Sign, vars
  <2>2. QED
    BY <1>0, <2>1, HealingKept, Zenon
<1>2. CASE Enqueue
  <2>1. UNCHANGED <<rows, card, uploads, handler>> /\ \A i \in DOMAIN queue : queue'[i] = queue[i]
    BY <1>2, EnqueueMeans, Zenon
  <2>2. \A i \in DOMAIN uploads : queue'[i].Op = queue[i].Op
    BY <2>1, Zenon DEF Sound, UploadsSound
  <2>3. QED
    BY <1>0, <2>1, <2>2, HealingKept, Zenon
<1>3. CASE Execute
  BY <1>0, <1>3, HealingExecute
<1>4. ASSUME NEW i \in DOMAIN queue, Receive(i)
      PROVE  HealingOf(h)'
  BY <1>0, <1>4, HealingReceive
<1>5. ASSUME NEW g \in Handlers, Verify(g)
      PROVE  HealingOf(h)'
  <2>1. /\ UNCHANGED <<queue, rows, card, uploads>> /\ Busy(g) /\ handler[g].calls # <<>>
        /\ Head(handler[g].calls) \in {"verify", "record"}
    BY <1>5, Zenon DEF Verify, Calling
  <2>2. handler' = Advanced(g, <<>>) \/ handler' = [handler EXCEPT ![g] = Idle]
    BY <1>5, Zenon DEF Verify
  <2>3. CASE handler' = Advanced(g, <<>>)
    BY <1>0, <2>1, <2>3, HealingCalls, Zenon
  <2>4. CASE handler' = [handler EXCEPT ![g] = Idle]
    BY <1>0, <2>1, <2>4, HealingIdle, Zenon
  <2>5. QED
    BY <2>2, <2>3, <2>4
<1>6. ASSUME NEW g \in Handlers, RecordEUICCPackageResult(g)
      PROVE  HealingOf(h)'
  <2>1. /\ Busy(g) /\ handler[g].calls # <<>> /\ Head(handler[g].calls) \in {"verify", "record"}
    BY <1>6 DEF RecordEUICCPackageResult, Calling
  <2>2. /\ handler' = Advanced(g, <<>>) /\ UNCHANGED <<rows, card, uploads>>
        /\ \A i \in DOMAIN queue : queue'[i].Op = queue[i].Op
    BY <1>6, RecordMeans, Zenon
  <2>3. \A i \in DOMAIN uploads : queue'[i].Op = queue[i].Op
    BY <2>2, Zenon DEF Sound, UploadsSound
  <2>4. QED
    BY <1>0, <2>1, <2>2, <2>3, HealingCalls, Zenon
<1>7. ASSUME NEW g \in Handlers, ReadStore(g)
      PROVE  HealingOf(h)'
  BY <1>0, <1>7, HealingRead
<1>8. ASSUME NEW g \in Handlers, WriteStore(g)
      PROVE  HealingOf(h)'
  BY <1>0, <1>8, HealingWrite
<1>9. ASSUME NEW g \in Handlers, Answer(g)
      PROVE  HealingOf(h)'
  <2>1. /\ handler' = [handler EXCEPT ![g] = Idle] /\ UNCHANGED <<queue, rows, card>>
        /\ \A i \in DOMAIN uploads : uploads'[i].ok = uploads[i].ok /\ uploads'[i].report = uploads[i].report
    BY <1>9, AnswerMeans, Zenon
  <2>2. QED
    BY <1>0, <2>1, HealingIdle, Zenon
<1>10. ASSUME NEW g \in Handlers, Fail(g)
       PROVE  HealingOf(h)'
  <2>1. handler' = [handler EXCEPT ![g] = Idle] /\ UNCHANGED <<queue, rows, card, uploads>>
    BY <1>10, Zenon DEF Fail
  <2>2. QED
    BY <1>0, <2>1, HealingIdle, Zenon
<1>11. QED
  BY <1>1, <1>2, <1>3, <1>4, <1>5, <1>6, <1>7, <1>8, <1>9, <1>10, Zenon DEF Next, HandlerStep

(***************************************************************************)
(* An inventory handled with no other request in between, while what it    *)
(* reports is still true, leaves exactly the eUICC's profiles and marks    *)
(* (InventoryHeals), for any number of profiles and whatever the rows held *)
(* before: the writes that syncProfileInventory has left at any moment     *)
(* mend every row that is wrong and break none.                            *)
(***************************************************************************)
THEOREM InventoriesHeal == Spec => []InventoryHeals
<1>1. Init => Healing
  <2> SUFFICES ASSUME Init, NEW h \in Handlers
               PROVE  HealingOf(h)
    BY DEF Healing
  <2>1. handler[h].on = 0
    BY Zenon DEF Init, Idle
  <2>2. QED
    BY <2>1, Zenon DEF HealingOf, Listing
<1>2. Sound /\ Healing => InventoryHeals
  <2> SUFFICES ASSUME Sound, Healing, NEW h \in Handlers, Finished(h), handler[h].alone,
                      uploads[handler[h].on].ok, Lists(queue[handler[h].on].Op)
               PROVE  rows = card.profiles
    BY Zenon DEF InventoryHeals, Lists
  <2> DEFINE on == handler[h].on
             op == queue[on].Op
  <2>1. on # 0 /\ handler[h].calls = <<>> /\ handler[h].writes = <<>>
    BY Zenon DEF Finished, Busy
  <2>2. Healed(handler[h], op, uploads[on], rows, card)
    BY <2>1, Zenon DEF Healing, HealingOf, Listing
  <2>3. handler[h].calls \notin CallsLeft(op)
    BY <2>1, TailLeft, Zenon
  <2>4. Mended(<<>>, rows, card.profiles)
    BY <2>1, <2>2, <2>3, Zenon DEF Healed
  <2>5. QED
    BY <2>4, MendedEnd, Zenon DEF Sound, ViewSound, IsCard
<1>3. QED
  BY <1>1, <1>2, SoundInit, SoundStep, HealingStep, PTL DEF Spec
=============================================================================
