---------------------- MODULE PackageEffectsFollowing -----------------------
(***************************************************************************)
(* In-order handling keeps the eIM's view of an eUICC right, for every     *)
(* plan, every eUICC and any number of handlers and failures.              *)
(***************************************************************************)
EXTENDS PackageEffectsProofs

-----------------------------------------------------------------------------
(***************************************************************************)
(* Behind ViewFollows: while results are handled one at a time and in      *)
(* order, what the view has wrong is what the result under way will put    *)
(* right, and every write left to make is right.                           *)
(***************************************************************************)
RowOf(r, p) == IF p \in DOMAIN r THEN r[p] ELSE NoRow
RowRight(row, on) == row.IsFallback = on.IsFallback /\ (on.IsEnabled => row.IsEnabled)
HasAddress(s) == s # <<>> => "Address" \in DOMAIN s[1]
AddressRight(s, c) == HasAddress(s) /\ (s # <<>> => s[1].Address \in {<<>>, c.address})

WrongRows(r, c) ==
  {p \in DOMAIN c.profiles : ~RowRight(RowOf(r, p), c.profiles[p])} \cup (DOMAIN r \ DOMAIN c.profiles)
WrongEims(a, c) ==
  {e \in DOMAIN c.eims : e \notin DOMAIN a \/ a[e] # c.eims[e]} \cup (DOMAIN a \ DOMAIN c.eims)

Follows(r, s, a, c) == WrongRows(r, c) = {} /\ AddressRight(s, c) /\ WrongEims(a, c) = {}

RowWriteRight(w, c) ==
  /\ w.value = <<>> => w.key \notin DOMAIN c.profiles
  /\ w.value # <<>> => w.key \in DOMAIN c.profiles /\ RowRight(w.value[1], c.profiles[w.key])
EimWriteRight(w, c) ==
  /\ w.value = <<>> => w.key \notin DOMAIN c.eims
  /\ w.value # <<>> => w.key \in DOMAIN c.eims /\ w.value[1] = c.eims[w.key]
Right(w, c) ==
  /\ w.to = "rows" => RowWriteRight(w, c)
  /\ w.to = "state" => AddressRight(w.value, c)
  /\ w.to = "eims" => EimWriteRight(w, c)

Complete(writes, r, s, a, c) ==
  /\ \A p \in WrongRows(r, c) : \E w \in Range(writes) : w.to = "rows" /\ w.key = p
  /\ AddressRight(s, c) \/ \E w \in Range(writes) : w.to = "state"
  /\ \A e \in WrongEims(a, c) : \E w \in Range(writes) : w.to = "eims" /\ w.key = e

(* The eUICC has carried the operation out. *)
Done(op, c) ==
  /\ op.Kind \in {"enable", "disable", "setFallbackAttribute"} => op.ICCID \in DOMAIN c.profiles
  /\ op.Kind = "disable" => ~c.profiles[op.ICCID].IsEnabled
  /\ op.Kind = "delete" => op.ICCID \notin DOMAIN c.profiles
  /\ op.Kind = "setFallbackAttribute" =>
       \A p \in DOMAIN c.profiles : c.profiles[p].IsFallback = (p = op.ICCID)
  /\ op.Kind = "unsetFallbackAttribute" => \A p \in DOMAIN c.profiles : ~c.profiles[p].IsFallback
  /\ op.Kind = "setDefaultDpAddress" => c.address = <<op.Address>>
  /\ op.Kind \in {"addEim", "updateEim"} => op.EimID \in DOMAIN c.eims
  /\ op.Kind = "addEim" => c.eims[op.EimID] = <<NewToken>>
  /\ op.Kind = "updateEim" /\ op.Token # <<>> => c.eims[op.EimID] = op.Token
  /\ op.Kind = "deleteEim" => op.EimID \notin DOMAIN c.eims

(* What its result may still have to put right. *)
NearRows(op, r, c) ==
  /\ op.Kind \in {"setFallbackAttribute", "unsetFallbackAttribute"} =>
       /\ DOMAIN r \subseteq DOMAIN c.profiles
       /\ \A p \in DOMAIN c.profiles : c.profiles[p].IsEnabled => RowOf(r, p).IsEnabled
  /\ op.Kind \in {"enable", "delete"} => WrongRows(r, c) \subseteq {op.ICCID}
  /\ op.Kind = "enable" => RowOf(r, op.ICCID).IsFallback = c.profiles[op.ICCID].IsFallback
  /\ op.Kind \notin {"setFallbackAttribute", "unsetFallbackAttribute", "enable", "delete"} =>
       WrongRows(r, c) = {}

NearEims(op, a, c) ==
  WrongEims(a, c) \subseteq IF \/ op.Kind \in {"addEim", "deleteEim"}
                               \/ op.Kind = "updateEim" /\ op.Token # <<>> THEN {op.EimID} ELSE {}

Near(op, r, s, a, c) ==
  /\ NearRows(op, r, c) /\ NearEims(op, a, c) /\ HasAddress(s)
  /\ op.Kind # "setDefaultDpAddress" => AddressRight(s, c)

OneAtATime ==
  /\ \A i, j \in Unacknowledged : i = j
  /\ \A g, h \in Handlers : Busy(g) /\ Busy(h) => g = h
  /\ \A h \in Handlers : Busy(h) => handler[h].on \in Unacknowledged

UploadNear(op, u, r, s, a, c) ==
  /\ u.report = ReportOf(c, op)
  /\ u.ok => Near(op, r, s, a, c) /\ Done(op, c)
  /\ ~u.ok => Follows(r, s, a, c)

HandlerNear(hd, r, s, a, c) ==
  /\ \A w \in Range(hd.writes) : Right(w, c)
  /\ "apply" \in Range(hd.calls) \/ Complete(hd.writes, r, s, a, c)

InStep ==
  /\ OneAtATime
  /\ Unacknowledged = {} => Follows(rows, state, eims, card)
  /\ \A i \in Unacknowledged : UploadNear(queue[i].Op, uploads[i], rows, state, eims, card)
  /\ \A h \in Handlers : Busy(h) => HandlerNear(handler[h], rows, state, eims, card)

Following == exact => InStep

LEMMA WrittenAt ==
  ASSUME NEW f, NEW w
  PROVE  /\ w.value = <<>> => /\ DOMAIN Written(f, w) = DOMAIN f \ {w.key}
                              /\ \A k \in DOMAIN f \ {w.key} : Written(f, w)[k] = f[k]
         /\ w.value # <<>> => /\ DOMAIN Written(f, w) = DOMAIN f \cup {w.key}
                              /\ Written(f, w)[w.key] = w.value[1]
                              /\ \A k \in DOMAIN f \ {w.key} : Written(f, w)[k] = f[k]
<1>1. CASE w.value = <<>>
  <2>1. Written(f, w) = Drop(f, w.key)
    BY <1>1 DEF Written
  <2>2. QED
    BY <1>1, <2>1 DEF Drop, Restrict
<1>2. CASE w.value # <<>>
  <2>1. Written(f, w) = Put(f, w.key, w.value[1])
    BY <1>2 DEF Written
  <2>2. QED
    BY <1>2, <2>1 DEF Put
<1>3. QED
  BY <1>1, <1>2

LEMMA RowWritten ==
  ASSUME NEW r, NEW c, NEW w, RowWriteRight(w, c)
  PROVE  /\ \A p : p # w.key => RowOf(Written(r, w), p) = RowOf(r, p)
         /\ DOMAIN Written(r, w) \subseteq DOMAIN r \cup DOMAIN c.profiles
         /\ w.value # <<>> => RowOf(Written(r, w), w.key) = w.value[1]
         /\ WrongRows(Written(r, w), c) \subseteq WrongRows(r, c) \ {w.key}
<1> DEFINE n == Written(r, w)
<1>1. CASE w.value = <<>>
  <2>1. DOMAIN n = DOMAIN r \ {w.key} /\ \A k \in DOMAIN r \ {w.key} : n[k] = r[k]
    BY <1>1, WrittenAt, Zenon
  <2>2. w.key \notin DOMAIN c.profiles
    BY <1>1 DEF RowWriteRight
  <2> HIDE DEF n
  <2>3. \A p : p # w.key => RowOf(n, p) = RowOf(r, p)
    BY <2>1 DEF RowOf
  <2>4. WrongRows(n, c) \subseteq WrongRows(r, c) \ {w.key}
    BY <2>1, <2>2, <2>3 DEF WrongRows
  <2>5. QED
    BY <1>1, <2>1, <2>3, <2>4 DEF n
<1>2. CASE w.value # <<>>
  <2>1. /\ DOMAIN n = DOMAIN r \cup {w.key} /\ n[w.key] = w.value[1]
        /\ \A k \in DOMAIN r \ {w.key} : n[k] = r[k]
    BY <1>2, WrittenAt, Zenon
  <2>2. w.key \in DOMAIN c.profiles /\ RowRight(w.value[1], c.profiles[w.key])
    BY <1>2 DEF RowWriteRight
  <2> HIDE DEF n
  <2>3. RowOf(n, w.key) = w.value[1] /\ \A p : p # w.key => RowOf(n, p) = RowOf(r, p)
    BY <2>1 DEF RowOf
  <2>4. WrongRows(n, c) \subseteq WrongRows(r, c) \ {w.key}
    BY <2>1, <2>2, <2>3 DEF WrongRows
  <2>5. QED
    BY <1>2, <2>1, <2>2, <2>3, <2>4 DEF n
<1>3. QED
  BY <1>1, <1>2

LEMMA EimWritten ==
  ASSUME NEW a, NEW c, NEW w, EimWriteRight(w, c)
  PROVE  WrongEims(Written(a, w), c) \subseteq WrongEims(a, c) \ {w.key}
<1> DEFINE n == Written(a, w)
<1>1. CASE w.value = <<>>
  <2>1. DOMAIN n = DOMAIN a \ {w.key} /\ \A k \in DOMAIN a \ {w.key} : n[k] = a[k]
    BY <1>1, WrittenAt, Zenon
  <2>2. w.key \notin DOMAIN c.eims
    BY <1>1 DEF EimWriteRight
  <2> HIDE DEF n
  <2>3. WrongEims(n, c) \subseteq WrongEims(a, c) \ {w.key}
    BY <2>1, <2>2 DEF WrongEims
  <2>4. QED
    BY <2>3 DEF n
<1>2. CASE w.value # <<>>
  <2>1. /\ DOMAIN n = DOMAIN a \cup {w.key} /\ n[w.key] = w.value[1]
        /\ \A k \in DOMAIN a \ {w.key} : n[k] = a[k]
    BY <1>2, WrittenAt, Zenon
  <2>2. w.key \in DOMAIN c.eims /\ w.value[1] = c.eims[w.key]
    BY <1>2 DEF EimWriteRight
  <2> HIDE DEF n
  <2>3. WrongEims(n, c) \subseteq WrongEims(a, c) \ {w.key}
    BY <2>1, <2>2 DEF WrongEims
  <2>4. QED
    BY <2>3 DEF n
<1>3. QED
  BY <1>1, <1>2

(* The view after a write. *)
RowsAfter(r, w) == IF w.to = "rows" THEN Written(r, w) ELSE r
StateAfter(s, w) == IF w.to = "state" THEN w.value ELSE s
EimsAfter(a, w) == IF w.to = "eims" THEN Written(a, w) ELSE a

LEMMA RightKeepsNear ==
  ASSUME NEW op, NEW r, NEW s, NEW a, NEW c, Near(op, r, s, a, c), Done(op, c),
         NEW w, Right(w, c)
  PROVE  Near(op, RowsAfter(r, w), StateAfter(s, w), EimsAfter(a, w), c)
<1>1. NearRows(op, RowsAfter(r, w), c)
  <2>1. CASE w.to # "rows"
    BY <2>1 DEF RowsAfter, Near
  <2>2. CASE w.to = "rows"
    <3> DEFINE n == Written(r, w)
    <3>1. RowWriteRight(w, c) /\ NearRows(op, r, c) /\ RowsAfter(r, w) = n
      BY <2>2 DEF Right, Near, RowsAfter
    <3>2. /\ \A p : p # w.key => RowOf(n, p) = RowOf(r, p)
          /\ DOMAIN n \subseteq DOMAIN r \cup DOMAIN c.profiles
          /\ w.value # <<>> => RowOf(n, w.key) = w.value[1]
          /\ WrongRows(n, c) \subseteq WrongRows(r, c) \ {w.key}
      BY <3>1, RowWritten
    <3> HIDE DEF n
    <3>3. \A p \in DOMAIN c.profiles : p = w.key => RowRight(RowOf(n, p), c.profiles[p])
      BY <3>1, <3>2 DEF RowWriteRight
    <3>4. CASE op.Kind \in {"setFallbackAttribute", "unsetFallbackAttribute"}
      <4>1. \A p \in DOMAIN c.profiles : c.profiles[p].IsEnabled => RowOf(n, p).IsEnabled
        BY <3>1, <3>2, <3>3, <3>4 DEF NearRows, RowRight
      <4>2. QED
        BY <3>1, <3>2, <3>4, <4>1, Zenon DEF NearRows
    <3>5. CASE op.Kind = "enable"
      <4>1. op.ICCID \in DOMAIN c.profiles
        BY <3>5 DEF Done
      <4>2. RowOf(n, op.ICCID).IsFallback = c.profiles[op.ICCID].IsFallback
        BY <3>1, <3>2, <3>3, <3>5, <4>1, Zenon DEF NearRows, RowRight
      <4>3. QED
        BY <3>1, <3>2, <3>5, <4>2 DEF NearRows
    <3>6. CASE op.Kind \notin {"setFallbackAttribute", "unsetFallbackAttribute", "enable"}
      BY <3>1, <3>2, <3>6 DEF NearRows
    <3>7. QED
      BY <3>4, <3>5, <3>6
  <2>3. QED
    BY <2>1, <2>2
<1>2. NearEims(op, EimsAfter(a, w), c)
  <2>1. CASE w.to # "eims"
    BY <2>1 DEF EimsAfter, Near
  <2>2. CASE w.to = "eims"
    <3>1. WrongEims(Written(a, w), c) \subseteq WrongEims(a, c) \ {w.key}
      BY <2>2, EimWritten DEF Right
    <3>2. QED
      BY <2>2, <3>1 DEF EimsAfter, Near, NearEims
  <2>3. QED
    BY <2>1, <2>2
<1>3. /\ op.Kind # "setDefaultDpAddress" => AddressRight(StateAfter(s, w), c)
      /\ HasAddress(StateAfter(s, w))
  BY DEF StateAfter, Near, Right, AddressRight
<1>4. QED
  BY <1>1, <1>2, <1>3 DEF Near

LEMMA RightKeepsComplete ==
  ASSUME NEW writes, IsSeq(writes), writes # <<>>, NEW r, NEW s, NEW a, NEW c,
         Complete(writes, r, s, a, c), Right(Head(writes), c)
  PROVE  LET w == Head(writes)
         IN Complete(Tail(writes), RowsAfter(r, w), StateAfter(s, w), EimsAfter(a, w), c)
<1> DEFINE w == Head(writes)
           rest == Tail(writes)
<1>1. Range(writes) = {w} \cup Range(rest)
  BY RangeTail
<1>2. Right(w, c)
  OBVIOUS
<1> HIDE DEF w, rest
<1>3. \A p \in WrongRows(RowsAfter(r, w), c) : \E x \in Range(rest) : x.to = "rows" /\ x.key = p
  <2>1. CASE w.to = "rows"
    <3>1. WrongRows(Written(r, w), c) \subseteq WrongRows(r, c) \ {w.key}
      BY <1>2, <2>1, RowWritten DEF Right
    <3>2. QED
      BY <1>1, <2>1, <3>1 DEF RowsAfter, Complete
  <2>2. CASE w.to # "rows"
    BY <1>1, <2>2 DEF RowsAfter, Complete
  <2>3. QED
    BY <2>1, <2>2
<1>4. \A e \in WrongEims(EimsAfter(a, w), c) : \E x \in Range(rest) : x.to = "eims" /\ x.key = e
  <2>1. CASE w.to = "eims"
    <3>1. WrongEims(Written(a, w), c) \subseteq WrongEims(a, c) \ {w.key}
      BY <1>2, <2>1, EimWritten DEF Right
    <3>2. QED
      BY <1>1, <2>1, <3>1 DEF EimsAfter, Complete
  <2>2. CASE w.to # "eims"
    BY <1>1, <2>2 DEF EimsAfter, Complete
  <2>3. QED
    BY <2>1, <2>2
<1>5. AddressRight(StateAfter(s, w), c) \/ \E x \in Range(rest) : x.to = "state"
  BY <1>1, <1>2 DEF StateAfter, Complete, Right
<1>6. QED
  BY <1>3, <1>4, <1>5 DEF Complete, w, rest

LEMMA CompleteEnd ==
  ASSUME NEW r, NEW s, NEW a, NEW c
  PROVE  /\ Complete(<<>>, r, s, a, c) => Follows(r, s, a, c)
         /\ Follows(r, s, a, c) => \A writes : Complete(writes, r, s, a, c)
BY RangeNone DEF Complete, Follows

(* What writes that are right leave right stays right. *)
LEMMA RightKeepsFollows ==
  ASSUME NEW r, NEW s, NEW a, NEW c, Follows(r, s, a, c), NEW w, Right(w, c)
  PROVE  Follows(RowsAfter(r, w), StateAfter(s, w), EimsAfter(a, w), c)
<1>1. WrongRows(RowsAfter(r, w), c) = {}
  BY RowWritten DEF RowsAfter, Right, Follows
<1>2. WrongEims(EimsAfter(a, w), c) = {}
  BY EimWritten DEF EimsAfter, Right, Follows
<1>3. AddressRight(StateAfter(s, w), c)
  BY DEF StateAfter, Right, Follows
<1>4. QED
  BY <1>1, <1>2, <1>3 DEF Follows

(* The card after an operation, field by field. *)
LEMMA AfterFields ==
  ASSUME NEW c, IsCard(c), NEW op
  PROVE  /\ op.Kind \notin {"enable", "disable", "delete", "setFallbackAttribute",
                            "unsetFallbackAttribute", "profileDownload"} =>
              After(c, op).profiles = c.profiles
         /\ op.Kind = "enable" => After(c, op).profiles = Switched(c, op.ICCID)
         /\ op.Kind = "disable" => After(c, op).profiles =
              Put(c.profiles, op.ICCID, [c.profiles[op.ICCID] EXCEPT !.IsEnabled = FALSE])
         /\ op.Kind = "delete" => After(c, op).profiles = Drop(c.profiles, op.ICCID)
         /\ op.Kind = "setFallbackAttribute" => After(c, op).profiles = Marked(c, op.ICCID)
         /\ op.Kind = "unsetFallbackAttribute" => After(c, op).profiles = Unmarked(c)
         /\ op.Kind = "profileDownload" => After(c, op).profiles = Put(c.profiles, op.ICCID, NoRow)
         /\ op.Kind = "setDefaultDpAddress" => After(c, op).address = <<op.Address>>
         /\ op.Kind # "setDefaultDpAddress" => After(c, op).address = c.address
         /\ op.Kind = "addEim" => After(c, op).eims = Put(c.eims, op.EimID, <<NewToken>>)
         /\ op.Kind = "deleteEim" => After(c, op).eims = Drop(c.eims, op.EimID)
         /\ op.Kind \notin {"addEim", "deleteEim"} /\ ~(op.Kind = "updateEim" /\ op.Token # <<>>) =>
              After(c, op).eims = c.eims
<1>0. DOMAIN c = {"profiles", "address", "eims", "info"}
  BY DEF IsCard
<1> DEFINE n == After(c, op)
<1>1. CASE op.Kind \in {"enable", "disable", "delete", "setFallbackAttribute", "unsetFallbackAttribute",
                        "profileDownload"}
  <2>1. n.address = c.address /\ n.eims = c.eims
    BY <1>0, <1>1 DEF After
  <2>2. CASE op.Kind \in {"enable", "disable", "delete"}
    BY <1>0, <2>1, <2>2, Zenon DEF After
  <2>3. CASE op.Kind \in {"setFallbackAttribute", "unsetFallbackAttribute", "profileDownload"}
    BY <1>0, <2>1, <2>3, Zenon DEF After
  <2>4. QED
    BY <1>1, <2>2, <2>3
<1>2. CASE op.Kind \in {"setDefaultDpAddress", "addEim", "updateEim", "deleteEim"}
  BY <1>0, <1>2, Zenon DEF After
<1>3. CASE op.Kind \notin {"enable", "disable", "delete", "setFallbackAttribute", "unsetFallbackAttribute",
                           "profileDownload", "setDefaultDpAddress", "addEim", "updateEim", "deleteEim"}
  BY <1>0, <1>3, Zenon DEF After
<1>4. QED
  BY <1>1, <1>2, <1>3

LEMMA AfterUpdate ==
  ASSUME NEW c, IsCard(c), NEW op, op.Kind = "updateEim", op.Token # <<>>
  PROVE  After(c, op).eims = Put(c.eims, op.EimID, op.Token)
<1>1. After(c, op) = [c EXCEPT !.eims = Put(c.eims, op.EimID, op.Token)]
  BY DEF After
<1>2. QED
  BY <1>1 DEF IsCard

LEMMA AfterNearRows ==
  ASSUME NEW r, NEW c, IsCard(c), NEW op, Can(c, op), WrongRows(r, c) = {}
  PROVE  NearRows(op, r, After(c, op))
<1> DEFINE n == After(c, op)
<1>1. DOMAIN r \subseteq DOMAIN c.profiles /\ \A p \in DOMAIN c.profiles : RowRight(RowOf(r, p), c.profiles[p])
  BY DEF WrongRows
<1>2. CASE op.Kind = "enable"
  <2>1. n.profiles = Switched(c, op.ICCID)
    BY <1>2, AfterFields
  <2>2. /\ DOMAIN n.profiles = DOMAIN c.profiles
        /\ \A p \in DOMAIN c.profiles :
             n.profiles[p].IsEnabled = (p = op.ICCID) /\ n.profiles[p].IsFallback = c.profiles[p].IsFallback
    BY <2>1, SwitchedRows
  <2>3. op.ICCID \in DOMAIN c.profiles
    BY <1>2 DEF Can
  <2> HIDE DEF n
  <2>4. WrongRows(r, n) \subseteq {op.ICCID}
    BY <1>1, <2>2, Zenon DEF WrongRows, RowRight
  <2>5. RowOf(r, op.ICCID).IsFallback = n.profiles[op.ICCID].IsFallback
    BY <1>1, <2>2, <2>3 DEF RowRight
  <2>6. NearRows(op, r, n)
    BY <1>2, <2>4, <2>5 DEF NearRows
  <2>7. QED
    BY <2>6 DEF n
<1>3. CASE op.Kind = "disable"
  <2>1. n.profiles = Put(c.profiles, op.ICCID, [c.profiles[op.ICCID] EXCEPT !.IsEnabled = FALSE])
    BY <1>3, AfterFields
  <2>2. op.ICCID \in DOMAIN c.profiles
    BY <1>3 DEF Can
  <2>3. c.profiles[op.ICCID] \in Row
    BY <2>2 DEF IsCard, IsRows
  <2>4. /\ DOMAIN n.profiles = DOMAIN c.profiles
        /\ \A p \in DOMAIN c.profiles : p # op.ICCID => n.profiles[p] = c.profiles[p]
        /\ n.profiles[op.ICCID] = [c.profiles[op.ICCID] EXCEPT !.IsEnabled = FALSE]
    BY <2>1, <2>2 DEF Put
  <2>5. /\ ~n.profiles[op.ICCID].IsEnabled
        /\ n.profiles[op.ICCID].IsFallback = c.profiles[op.ICCID].IsFallback
    BY <2>3, <2>4 DEF Row
  <2> HIDE DEF n
  <2>6. WrongRows(r, n) = {}
    BY <1>1, <2>4, <2>5 DEF WrongRows, RowRight
  <2>7. NearRows(op, r, n)
    BY <1>3, <2>6 DEF NearRows
  <2>8. QED
    BY <2>7 DEF n
<1>4. CASE op.Kind = "delete"
  <2>1. n.profiles = Drop(c.profiles, op.ICCID)
    BY <1>4, AfterFields
  <2>2. /\ DOMAIN n.profiles = DOMAIN c.profiles \ {op.ICCID}
        /\ \A p \in DOMAIN n.profiles : n.profiles[p] = c.profiles[p]
    BY <2>1 DEF Drop, Restrict
  <2> HIDE DEF n
  <2>3. WrongRows(r, n) \subseteq {op.ICCID}
    BY <1>1, <2>2 DEF WrongRows
  <2>4. NearRows(op, r, n)
    BY <1>4, <2>3 DEF NearRows
  <2>5. QED
    BY <2>4 DEF n
<1>5. CASE op.Kind \in {"setFallbackAttribute", "unsetFallbackAttribute"}
  <2>1. /\ DOMAIN n.profiles = DOMAIN c.profiles
        /\ \A p \in DOMAIN c.profiles : n.profiles[p].IsEnabled = c.profiles[p].IsEnabled
    <3>1. CASE op.Kind = "setFallbackAttribute"
      <4>1. n.profiles = Marked(c, op.ICCID)
        BY <3>1, AfterFields, Zenon
      <4>2. QED
        BY <4>1, MarkedRows
    <3>2. CASE op.Kind = "unsetFallbackAttribute"
      <4>1. n.profiles = Unmarked(c)
        BY <3>2, AfterFields, Zenon
      <4>2. QED
        BY <4>1, UnmarkedRows
    <3>3. QED
      BY <1>5, <3>1, <3>2
  <2> HIDE DEF n
  <2>2. NearRows(op, r, n)
    BY <1>1, <1>5, <2>1, Zenon DEF NearRows, RowRight
  <2>3. QED
    BY <2>2 DEF n
<1>6. CASE op.Kind = "profileDownload"
  <2>1. n.profiles = Put(c.profiles, op.ICCID, NoRow)
    BY <1>6, AfterFields, Zenon
  <2>2. op.ICCID \notin DOMAIN c.profiles
    BY <1>6 DEF Can
  <2>3. /\ DOMAIN n.profiles = DOMAIN c.profiles \cup {op.ICCID}
        /\ \A p \in DOMAIN c.profiles : n.profiles[p] = c.profiles[p]
        /\ n.profiles[op.ICCID] = NoRow
    BY <2>1, <2>2, Zenon DEF Put
  <2> HIDE DEF n
  <2>4. RowRight(RowOf(r, op.ICCID), n.profiles[op.ICCID])
    BY <1>1, <2>2, <2>3, Zenon DEF RowOf, RowRight, NoRow
  <2>5. WrongRows(r, n) = {}
    BY <1>1, <2>3, <2>4, Zenon DEF WrongRows
  <2>6. NearRows(op, r, n)
    BY <1>6, <2>5 DEF NearRows
  <2>7. QED
    BY <2>6 DEF n
<1>7. CASE op.Kind \notin {"enable", "disable", "delete", "setFallbackAttribute",
                           "unsetFallbackAttribute", "profileDownload"}
  <2>1. n.profiles = c.profiles
    BY <1>7, AfterFields, Zenon
  <2> HIDE DEF n
  <2>2. WrongRows(r, n) = {}
    BY <2>1 DEF WrongRows
  <2>3. NearRows(op, r, n)
    BY <1>7, <2>2 DEF NearRows
  <2>4. QED
    BY <2>3 DEF n
<1>8. QED
  BY <1>2, <1>3, <1>4, <1>5, <1>6, <1>7

LEMMA AfterNearEims ==
  ASSUME NEW a, NEW c, IsCard(c), NEW op, WrongEims(a, c) = {}
  PROVE  NearEims(op, a, After(c, op))
<1> DEFINE n == After(c, op)
<1>1. DOMAIN a = DOMAIN c.eims /\ \A e \in DOMAIN a : a[e] = c.eims[e]
  BY Zenon DEF WrongEims
<1>2. ASSUME \/ op.Kind \in {"addEim", "deleteEim"}
             \/ op.Kind = "updateEim" /\ op.Token # <<>>
      PROVE  NearEims(op, a, n)
  <2>1. /\ DOMAIN c.eims \ {op.EimID} = DOMAIN n.eims \ {op.EimID}
        /\ \A e \in DOMAIN c.eims \ {op.EimID} : n.eims[e] = c.eims[e]
    <3>1. CASE op.Kind = "addEim"
      <4>1. n.eims = Put(c.eims, op.EimID, <<NewToken>>)
        BY <3>1, AfterFields, Zenon
      <4> HIDE DEF n
      <4>2. QED
        BY <4>1, Zenon DEF Put
    <3>2. CASE op.Kind = "updateEim" /\ op.Token # <<>>
      <4>1. n.eims = Put(c.eims, op.EimID, op.Token)
        BY <3>2, AfterUpdate
      <4> HIDE DEF n
      <4>2. QED
        BY <4>1 DEF Put
    <3>3. CASE op.Kind = "deleteEim"
      <4>1. n.eims = Drop(c.eims, op.EimID)
        BY <3>3, AfterFields
      <4> HIDE DEF n
      <4>2. QED
        BY <4>1 DEF Drop, Restrict
    <3>4. QED
      BY <1>2, <3>1, <3>2, <3>3, Zenon
  <2> HIDE DEF n
  <2>2. WrongEims(a, n) \subseteq {op.EimID}
    BY <1>1, <2>1 DEF WrongEims
  <2>3. QED
    BY <1>2, <2>2 DEF NearEims
<1>3. ASSUME op.Kind \notin {"addEim", "deleteEim"}, ~(op.Kind = "updateEim" /\ op.Token # <<>>)
      PROVE  NearEims(op, a, n)
  <2>1. n.eims = c.eims
    BY <1>3, AfterFields, Zenon
  <2> HIDE DEF n
  <2>2. WrongEims(a, n) = {}
    BY <2>1 DEF WrongEims
  <2>3. QED
    BY <2>2 DEF NearEims
<1>4. QED
  BY <1>2, <1>3

LEMMA AfterDone ==
  ASSUME NEW c, IsCard(c), NEW op, Can(c, op)
  PROVE  Done(op, After(c, op))
<1> DEFINE n == After(c, op)
<1>1. CASE op.Kind = "enable"
  <2>1. n.profiles = Switched(c, op.ICCID) /\ op.ICCID \in DOMAIN c.profiles
    BY <1>1, AfterFields, Zenon DEF Can
  <2>2. op.ICCID \in DOMAIN n.profiles
    BY <2>1, SwitchedRows
  <2> HIDE DEF n
  <2>3. Done(op, n)
    BY <1>1, <2>2, Zenon DEF Done
  <2>4. QED
    BY <2>3 DEF n
<1>2. CASE op.Kind = "disable"
  <2>1. /\ n.profiles = Put(c.profiles, op.ICCID, [c.profiles[op.ICCID] EXCEPT !.IsEnabled = FALSE])
        /\ op.ICCID \in DOMAIN c.profiles
    BY <1>2, AfterFields DEF Can
  <2>2. c.profiles[op.ICCID] \in Row
    BY <2>1 DEF IsCard, IsRows
  <2> HIDE DEF n
  <2>3. op.ICCID \in DOMAIN n.profiles
        /\ n.profiles[op.ICCID] = [c.profiles[op.ICCID] EXCEPT !.IsEnabled = FALSE]
    BY <2>1 DEF Put
  <2>4. ~n.profiles[op.ICCID].IsEnabled
    BY <2>2, <2>3 DEF Row
  <2>5. Done(op, n)
    BY <1>2, <2>3, <2>4 DEF Done
  <2>6. QED
    BY <2>5 DEF n
<1>3. CASE op.Kind = "delete"
  <2>1. n.profiles = Drop(c.profiles, op.ICCID)
    BY <1>3, AfterFields, Zenon
  <2> HIDE DEF n
  <2>2. op.ICCID \notin DOMAIN n.profiles
    BY <2>1 DEF Drop, Restrict
  <2>3. Done(op, n)
    BY <1>3, <2>2 DEF Done
  <2>4. QED
    BY <2>3 DEF n
<1>4. CASE op.Kind = "setFallbackAttribute"
  <2>1. n.profiles = Marked(c, op.ICCID) /\ op.ICCID \in DOMAIN c.profiles
    BY <1>4, AfterFields, Zenon DEF Can
  <2>2. /\ DOMAIN n.profiles = DOMAIN c.profiles
        /\ \A p \in DOMAIN c.profiles : n.profiles[p].IsFallback = (p = op.ICCID)
    BY <2>1, MarkedRows
  <2> HIDE DEF n
  <2>3. Done(op, n)
    BY <1>4, <2>1, <2>2 DEF Done
  <2>4. QED
    BY <2>3 DEF n
<1>5. CASE op.Kind = "unsetFallbackAttribute"
  <2>1. n.profiles = Unmarked(c)
    BY <1>5, AfterFields, Zenon
  <2>2. \A p \in DOMAIN n.profiles : ~n.profiles[p].IsFallback
    BY <2>1, UnmarkedRows
  <2> HIDE DEF n
  <2>3. Done(op, n)
    BY <1>5, <2>2 DEF Done
  <2>4. QED
    BY <2>3 DEF n
<1>6. CASE op.Kind = "setDefaultDpAddress"
  BY <1>6, AfterFields DEF Done
<1>7. CASE op.Kind = "addEim"
  <2>1. n.eims = Put(c.eims, op.EimID, <<NewToken>>)
    BY <1>7, AfterFields, Zenon
  <2> HIDE DEF n
  <2>2. op.EimID \in DOMAIN n.eims /\ n.eims[op.EimID] = <<NewToken>>
    BY <2>1 DEF Put
  <2>3. Done(op, n)
    BY <1>7, <2>2 DEF Done
  <2>4. QED
    BY <2>3 DEF n
<1>8. CASE op.Kind = "updateEim"
  <2>1. op.EimID \in DOMAIN c.eims
    BY <1>8 DEF Can
  <2>2. CASE op.Token # <<>>
    <3>1. n.eims = Put(c.eims, op.EimID, op.Token)
      BY <1>8, <2>2, AfterUpdate
    <3> HIDE DEF n
    <3>2. op.EimID \in DOMAIN n.eims /\ n.eims[op.EimID] = op.Token
      BY <3>1 DEF Put
    <3>3. Done(op, n)
      BY <1>8, <3>2 DEF Done
    <3>4. QED
      BY <3>3 DEF n
  <2>3. CASE op.Token = <<>>
    <3>1. n.eims = c.eims
      BY <1>8, <2>3, AfterFields, Zenon
    <3> HIDE DEF n
    <3>2. Done(op, n)
      BY <1>8, <2>1, <2>3, <3>1 DEF Done
    <3>3. QED
      BY <3>2 DEF n
  <2>4. QED
    BY <2>2, <2>3
<1>9. CASE op.Kind = "deleteEim"
  <2>1. n.eims = Drop(c.eims, op.EimID)
    BY <1>9, AfterFields
  <2> HIDE DEF n
  <2>2. op.EimID \notin DOMAIN n.eims
    BY <2>1 DEF Drop, Restrict
  <2>3. Done(op, n)
    BY <1>9, <2>2 DEF Done
  <2>4. QED
    BY <2>3 DEF n
<1>10. CASE op.Kind \notin {"enable", "disable", "delete", "setFallbackAttribute", "unsetFallbackAttribute",
                            "setDefaultDpAddress", "addEim", "updateEim", "deleteEim"}
  BY <1>10, Zenon DEF Done
<1>11. QED
  BY <1>1, <1>2, <1>3, <1>4, <1>5, <1>6, <1>7, <1>8, <1>9, <1>10

(* An operation disturbs no more than its result will put right. *)
LEMMA AfterNear ==
  ASSUME NEW r, NEW s, NEW a, NEW c, IsCard(c), NEW op, Can(c, op), Follows(r, s, a, c)
  PROVE  Near(op, r, s, a, After(c, op)) /\ Done(op, After(c, op))
<1>1. NearRows(op, r, After(c, op)) /\ NearEims(op, a, After(c, op)) /\ Done(op, After(c, op))
  BY AfterNearRows, AfterNearEims, AfterDone DEF Follows
<1>2. HasAddress(s) /\ (op.Kind # "setDefaultDpAddress" => AddressRight(s, After(c, op)))
  BY AfterFields, Zenon DEF Follows, AddressRight
<1>3. QED
  BY <1>1, <1>2 DEF Near

-----------------------------------------------------------------------------
(* Writes that are right, and put right the rows, the address, the eIMs. *)
AllRight(ws, c) == IsSeq(ws) /\ \A w \in Range(ws) : Right(w, c)
RowMet(ws, k) == \E w \in Range(ws) : w.to = "rows" /\ w.key = k
RowsMet(ws, r, c) == \A p \in WrongRows(r, c) : \E w \in Range(ws) : w.to = "rows" /\ w.key = p
AddressMet(ws, s, c) == AddressRight(s, c) \/ \E w \in Range(ws) : w.to = "state"
EimsMet(ws, a, c) == \A e \in WrongEims(a, c) : \E w \in Range(ws) : w.to = "eims" /\ w.key = e

LEMMA RowWriteFields ==
  ASSUME NEW k, NEW row, NEW c
  PROVE  /\ SetProfileState(k, row).to = "rows" /\ SetProfileState(k, row).key = k
         /\ DeleteProfileState(k).to = "rows" /\ DeleteProfileState(k).key = k
         /\ k \in DOMAIN c.profiles /\ RowRight(row, c.profiles[k]) => Right(SetProfileState(k, row), c)
         /\ k \notin DOMAIN c.profiles => Right(DeleteProfileState(k), c)
BY Zenon DEF SetProfileState, DeleteProfileState, Right, RowWriteRight

LEMMA EimWriteFields ==
  ASSUME NEW k, NEW token, NEW c
  PROVE  /\ SetAssociatedEIM(k, token).to = "eims" /\ SetAssociatedEIM(k, token).key = k
         /\ DeleteAssociatedEIM(k).to = "eims" /\ DeleteAssociatedEIM(k).key = k
         /\ k \in DOMAIN c.eims /\ token = c.eims[k] => Right(SetAssociatedEIM(k, token), c)
         /\ k \notin DOMAIN c.eims => Right(DeleteAssociatedEIM(k), c)
BY Zenon DEF SetAssociatedEIM, DeleteAssociatedEIM, Right, EimWriteRight

LEMMA StateWriteFields ==
  ASSUME NEW s, NEW c
  PROVE  /\ SetEUICCState(s).to = "state"
         /\ AddressRight(<<s>>, c) => Right(SetEUICCState(s), c)
BY DEF SetEUICCState, Right

LEMMA OneRight ==
  ASSUME NEW w, NEW c, Right(w, c)
  PROVE  AllRight(<<w>>, c) /\ w \in Range(<<w>>)
BY RangeOne DEF AllRight

LEMMA NoneRight ==
  ASSUME NEW c
  PROVE  AllRight(<<>>, c)
BY RangeNone DEF AllRight

LEMMA SyncRight ==
  ASSUME NEW r, IsRows(r), NEW c, IsCard(c)
  PROVE  AllRight(syncProfileInventory(r, Inventory(c)), c)
<1> DEFINE inv == Inventory(c)
<1>1. IsSeq(inv) /\ Range(inv) = {[ICCID |-> p, Row |-> c.profiles[p]] : p \in DOMAIN c.profiles}
  BY InventoryRange, Zenon
<1>2. \A x \in Range(inv) : x.ICCID \in DOMAIN c.profiles /\ x.Row = c.profiles[x.ICCID]
  BY <1>1
<1>3. \A p \in DOMAIN c.profiles : p \in {x.ICCID : x \in Range(inv)}
  <2> TAKE p \in DOMAIN c.profiles
  <2> DEFINE x == [ICCID |-> p, Row |-> c.profiles[p]]
  <2>1. x \in Range(inv) /\ x.ICCID = p
    BY <1>1
  <2> HIDE DEF x, inv
  <2>2. QED
    BY <2>1, Zenon
<1> HIDE DEF inv
<1>4. /\ IsSeq(syncProfileInventory(r, inv))
      /\ Range(syncProfileInventory(r, inv)) =
           {SetProfileState(x.ICCID, x.Row) : x \in Range(inv)}
           \cup {DeleteProfileState(k) : k \in DOMAIN r \ {x.ICCID : x \in Range(inv)}}
  BY <1>1, SyncRange, Zenon
<1>5. \A x \in Range(inv) : Right(SetProfileState(x.ICCID, x.Row), c)
  <2> TAKE x \in Range(inv)
  <2>1. x.ICCID \in DOMAIN c.profiles /\ RowRight(x.Row, c.profiles[x.ICCID])
    BY <1>2 DEF RowRight
  <2>2. QED
    BY <2>1, RowWriteFields, Zenon
<1>6. \A k \in DOMAIN r \ {x.ICCID : x \in Range(inv)} : Right(DeleteProfileState(k), c)
  BY <1>3, RowWriteFields, Zenon
<1>7. AllRight(syncProfileInventory(r, inv), c)
  BY <1>4, <1>5, <1>6 DEF AllRight
<1>8. QED
  BY <1>7 DEF inv

LEMMA EnabledRight ==
  ASSUME NEW r, IsRows(r), NEW c, NEW k \in DOMAIN c.profiles, NEW on \in BOOLEAN,
         RowOf(r, k).IsFallback = c.profiles[k].IsFallback, c.profiles[k].IsEnabled => on
  PROVE  /\ AllRight(setProfileEnabled(r, k, on), c)
         /\ RowMet(setProfileEnabled(r, k, on), k)
<1> DEFINE row == RowOf(r, k)
           new == [row EXCEPT !.IsEnabled = on]
<1>1. row \in Row /\ row.IsFallback = c.profiles[k].IsFallback
  BY Zenon DEF IsRows, RowOf, NoRow, Row
<1>2. setProfileEnabled(r, k, on) = <<SetProfileState(k, new)>>
  BY DEF setProfileEnabled, RowOf
<1> HIDE DEF row
<1>3. new.IsEnabled = on /\ new.IsFallback = row.IsFallback
  BY <1>1 DEF Row
<1> HIDE DEF new
<1>4. RowRight(new, c.profiles[k])
  BY <1>1, <1>3 DEF RowRight
<1>5. Right(SetProfileState(k, new), c) /\ SetProfileState(k, new).to = "rows" /\ SetProfileState(k, new).key = k
  BY <1>4, RowWriteFields
<1>6. AllRight(<<SetProfileState(k, new)>>, c) /\ SetProfileState(k, new) \in Range(<<SetProfileState(k, new)>>)
  BY <1>5, OneRight, Zenon
<1>7. RowMet(<<SetProfileState(k, new)>>, k)
  BY <1>5, <1>6, Zenon DEF RowMet
<1>8. QED
  BY <1>2, <1>6, <1>7, Zenon

LEMMA FallbackRight ==
  ASSUME NEW r, IsRows(r), NEW c, NEW op, op.Kind = "setFallbackAttribute", NearRows(op, r, c), Done(op, c)
  PROVE  LET ws == setProfileFallback(r, op.ICCID) IN AllRight(ws, c) /\ RowsMet(ws, r, c)
<1> DEFINE k == op.ICCID
           ws == setProfileFallback(r, k)
           new == SetProfileState(k, [NoRow EXCEPT !.IsFallback = TRUE])
<1>1. /\ DOMAIN r \subseteq DOMAIN c.profiles
      /\ \A p \in DOMAIN c.profiles : c.profiles[p].IsEnabled => RowOf(r, p).IsEnabled
  BY Zenon DEF NearRows
<1>2. k \in DOMAIN c.profiles /\ \A p \in DOMAIN c.profiles : c.profiles[p].IsFallback = (p = k)
  BY Zenon DEF Done
<1> HIDE DEF k
<1>3. /\ IsSeq(ws)
      /\ Range(ws) = {Moved(r, k)[p] : p \in Misplaced(r, k)} \cup (IF k \in DOMAIN r THEN {} ELSE {new})
  BY FallbackRange, Zenon
<1>4. \A p \in Misplaced(r, k) :
        Right(Moved(r, k)[p], c) /\ Moved(r, k)[p].to = "rows" /\ Moved(r, k)[p].key = p
  <2> TAKE p \in Misplaced(r, k)
  <2> DEFINE row == [r[p] EXCEPT !.IsFallback = (p = k)]
  <2>1. p \in DOMAIN r /\ p \in DOMAIN c.profiles /\ r[p] \in Row /\ RowOf(r, p) = r[p]
    BY <1>1 DEF Misplaced, RowOf, IsRows
  <2>2. Moved(r, k)[p] = SetProfileState(p, row)
    BY <2>1 DEF Moved
  <2>3. row.IsEnabled = r[p].IsEnabled /\ row.IsFallback = (p = k)
    BY <2>1 DEF Row
  <2> HIDE DEF row
  <2>4. RowRight(row, c.profiles[p])
    BY <1>1, <1>2, <2>1, <2>3, Zenon DEF RowRight
  <2>5. QED
    BY <2>1, <2>2, <2>4, RowWriteFields
<1>5. k \notin DOMAIN r => Right(new, c) /\ new.to = "rows" /\ new.key = k
  <2> DEFINE row == [NoRow EXCEPT !.IsFallback = TRUE]
  <2> SUFFICES ASSUME k \notin DOMAIN r PROVE Right(new, c) /\ new.to = "rows" /\ new.key = k
    OBVIOUS
  <2>1. row.IsFallback /\ ~RowOf(r, k).IsEnabled
    BY DEF NoRow, RowOf
  <2>2. c.profiles[k].IsFallback = TRUE /\ row.IsFallback = TRUE
    BY <1>2, Zenon DEF NoRow
  <2>3. ~c.profiles[k].IsEnabled
    BY <1>1, <1>2, <2>1
  <2>4. new = SetProfileState(k, row)
    OBVIOUS
  <2> HIDE DEF row, new
  <2>5. RowRight(row, c.profiles[k])
    BY <2>2, <2>3, Zenon DEF RowRight
  <2>6. QED
    BY <1>2, <2>4, <2>5, RowWriteFields
<1> HIDE DEF ws, new
<1>6. AllRight(ws, c)
  BY <1>3, <1>4, <1>5, Zenon DEF AllRight
<1>7. ASSUME NEW p \in WrongRows(r, c)
      PROVE  \E w \in Range(ws) : w.to = "rows" /\ w.key = p
  <2>1. p \in DOMAIN c.profiles /\ ~RowRight(RowOf(r, p), c.profiles[p])
    BY <1>1, Zenon DEF WrongRows
  <2>2. RowOf(r, p).IsFallback # (p = k)
    BY <1>1, <1>2, <2>1, Zenon DEF RowRight
  <2>3. CASE p \in DOMAIN r
    <3>1. p \in Misplaced(r, k)
      BY <2>2, <2>3 DEF Misplaced, RowOf
    <3>2. QED
      BY <1>3, <1>4, <3>1, Zenon
  <2>4. CASE p \notin DOMAIN r
    <3>1. p = k
      BY <2>2, <2>4, Zenon DEF RowOf, NoRow
    <3>2. QED
      BY <1>3, <1>5, <2>4, <3>1, Zenon
  <2>5. QED
    BY <2>3, <2>4
<1>8. QED
  BY <1>6, <1>7 DEF RowsMet, ws, k

LEMMA ClearRight ==
  ASSUME NEW r, IsRows(r), NEW c, IsCard(c), NEW op, op.Kind = "unsetFallbackAttribute", NearRows(op, r, c), Done(op, c)
  PROVE  LET ws == clearProfileFallback(r) IN AllRight(ws, c) /\ RowsMet(ws, r, c)
<1> DEFINE ws == clearProfileFallback(r)
           marked == {q \in DOMAIN r : r[q].IsFallback}
           write(p) == SetProfileState(p, [r[p] EXCEPT !.IsFallback = FALSE])
<1>1. /\ DOMAIN r \subseteq DOMAIN c.profiles
      /\ \A p \in DOMAIN c.profiles : c.profiles[p].IsEnabled => RowOf(r, p).IsEnabled
  BY Zenon DEF NearRows
<1>2. \A p \in DOMAIN c.profiles : ~c.profiles[p].IsFallback
  BY Zenon DEF Done
<1>3. IsSeq(ws) /\ Range(ws) = {write(p) : p \in marked}
  BY ClearRange
<1>4. \A p \in marked : Right(write(p), c) /\ write(p).to = "rows" /\ write(p).key = p
  <2> TAKE p \in marked
  <2> DEFINE row == [r[p] EXCEPT !.IsFallback = FALSE]
  <2>1. p \in DOMAIN r /\ p \in DOMAIN c.profiles /\ r[p] \in Row /\ RowOf(r, p) = r[p]
    BY <1>1 DEF RowOf, IsRows
  <2>2. row.IsEnabled = r[p].IsEnabled /\ ~row.IsFallback /\ row.IsFallback = FALSE
    BY <2>1 DEF Row
  <2>3. write(p) = SetProfileState(p, row)
    OBVIOUS
  <2>4. c.profiles[p].IsFallback = row.IsFallback
    <3>1. c.profiles[p].IsFallback \in BOOLEAN
      BY <2>1 DEF IsCard, IsRows, Row
    <3>2. QED
      BY <1>2, <2>1, <2>2, <3>1, Zenon
  <2> HIDE DEF row
  <2>5. RowRight(row, c.profiles[p])
    BY <1>1, <2>1, <2>2, <2>4, Zenon DEF RowRight
  <2>6. QED
    BY <2>1, <2>3, <2>5, RowWriteFields
<1>5. AllRight(ws, c)
  BY <1>3, <1>4, Zenon DEF AllRight
<1>6. ASSUME NEW p \in WrongRows(r, c)
      PROVE  \E w \in Range(ws) : w.to = "rows" /\ w.key = p
  <2>1. p \in DOMAIN c.profiles /\ ~RowRight(RowOf(r, p), c.profiles[p])
    BY <1>1, Zenon DEF WrongRows
  <2>2. RowOf(r, p) \in Row /\ c.profiles[p] \in Row
    BY <2>1 DEF IsRows, IsCard, RowOf, NoRow, Row
  <2>3. RowOf(r, p).IsFallback
    BY <1>1, <1>2, <2>1, <2>2, Zenon DEF RowRight, Row
  <2>4. p \in marked
    BY <2>3, Zenon DEF RowOf, NoRow
  <2>5. write(p) \in Range(ws)
    BY <1>3, <2>4, Zenon
  <2> HIDE DEF write, marked, ws
  <2>6. QED
    BY <1>4, <2>4, <2>5
<1>7. QED
  BY <1>5, <1>6 DEF RowsMet

LEMMA AddressSet ==
  ASSUME NEW s, HasAddress(s), NEW c, NEW address, c.address = <<address>>
  PROVE  LET ws == setEUICCDefaultSMDPAddress(s, address)
         IN AllRight(ws, c) /\ \E w \in Range(ws) : w.to = "state"
<1> DEFINE old == IF s = <<>> THEN [Address |-> <<>>, Info |-> 0] ELSE s[1]
           new == [old EXCEPT !.Address = <<address>>]
           w == SetEUICCState(new)
<1>1. "Address" \in DOMAIN old
  BY DEF HasAddress
<1>2. setEUICCDefaultSMDPAddress(s, address) = <<w>>
  BY DEF setEUICCDefaultSMDPAddress
<1> HIDE DEF old
<1>3. "Address" \in DOMAIN new /\ new.Address = <<address>>
  BY <1>1
<1> HIDE DEF new
<1>4. AddressRight(<<new>>, c)
  BY <1>3 DEF AddressRight, HasAddress
<1>5. Right(w, c) /\ w.to = "state"
  BY <1>4, StateWriteFields
<1> HIDE DEF w
<1>6. AllRight(<<w>>, c) /\ w \in Range(<<w>>)
  BY <1>5, OneRight
<1>7. QED
  BY <1>2, <1>5, <1>6, Zenon

LEMMA PSMORight ==
  ASSUME NEW r, IsRows(r), NEW s, NEW a, NEW c, IsCard(c), NEW op, Near(op, r, s, a, c), Done(op, c),
         NEW report, report = ReportOf(c, op)
  PROVE  LET ws == applyPSMOState(op, r, s, report)
         IN AllRight(ws, c) /\ RowsMet(ws, r, c) /\ AddressMet(ws, s, c)
<1> DEFINE ws == applyPSMOState(op, r, s, report)
<1>0. /\ NearRows(op, r, c) /\ HasAddress(s)
      /\ op.Kind # "setDefaultDpAddress" => AddressMet(ws, s, c)
  BY DEF Near, AddressMet
<1>1. CASE op.Kind = "enable"
  <2>1. ws = setProfileEnabled(r, op.ICCID, TRUE)
    BY <1>1 DEF applyPSMOState
  <2>2. op.ICCID \in DOMAIN c.profiles /\ RowOf(r, op.ICCID).IsFallback = c.profiles[op.ICCID].IsFallback
    BY <1>0, <1>1, Zenon DEF Done, NearRows
  <2> HIDE DEF ws
  <2>3. AllRight(ws, c) /\ RowMet(ws, op.ICCID)
    BY <2>1, <2>2, EnabledRight, Zenon
  <2>4. RowsMet(ws, r, c)
    BY <1>0, <1>1, <2>3, Zenon DEF NearRows, RowsMet, RowMet
  <2>5. QED
    BY <1>0, <1>1, <2>3, <2>4 DEF ws
<1>2. CASE op.Kind = "disable"
  <2>1. ws = setProfileEnabled(r, op.ICCID, FALSE)
    BY <1>2 DEF applyPSMOState
  <2>2. op.ICCID \in DOMAIN c.profiles /\ ~c.profiles[op.ICCID].IsEnabled /\ WrongRows(r, c) = {}
    BY <1>0, <1>2, Zenon DEF Done, NearRows
  <2>3. RowOf(r, op.ICCID).IsFallback = c.profiles[op.ICCID].IsFallback
    BY <2>2, Zenon DEF WrongRows, RowRight
  <2> HIDE DEF ws
  <2>4. AllRight(ws, c)
    BY <2>1, <2>2, <2>3, EnabledRight, Zenon
  <2>5. QED
    BY <1>0, <1>2, <2>2, <2>4, Zenon DEF ws, RowsMet
<1>3. CASE op.Kind = "delete"
  <2> DEFINE w == DeleteProfileState(op.ICCID)
  <2>1. ws = <<w>>
    BY <1>3 DEF applyPSMOState
  <2>2. op.ICCID \notin DOMAIN c.profiles /\ WrongRows(r, c) \subseteq {op.ICCID}
    BY <1>0, <1>3, Zenon DEF Done, NearRows
  <2>3. Right(w, c) /\ w.to = "rows" /\ w.key = op.ICCID
    BY <2>2, RowWriteFields, Zenon
  <2> HIDE DEF w, ws
  <2>4. AllRight(ws, c) /\ w \in Range(ws)
    BY <2>1, <2>3, OneRight, Zenon
  <2>5. RowsMet(ws, r, c)
    BY <2>2, <2>3, <2>4, Zenon DEF RowsMet
  <2>6. QED
    BY <1>0, <1>3, <2>4, <2>5, Zenon DEF ws
<1>4. CASE op.Kind = "listProfileInfo"
  <2>1. report.profiles = Inventory(c)
    BY <1>4, Zenon DEF ReportOf
  <2>2. ws = syncProfileInventory(r, Inventory(c))
    BY <1>4, <2>1 DEF applyPSMOState
  <2>3. WrongRows(r, c) = {}
    BY <1>0, <1>4, Zenon DEF NearRows
  <2> HIDE DEF ws
  <2>4. AllRight(ws, c)
    BY <2>2, SyncRight
  <2>5. QED
    BY <1>0, <1>4, <2>3, <2>4, Zenon DEF ws, RowsMet
<1>5. CASE op.Kind = "setFallbackAttribute"
  <2>1. ws = setProfileFallback(r, op.ICCID)
    BY <1>5 DEF applyPSMOState
  <2> HIDE DEF ws
  <2>2. AllRight(ws, c) /\ RowsMet(ws, r, c)
    BY <1>0, <1>5, <2>1, FallbackRight
  <2>3. QED
    BY <1>0, <1>5, <2>2 DEF ws
<1>6. CASE op.Kind = "unsetFallbackAttribute"
  <2>1. ws = clearProfileFallback(r)
    BY <1>6 DEF applyPSMOState
  <2> HIDE DEF ws
  <2>2. AllRight(ws, c) /\ RowsMet(ws, r, c)
    BY <1>0, <1>6, <2>1, ClearRight, Zenon
  <2>3. QED
    BY <1>0, <1>6, <2>2, Zenon DEF ws
<1>7. CASE op.Kind = "setDefaultDpAddress"
  <2>1. ws = setEUICCDefaultSMDPAddress(s, op.Address)
    BY <1>7 DEF applyPSMOState
  <2>2. c.address = <<op.Address>> /\ WrongRows(r, c) = {}
    BY <1>0, <1>7, Zenon DEF Done, NearRows
  <2> HIDE DEF ws
  <2>3. AllRight(ws, c) /\ \E w \in Range(ws) : w.to = "state"
    BY <1>0, <2>1, <2>2, AddressSet, Zenon
  <2>4. QED
    BY <2>2, <2>3, Zenon DEF ws, RowsMet, AddressMet
<1>8. CASE op.Kind \notin {"enable", "disable", "delete", "listProfileInfo", "setFallbackAttribute",
                           "unsetFallbackAttribute", "setDefaultDpAddress"}
  <2>1. ws = <<>>
    BY <1>8, Zenon DEF applyPSMOState
  <2>2. WrongRows(r, c) = {}
    BY <1>0, <1>8, Zenon DEF NearRows
  <2> HIDE DEF ws
  <2>3. AllRight(ws, c)
    BY <2>1, NoneRight
  <2>4. QED
    BY <1>0, <1>8, <2>2, <2>3, Zenon DEF ws, RowsMet
<1>9. QED
  BY <1>1, <1>2, <1>3, <1>4, <1>5, <1>6, <1>7, <1>8, Zenon

LEMMA ECORight ==
  ASSUME NEW a, NEW c, NEW op, NearEims(op, a, c), Done(op, c), NEW report, report = ReportOf(c, op)
  PROVE  LET ws == applyECOState(op, a, report) IN AllRight(ws, c) /\ EimsMet(ws, a, c)
<1> DEFINE ws == applyECOState(op, a, report)
<1>1. CASE op.Kind = "addEim"
  <2> DEFINE w == SetAssociatedEIM(op.EimID, <<NewToken>>)
  <2>1. report.token = <<NewToken>>
    BY <1>1, Zenon DEF ReportOf
  <2>2. ws = <<w>>
    <3>1. report.token # <<>>
      BY <2>1
    <3>2. QED
      BY <1>1, <2>1, <3>1 DEF applyECOState
  <2>3. op.EimID \in DOMAIN c.eims /\ c.eims[op.EimID] = <<NewToken>> /\ WrongEims(a, c) \subseteq {op.EimID}
    BY <1>1, Zenon DEF Done, NearEims
  <2>4. Right(w, c) /\ w.to = "eims" /\ w.key = op.EimID
    BY <2>3, EimWriteFields, Zenon
  <2> HIDE DEF w, ws
  <2>5. AllRight(ws, c) /\ w \in Range(ws)
    BY <2>2, <2>4, OneRight, Zenon
  <2>6. QED
    BY <2>3, <2>4, <2>5, Zenon DEF ws, EimsMet
<1>2. CASE op.Kind = "updateEim"
  <2> DEFINE token == IF op.Token # <<>> THEN op.Token ELSE existingAssociationToken(a, op.EimID)
             w == SetAssociatedEIM(op.EimID, token)
  <2>1. ws = <<w>>
    BY <1>2 DEF applyECOState
  <2>2. op.EimID \in DOMAIN c.eims /\ WrongEims(a, c) \subseteq {op.EimID}
    BY <1>2, Zenon DEF Done, NearEims
  <2>3. token = c.eims[op.EimID]
    <3>1. CASE op.Token # <<>>
      BY <1>2, <3>1, Zenon DEF Done
    <3>2. CASE op.Token = <<>>
      <4>1. WrongEims(a, c) = {}
        BY <1>2, <3>2, Zenon DEF NearEims
      <4>2. op.EimID \in DOMAIN a /\ a[op.EimID] = c.eims[op.EimID]
        BY <2>2, <4>1, Zenon DEF WrongEims
      <4>3. QED
        BY <3>2, <4>2, Zenon DEF existingAssociationToken
    <3>3. QED
      BY <3>1, <3>2, Zenon
  <2> HIDE DEF token
  <2>4. Right(w, c) /\ w.to = "eims" /\ w.key = op.EimID
    BY <2>2, <2>3, EimWriteFields, Zenon
  <2> HIDE DEF w, ws
  <2>5. AllRight(ws, c) /\ w \in Range(ws)
    BY <2>1, <2>4, OneRight
  <2>6. QED
    BY <2>2, <2>4, <2>5, Zenon DEF ws, EimsMet
<1>3. CASE op.Kind = "deleteEim"
  <2> DEFINE w == DeleteAssociatedEIM(op.EimID)
  <2>1. ws = <<w>>
    BY <1>3 DEF applyECOState
  <2>2. op.EimID \notin DOMAIN c.eims /\ WrongEims(a, c) \subseteq {op.EimID}
    BY <1>3, Zenon DEF Done, NearEims
  <2>3. Right(w, c) /\ w.to = "eims" /\ w.key = op.EimID
    BY <2>2, EimWriteFields, Zenon
  <2> HIDE DEF w, ws
  <2>4. AllRight(ws, c) /\ w \in Range(ws)
    BY <2>1, <2>3, OneRight
  <2>5. QED
    BY <2>2, <2>3, <2>4, Zenon DEF ws, EimsMet
<1>4. CASE op.Kind \notin {"addEim", "updateEim", "deleteEim"}
  <2>1. ws = <<>> /\ WrongEims(a, c) = {}
    BY <1>4 DEF applyECOState, NearEims
  <2> HIDE DEF ws
  <2>2. AllRight(ws, c)
    BY <2>1, NoneRight
  <2>3. QED
    BY <2>1, <2>2 DEF ws, EimsMet
<1>5. QED
  BY <1>1, <1>2, <1>3, <1>4, Zenon

(* All that ApplyPackageResultState writes is right, and all that is wrong *)
(* it writes.                                                              *)
LEMMA ApplyRight ==
  ASSUME NEW op, NEW report, IsRows(rows), IsCard(card), Near(op, rows, state, eims, card), Done(op, card),
         report = ReportOf(card, op)
  PROVE  LET ws == ApplyPackageResultState(op, report)
         IN AllRight(ws, card) /\ Complete(ws, rows, state, eims, card)
<1> DEFINE x == applyPSMOState(op, rows, state, report)
           y == applyECOState(op, eims, report)
<1>1. AllRight(x, card) /\ RowsMet(x, rows, card) /\ AddressMet(x, state, card)
  BY PSMORight, Zenon
<1>2. AllRight(y, card) /\ EimsMet(y, eims, card)
  BY ECORight, Zenon DEF Near
<1>3. ApplyPackageResultState(op, report) = x \o y
  BY DEF ApplyPackageResultState
<1> HIDE DEF x, y
<1>4. IsSeq(x \o y) /\ Range(x \o y) = Range(x) \cup Range(y)
  BY <1>1, <1>2, RangeJoin, Zenon DEF AllRight
<1>5. AllRight(x \o y, card)
  BY <1>1, <1>2, <1>4, Zenon DEF AllRight
<1>6. Complete(x \o y, rows, state, eims, card)
  BY <1>1, <1>2, <1>4, Zenon DEF Complete, RowsMet, AddressMet, EimsMet
<1>7. QED
  BY <1>3, <1>5, <1>6

-----------------------------------------------------------------------------
(* The steps, while results are handled one at a time. *)
LEMMA DataFollows ==
  ASSUME NEW op, ~IsPackage(op), NEW r, NEW s, NEW a, NEW c, Near(op, r, s, a, c)
  PROVE  Follows(r, s, a, c)
<1>1. op.Kind \in {"ipaEuiccData", "profileDownload"}
  BY DEF IsPackage
<1>2. WrongRows(r, c) = {}
  BY <1>1, Zenon DEF Near, NearRows
<1>3. WrongEims(a, c) = {}
  BY <1>1, Zenon DEF Near, NearEims
<1>4. AddressRight(s, c)
  BY <1>1 DEF Near
<1>5. QED
  BY <1>2, <1>3, <1>4 DEF Follows

(* What the calls of a new request leave out is right already. *)
LEMMA CallsNear ==
  ASSUME NEW op, NEW u, NEW r, NEW s, NEW a, NEW c, UploadNear(op, u, r, s, a, c)
  PROVE  "apply" \in Range(CallsFor(op, u)) \/ Follows(r, s, a, c)
<1>1. CASE ~u.ok
  BY <1>1, Zenon DEF UploadNear
<1>2. CASE u.ok /\ ~IsPackage(op)
  BY <1>2, DataFollows, Zenon DEF UploadNear
<1>3. CASE u.ok /\ IsPackage(op)
  <2> DEFINE x == IF u.refused THEN <<>> ELSE <<"verify">>
  <2>1. CallsFor(op, u) = x \o <<"record">> \o <<"apply">>
    BY <1>3 DEF CallsFor
  <2>2. IsSeq(x)
    <3>1. IsSeq(<<>>) /\ IsSeq(<<"verify">>)
      BY RangeNone, RangeOne, Zenon
    <3>2. QED
      BY <3>1
  <2> HIDE DEF x
  <2> DEFINE y == x \o <<"record">>
  <2>3. IsSeq(y)
    BY <2>2, RangeOne, RangeJoin
  <2>4. IsSeq(<<"apply">>) /\ Range(<<"apply">>) = {"apply"}
    BY RangeOne
  <2>5. CallsFor(op, u) = y \o <<"apply">>
    BY <2>1
  <2> HIDE DEF y
  <2>6. Range(y \o <<"apply">>) = Range(y) \cup Range(<<"apply">>)
    BY <2>3, <2>4, RangeJoin, Zenon
  <2>7. QED
    BY <2>4, <2>5, <2>6
<1>4. QED
  BY <1>1, <1>2, <1>3, Zenon

LEMMA InStepInit == Init => Following
<1> SUFFICES ASSUME Init, exact
             PROVE  InStep
  BY DEF Following
<1>1. rows = card.profiles /\ state = <<>> /\ eims = card.eims /\ uploads = <<>>
  BY Zenon DEF Init
<1>2. DOMAIN <<>> = {}
  OBVIOUS
<1>3. Unacknowledged = {}
  BY <1>1, <1>2 DEF Unacknowledged, Executed
<1>4. \A h \in Handlers : ~Busy(h)
  BY Zenon DEF Init, Busy, Idle
<1>5. WrongRows(rows, card) = {}
  BY <1>1, Zenon DEF WrongRows, RowOf, RowRight
<1>6. WrongEims(eims, card) = {}
  BY <1>1 DEF WrongEims
<1>7. AddressRight(state, card)
  BY <1>1 DEF AddressRight, HasAddress
<1>8. QED
  BY <1>3, <1>4, <1>5, <1>6, <1>7, Zenon DEF InStep, OneAtATime, Follows

LEMMA InStepExecute ==
  ASSUME Sound, Following, Execute
  PROVE  Following'
<1> SUFFICES ASSUME exact'
             PROVE  InStep'
  BY DEF Following
<1>1. exact /\ Unacknowledged = {}
  BY Zenon DEF Execute
<1>2. InStep /\ Follows(rows, state, eims, card) /\ \A h \in Handlers : ~Busy(h)
  BY <1>1, Zenon DEF Following, InStep, OneAtATime
<1>3. /\ Pending # {} /\ Offered \notin Executed /\ card' = TheCard
      /\ uploads' = Put(uploads, Offered, TheUpload)
      /\ handler' = [h \in Handlers |->
           [handler[h] EXCEPT !.alone = handler[h].alone /\ TheCard.profiles = card.profiles]]
      /\ UNCHANGED <<queue, rows, state, eims>>
  BY ExecuteMeans
<1>4. Offered \in DOMAIN queue
  BY <1>3, OfferedIsPending DEF Sound, Pending
<1>5. IsCard(card) /\ DOMAIN handler = Handlers
      /\ \A h \in Handlers : DOMAIN handler[h] = {"on", "calls", "writes", "alone"}
  BY Zenon DEF Sound, ViewSound, HandlersSound, HandlerSound
<1>6. \A h \in Handlers : ~Busy(h)'
  <2>1. \A h \in Handlers : handler'[h].on = handler[h].on
    BY <1>3, <1>5
  <2>2. QED
    BY <1>2, <2>1, Zenon DEF Busy
<1>7. ~TheUpload.acknowledged /\ TheUpload.report = ReportOf(TheCard, TheOp) /\ (TheUpload.ok <=> Succeeds)
  BY Zenon DEF TheUpload
<1>8. /\ DOMAIN uploads' = DOMAIN uploads \cup {Offered} /\ uploads'[Offered] = TheUpload
      /\ \A i \in DOMAIN uploads : i # Offered => uploads'[i] = uploads[i]
  BY <1>3 DEF Put
<1>9. Unacknowledged' = {Offered}
  BY <1>1, <1>3, <1>7, <1>8 DEF Unacknowledged, Executed
<1>10. UploadNear(TheOp, TheUpload, rows, state, eims, TheCard)
  <2>1. ASSUME Succeeds
        PROVE  Near(TheOp, rows, state, eims, TheCard) /\ Done(TheOp, TheCard)
    <3>1. TheCard = After(card, TheOp) /\ Can(card, TheOp)
      BY <2>1 DEF TheCard, Succeeds
    <3>2. QED
      BY <1>2, <1>5, <3>1, AfterNear, Zenon
  <2>2. ASSUME ~Succeeds
        PROVE  Follows(rows, state, eims, TheCard)
    BY <1>2, <2>2 DEF TheCard
  <2>3. QED
    BY <1>7, <2>1, <2>2, Zenon DEF UploadNear
<1>11. UploadNear(queue'[Offered].Op, uploads'[Offered], rows', state', eims', card')
  BY <1>3, <1>8, <1>10 DEF TheOp
<1>12. \A i \in Unacknowledged' : UploadNear(queue'[i].Op, uploads'[i], rows', state', eims', card')
  BY <1>9, <1>11, Zenon
<1>13. OneAtATime'
  BY <1>6, <1>9 DEF OneAtATime
<1>14. QED
  BY <1>6, <1>9, <1>12, <1>13, Zenon DEF InStep

LEMMA InStepReceive ==
  ASSUME Sound, Following, NEW i \in DOMAIN queue, Receive(i)
  PROVE  Following'
<1> SUFFICES ASSUME exact'
             PROVE  InStep'
  BY DEF Following
<1>1. exact /\ \A g \in Handlers : ~Busy(g)
  BY Zenon DEF Receive
<1>2. InStep
  BY <1>1 DEF Following
<1> DEFINE k == CHOOSE h \in Handlers : ~Busy(h)
           calls == CallsFor(queue[i].Op, uploads[i])
           alone == /\ \A g \in Handlers : ~Busy(g)
                    /\ uploads[i].report.profiles = Inventory(card)
           new == [on |-> i, calls |-> calls, writes |-> <<>>, alone |-> alone]
<1>3. /\ i \in Unacknowledged /\ k \in Handlers /\ handler' = [handler EXCEPT ![k] = new]
      /\ UNCHANGED <<queue, rows, state, eims, card, uploads>>
  BY Zenon DEF Receive
<1>4. new.on = i /\ new.calls = calls /\ new.writes = <<>>
  BY Zenon
<1> HIDE DEF k, alone, new
<1>5. handler'[k] = new /\ \A g \in Handlers \ {k} : handler'[g] = handler[g]
  BY <1>3, Zenon DEF Sound, HandlersSound
<1>6. \A g \in Handlers : Busy(g)' => g = k
  BY <1>1, <1>5, Zenon DEF Busy
<1>7. Unacknowledged' = Unacknowledged
  BY <1>3, Zenon DEF Unacknowledged, Executed
<1>8. OneAtATime'
  <2>1. \A g, h \in Handlers : Busy(g)' /\ Busy(h)' => g = h
    BY <1>6
  <2>2. \A h \in Handlers : Busy(h)' => handler'[h].on \in Unacknowledged'
    BY <1>3, <1>4, <1>5, <1>6, <1>7
  <2>3. \A j, l \in Unacknowledged' : j = l
    BY <1>2, <1>7, Zenon DEF InStep, OneAtATime
  <2>4. QED
    BY <2>1, <2>2, <2>3, Zenon DEF OneAtATime
<1>9. HandlerNear(new, rows, state, eims, card)
  <2>1. UploadNear(queue[i].Op, uploads[i], rows, state, eims, card)
    BY <1>2, <1>3, Zenon DEF InStep
  <2>2. "apply" \in Range(calls) \/ Follows(rows, state, eims, card)
    BY <2>1, CallsNear, Zenon
  <2>3. Range(<<>>) = {}
    BY RangeNone
  <2> HIDE DEF calls
  <2>4. "apply" \in Range(calls) \/ Complete(<<>>, rows, state, eims, card)
    BY <2>2, CompleteEnd, Zenon
  <2>5. QED
    BY <1>4, <2>3, <2>4, Zenon DEF HandlerNear
<1>10. \A h \in Handlers : Busy(h)' => HandlerNear(handler'[h], rows', state', eims', card')
  BY <1>3, <1>5, <1>6, <1>9, Zenon
<1>11. \A j \in Unacknowledged' : UploadNear(queue'[j].Op, uploads'[j], rows', state', eims', card')
  BY <1>2, <1>3, <1>7, Zenon DEF InStep
<1>12. Unacknowledged' = {} => Follows(rows', state', eims', card')
  BY <1>2, <1>3, <1>7, Zenon DEF InStep
<1>13. QED
  BY <1>8, <1>10, <1>11, <1>12, Zenon DEF InStep

(* The operations of the results under way are what they were. *)
SameOps ==
  /\ UNCHANGED <<rows, state, eims, card, uploads>>
  /\ \A i \in DOMAIN uploads : queue'[i].Op = queue[i].Op

LEMMA InStepAway ==
  ASSUME Sound, InStep, SameOps, NEW h \in Handlers, handler' = [handler EXCEPT ![h] = Idle]
  PROVE  InStep'
<1>1. Idle.on = 0
  BY Zenon DEF Idle
<1> HIDE DEF Idle
<1>2. handler'[h] = Idle /\ \A g \in Handlers \ {h} : handler'[g] = handler[g]
  BY DEF Sound, HandlersSound
<1>3. ~Busy(h)' /\ \A g \in Handlers \ {h} : Busy(g)' <=> Busy(g)
  BY <1>1, <1>2 DEF Busy
<1>4. Unacknowledged' = Unacknowledged /\ UNCHANGED <<rows, state, eims, card, uploads>>
  BY Zenon DEF SameOps, Unacknowledged, Executed
<1>5. OneAtATime'
  BY <1>2, <1>3, <1>4 DEF InStep, OneAtATime
<1>6. \A g \in Handlers : Busy(g)' => HandlerNear(handler'[g], rows', state', eims', card')
  BY <1>2, <1>3, <1>4, Zenon DEF InStep
<1>7. \A i \in Unacknowledged' : UploadNear(queue'[i].Op, uploads'[i], rows', state', eims', card')
  BY <1>4, Zenon DEF InStep, SameOps, Unacknowledged, Executed
<1>8. QED
  BY <1>4, <1>5, <1>6, <1>7, Zenon DEF InStep

LEMMA InStepAdvance ==
  ASSUME Sound, InStep, SameOps, NEW h \in Handlers, Busy(h), NEW writes, handler' = Advanced(h, writes),
         \A w \in Range(writes) : Right(w, card),
         "apply" \in Range(Tail(handler[h].calls)) \/ Complete(writes, rows, state, eims, card)
  PROVE  InStep'
<1>1. \A g \in Handlers : DOMAIN handler[g] = {"on", "calls", "writes", "alone"}
  BY Zenon DEF Sound, HandlersSound, HandlerSound
<1>2. /\ handler'[h].on = handler[h].on /\ handler'[h].calls = Tail(handler[h].calls)
      /\ handler'[h].writes = writes
  BY AdvancedFields, Zenon
<1>3. \A g \in Handlers \ {h} : handler'[g].on = handler[g].on
  BY <1>1 DEF Advanced
<1>4. \A g \in Handlers : handler'[g].on = handler[g].on /\ (Busy(g)' <=> Busy(g))
  BY <1>2, <1>3, Zenon DEF Busy
<1>5. \A g \in Handlers : Busy(g)' => g = h
  BY <1>4, Zenon DEF InStep, OneAtATime
<1>6. Unacknowledged' = Unacknowledged /\ UNCHANGED <<rows, state, eims, card, uploads>>
  BY Zenon DEF SameOps, Unacknowledged, Executed
<1>7. OneAtATime'
  BY <1>4, <1>6, Zenon DEF InStep, OneAtATime
<1>8. HandlerNear(handler'[h], rows, state, eims, card)
  BY <1>2, Zenon DEF HandlerNear
<1>9. \A g \in Handlers : Busy(g)' => HandlerNear(handler'[g], rows', state', eims', card')
  BY <1>5, <1>6, <1>8, Zenon
<1>10. \A i \in Unacknowledged' : UploadNear(queue'[i].Op, uploads'[i], rows', state', eims', card')
  BY <1>6, Zenon DEF InStep, SameOps, Unacknowledged, Executed
<1>11. QED
  BY <1>6, <1>7, <1>9, <1>10, Zenon DEF InStep

(* A call that applies nothing leaves that to the calls after it. *)
LEMMA StillNear ==
  ASSUME Sound, InStep, NEW h \in Handlers, NEW call, Calling(h, call), call # "apply", NEW writes
  PROVE  "apply" \in Range(Tail(handler[h].calls)) \/ Complete(writes, rows, state, eims, card)
<1>1. Busy(h) /\ handler[h].writes = <<>> /\ handler[h].calls # <<>> /\ Head(handler[h].calls) = call
  BY Zenon DEF Calling
<1>2. IsSeq(handler[h].calls)
  BY Zenon DEF Sound, HandlersSound, HandlerSound
<1> DEFINE calls == handler[h].calls
<1>3. Range(calls) = {Head(calls)} \cup Range(Tail(calls))
  BY <1>1, <1>2, RangeTail, Zenon
<1>4. "apply" \in Range(calls) \/ Complete(<<>>, rows, state, eims, card)
  BY <1>1, Zenon DEF InStep, HandlerNear
<1>5. ASSUME Complete(<<>>, rows, state, eims, card)
      PROVE  Complete(writes, rows, state, eims, card)
  BY <1>5, CompleteEnd, Zenon
<1>6. QED
  BY <1>1, <1>3, <1>4, <1>5, Zenon

LEMMA InStepVerify ==
  ASSUME Sound, Following, NEW h \in Handlers, Verify(h)
  PROVE  Following'
<1> SUFFICES ASSUME exact'
             PROVE  InStep'
  BY DEF Following
<1>1. exact' = exact /\ SameOps /\ Calling(h, "verify")
  BY Zenon DEF Verify, SameOps
<1>2. InStep /\ Busy(h)
  BY <1>1, Zenon DEF Following, Calling
<1>3. handler' = Advanced(h, <<>>) \/ handler' = [handler EXCEPT ![h] = Idle]
  BY Zenon DEF Verify
<1>4. CASE handler' = Advanced(h, <<>>)
  <2>1. "apply" \in Range(Tail(handler[h].calls)) \/ Complete(<<>>, rows, state, eims, card)
    BY <1>1, <1>2, StillNear, Zenon
  <2>2. \A w \in Range(<<>>) : Right(w, card)
    BY RangeNone
  <2>3. QED
    BY <1>1, <1>2, <1>4, <2>1, <2>2, InStepAdvance, Zenon
<1>5. CASE handler' = [handler EXCEPT ![h] = Idle]
  BY <1>1, <1>2, <1>5, InStepAway, Zenon
<1>6. QED
  BY <1>3, <1>4, <1>5

LEMMA InStepRecord ==
  ASSUME Sound, Following, NEW h \in Handlers, RecordEUICCPackageResult(h)
  PROVE  Following'
<1> SUFFICES ASSUME exact'
             PROVE  InStep'
  BY DEF Following
<1>1. /\ UNCHANGED <<rows, state, eims, card, uploads, exact>> /\ handler' = Advanced(h, <<>>)
      /\ \A i \in DOMAIN queue : queue'[i].Op = queue[i].Op
  BY RecordMeans, Zenon
<1>2. SameOps /\ Calling(h, "record")
  BY <1>1 DEF SameOps, Sound, UploadsSound, RecordEUICCPackageResult
<1>3. InStep /\ Busy(h)
  BY <1>1, <1>2, Zenon DEF Following, Calling
<1>4. "apply" \in Range(Tail(handler[h].calls)) \/ Complete(<<>>, rows, state, eims, card)
  BY <1>2, <1>3, StillNear
<1>5. \A w \in Range(<<>>) : Right(w, card)
  BY RangeNone
<1>6. QED
  BY <1>1, <1>2, <1>3, <1>4, <1>5, InStepAdvance, Zenon

LEMMA InStepRead ==
  ASSUME Sound, Following, NEW h \in Handlers, ReadStore(h)
  PROVE  Following'
<1> SUFFICES ASSUME exact'
             PROVE  InStep'
  BY DEF Following
<1> DEFINE on == handler[h].on
           report == uploads[on].report
           op == queue[on].Op
<1>1. exact' = exact /\ SameOps
  BY DEF ReadStore, SameOps
<1>2. \/ Calling(h, "apply") /\ handler' = Advanced(h, ApplyPackageResultState(op, report))
      \/ Calling(h, "state") /\ handler' = Advanced(h, <<SetEUICCState(report.state)>>)
      \/ Calling(h, "sync") /\ handler' = Advanced(h, syncDataInventory(report))
  BY Zenon DEF ReadStore
<1>3. InStep /\ Busy(h)
  BY <1>1, <1>2, Zenon DEF Following, Calling
<1>4. on \in Unacknowledged /\ on \in DOMAIN uploads
  BY <1>3, Zenon DEF InStep, OneAtATime, Unacknowledged, Executed
<1>5. UploadNear(op, uploads[on], rows, state, eims, card)
  BY <1>3, <1>4, Zenon DEF InStep
<1>6. report = ReportOf(card, op)
  BY <1>5, Zenon DEF UploadNear
<1>7. IsRows(rows) /\ IsCard(card)
  BY DEF Sound, ViewSound
<1> HIDE DEF report, op
<1>8. CASE Calling(h, "apply") /\ handler' = Advanced(h, ApplyPackageResultState(op, report))
  <2> DEFINE ws == ApplyPackageResultState(op, report)
  <2>1. handler[h].calls # <<>> /\ Head(handler[h].calls) = "apply" /\ IsSeq(handler[h].calls)
    BY <1>8, Zenon DEF Calling, Sound, HandlersSound, HandlerSound
  <2>2. "apply" \in Range(handler[h].calls)
    BY <2>1, RangeTail, Zenon
  <2>3. uploads[on].ok
    BY <2>2, Zenon DEF Sound, HandlersSound, HandlerSound
  <2>4. Near(op, rows, state, eims, card) /\ Done(op, card)
    BY <1>5, <2>3, Zenon DEF UploadNear
  <2>5. AllRight(ws, card) /\ Complete(ws, rows, state, eims, card)
    BY <1>6, <1>7, <2>4, ApplyRight, Zenon
  <2> HIDE DEF ws
  <2>6. \A w \in Range(ws) : Right(w, card)
    BY <2>5 DEF AllRight
  <2>7. handler' = Advanced(h, ws)
    BY <1>8 DEF ws
  <2>8. QED
    BY <1>1, <1>3, <2>5, <2>6, <2>7, InStepAdvance, Zenon
<1>9. CASE Calling(h, "state") /\ handler' = Advanced(h, <<SetEUICCState(report.state)>>)
  <2> DEFINE ws == <<SetEUICCState(report.state)>>
  <2>1. "Address" \in DOMAIN report.state /\ report.state.Address \in {<<>>, card.address}
    BY <1>6, Zenon DEF ReportOf
  <2>2. AddressRight(<<report.state>>, card)
    BY <2>1, Zenon DEF AddressRight, HasAddress
  <2>3. AllRight(ws, card)
    BY <2>2, StateWriteFields, OneRight, Zenon
  <2> HIDE DEF ws
  <2>4. \A w \in Range(ws) : Right(w, card)
    BY <2>3 DEF AllRight
  <2>5. "apply" \in Range(Tail(handler[h].calls)) \/ Complete(ws, rows, state, eims, card)
    BY <1>3, <1>9, StillNear, Zenon
  <2>6. handler' = Advanced(h, ws)
    BY <1>9 DEF ws
  <2>7. QED
    BY <1>1, <1>3, <2>4, <2>5, <2>6, InStepAdvance, Zenon
<1>10. CASE Calling(h, "sync") /\ handler' = Advanced(h, syncDataInventory(report))
  <2> DEFINE ws == syncDataInventory(report)
  <2>1. ws = <<>> \/ ws = syncProfileInventory(rows, Inventory(card))
    <3>1. report.listed = ("profiles" \in op.Asks)
      BY <1>6, Zenon DEF ReportOf
    <3>2. report.profiles = <<>> \/ report.profiles = Inventory(card)
      BY <1>6, Zenon DEF ReportOf
    <3>3. report.listed => report.profiles = Inventory(card)
      BY <1>6, Zenon DEF ReportOf
    <3>4. QED
      BY <3>2, <3>3, Zenon DEF syncDataInventory
  <2> HIDE DEF ws
  <2>2. AllRight(ws, card)
    BY <1>7, <2>1, SyncRight, NoneRight, Zenon
  <2>3. \A w \in Range(ws) : Right(w, card)
    BY <2>2 DEF AllRight
  <2>4. "apply" \in Range(Tail(handler[h].calls)) \/ Complete(ws, rows, state, eims, card)
    BY <1>3, <1>10, StillNear, Zenon
  <2>5. handler' = Advanced(h, ws)
    BY <1>10 DEF ws
  <2>6. QED
    BY <1>1, <1>3, <2>3, <2>4, <2>5, InStepAdvance
<1>11. QED
  BY <1>2, <1>8, <1>9, <1>10, Zenon

LEMMA InStepWrite ==
  ASSUME Sound, Following, NEW h \in Handlers, WriteStore(h)
  PROVE  Following'
<1> SUFFICES ASSUME exact'
             PROVE  InStep'
  BY DEF Following
<1> DEFINE writes == handler[h].writes
           w == Head(writes)
<1>1. /\ UNCHANGED <<queue, card, uploads, exact>> /\ Busy(h) /\ writes # <<>>
      /\ rows' = RowsAfter(rows, w) /\ state' = StateAfter(state, w) /\ eims' = EimsAfter(eims, w)
  BY DEF WriteStore, RowsAfter, StateAfter, EimsAfter
<1>2. InStep
  BY <1>1, Zenon DEF Following
<1>3. \A g \in Handlers : DOMAIN handler[g] = {"on", "calls", "writes", "alone"}
  BY Zenon DEF Sound, HandlersSound, HandlerSound
<1>4. /\ \A g \in Handlers : handler'[g].on = handler[g].on
      /\ handler'[h].calls = handler[h].calls /\ handler'[h].writes = Tail(writes)
  BY <1>3, Zenon DEF WriteStore
<1>5. \A g \in Handlers : (Busy(g)' <=> Busy(g)) /\ (Busy(g)' => g = h)
  BY <1>1, <1>2, <1>4, Zenon DEF Busy, InStep, OneAtATime
<1>6. Unacknowledged' = Unacknowledged
  BY <1>1, Zenon DEF Unacknowledged, Executed
<1>7. IsSeq(writes)
  BY Zenon DEF Sound, HandlersSound, HandlerSound, AllTrue
<1>8. Range(writes) = {w} \cup Range(Tail(writes))
  BY <1>1, <1>7, RangeTail, Zenon
<1>9. HandlerNear(handler[h], rows, state, eims, card)
  BY <1>1, <1>2, Zenon DEF InStep
<1>10. Right(w, card) /\ \A x \in Range(Tail(writes)) : Right(x, card)
  BY <1>8, <1>9, Zenon DEF HandlerNear
<1>11. Complete(writes, rows, state, eims, card) => Complete(Tail(writes), rows', state', eims', card)
  BY <1>1, <1>7, <1>10, RightKeepsComplete, Zenon
<1>12. HandlerNear(handler'[h], rows', state', eims', card)
  BY <1>4, <1>9, <1>10, <1>11, Zenon DEF HandlerNear
<1> HIDE DEF w, writes
<1>13. \A g \in Handlers : Busy(g)' => HandlerNear(handler'[g], rows', state', eims', card')
  BY <1>1, <1>5, <1>12, Zenon
<1>14. Follows(rows, state, eims, card) => Follows(rows', state', eims', card)
  BY <1>1, <1>10, RightKeepsFollows, Zenon
<1>15. \A i \in Unacknowledged' : UploadNear(queue'[i].Op, uploads'[i], rows', state', eims', card')
  <2> TAKE i \in Unacknowledged'
  <2> DEFINE op == queue[i].Op
  <2>1. UploadNear(op, uploads[i], rows, state, eims, card)
    BY <1>2, <1>6, Zenon DEF InStep
  <2> HIDE DEF op
  <2>2. Near(op, rows, state, eims, card) /\ Done(op, card) => Near(op, rows', state', eims', card)
    BY <1>1, <1>10, RightKeepsNear, Zenon
  <2>3. UploadNear(op, uploads[i], rows', state', eims', card)
    BY <1>14, <2>1, <2>2, Zenon DEF UploadNear
  <2>4. QED
    BY <1>1, <2>3, Zenon DEF op
<1>16. OneAtATime'
  BY <1>4, <1>5, <1>6, <1>2, Zenon DEF InStep, OneAtATime
<1>17. Unacknowledged' = {} => Follows(rows', state', eims', card')
  BY <1>1, <1>2, <1>6, <1>14, Zenon DEF InStep
<1>18. QED
  BY <1>13, <1>15, <1>16, <1>17, Zenon DEF InStep

LEMMA InStepAnswer ==
  ASSUME Sound, Following, NEW h \in Handlers, Answer(h)
  PROVE  Following'
<1> SUFFICES ASSUME exact'
             PROVE  InStep'
  BY DEF Following
<1> DEFINE on == handler[h].on
<1>1. /\ UNCHANGED <<queue, rows, state, eims, card, exact>> /\ handler' = [handler EXCEPT ![h] = Idle]
      /\ uploads' = uploads \/ uploads' = [uploads EXCEPT ![on].acknowledged = TRUE]
      /\ Busy(h) /\ handler[h].calls = <<>> /\ handler[h].writes = <<>>
  BY DEF Answer, Finished
<1>2. InStep
  BY <1>1 DEF Following
<1>3. CASE uploads' = uploads
  <2>1. SameOps
    BY <1>1, <1>3 DEF SameOps
  <2>2. QED
    BY <1>1, <1>2, <2>1, InStepAway, Zenon
<1>4. CASE uploads' = [uploads EXCEPT ![on].acknowledged = TRUE]
  <2>1. HandlerNear(handler[h], rows, state, eims, card)
    BY <1>1, <1>2 DEF InStep
  <2>2. Complete(<<>>, rows, state, eims, card)
    BY <1>1, <2>1, RangeNone DEF HandlerNear
  <2>3. Follows(rows, state, eims, card)
    BY <2>2, CompleteEnd
  <2>4. on \in Unacknowledged /\ \A i \in Unacknowledged : i = on
    BY <1>1, <1>2 DEF InStep, OneAtATime
  <2>5. /\ DOMAIN uploads' = DOMAIN uploads /\ uploads'[on].acknowledged
        /\ \A i \in DOMAIN uploads : i # on => uploads'[i] = uploads[i]
    <3>1. on \in DOMAIN uploads /\ DOMAIN uploads[on] = UploadFields
      BY <2>4, Zenon DEF Unacknowledged, Executed, Sound, UploadsSound
    <3> HIDE DEF on
    <3>2. QED
      BY <1>4, <3>1 DEF UploadFields
  <2>6. Unacknowledged' = {}
    BY <2>4, <2>5, Zenon DEF Unacknowledged, Executed
  <2>7. \A g \in Handlers : ~Busy(g)'
    <3>1. \A g \in Handlers : Busy(g) => g = h
      BY <1>1, <1>2 DEF InStep, OneAtATime
    <3>2. Idle.on = 0
      BY Zenon DEF Idle
    <3> HIDE DEF Idle
    <3>3. handler'[h] = Idle /\ \A g \in Handlers \ {h} : handler'[g] = handler[g]
      BY <1>1 DEF Sound, HandlersSound
    <3>4. QED
      BY <3>1, <3>2, <3>3, Zenon DEF Busy
  <2>8. OneAtATime'
    BY <2>6, <2>7 DEF OneAtATime
  <2>9. QED
    BY <1>1, <2>3, <2>6, <2>7, <2>8 DEF InStep
<1>5. QED
  BY <1>1, <1>3, <1>4

LEMMA InStepFail ==
  ASSUME Sound, Following, NEW h \in Handlers, Fail(h)
  PROVE  Following'
<1> SUFFICES ASSUME exact'
             PROVE  InStep'
  BY DEF Following
<1>1. exact /\ SameOps /\ handler' = [handler EXCEPT ![h] = Idle]
  BY Zenon DEF Fail, SameOps
<1>2. QED
  BY <1>1, InStepAway, Zenon DEF Following

LEMMA InStepEnqueue ==
  ASSUME Sound, Following, Enqueue
  PROVE  Following'
<1> SUFFICES ASSUME exact'
             PROVE  InStep'
  BY DEF Following
<1>1. /\ UNCHANGED <<rows, state, eims, card, uploads, handler, exact>>
      /\ \A i \in DOMAIN queue : queue'[i] = queue[i]
  BY EnqueueMeans, Zenon
<1>2. InStep /\ Unacknowledged' = Unacknowledged /\ Unacknowledged \subseteq DOMAIN queue
  BY <1>1, Zenon DEF Following, Unacknowledged, Executed, Sound, UploadsSound
<1>3. \A i \in Unacknowledged' : UploadNear(queue'[i].Op, uploads'[i], rows', state', eims', card')
  BY <1>1, <1>2, Zenon DEF InStep
<1>4. QED
  BY <1>1, <1>2, <1>3, Zenon DEF InStep, OneAtATime, Busy

LEMMA FollowingStep == Sound /\ Following /\ [Next]_vars => Following'
<1> SUFFICES ASSUME Sound, Following, [Next]_vars
             PROVE  Following'
  OBVIOUS
<1>1. ASSUME Sign \/ UNCHANGED vars
      PROVE  Following'
  <2>1. UNCHANGED <<queue, rows, state, eims, card, uploads, handler, exact>>
    BY <1>1, Zenon DEF Sign, vars
  <2>2. QED
    BY <2>1, Zenon DEF Following, InStep, OneAtATime, Unacknowledged, Executed, Busy
<1>2. ASSUME NEW h \in Handlers, HandlerStep(h) \/ Fail(h)
      PROVE  Following'
  BY <1>2, InStepVerify, InStepRecord, InStepRead, InStepWrite, InStepAnswer, InStepFail, Zenon DEF HandlerStep
<1>3. QED
  BY <1>1, <1>2, InStepEnqueue, InStepExecute, InStepReceive DEF Next

(* While results are handled one at a time and in order, the view follows  *)
(* the eUICC, whatever calls fail half way (ApplyPackageResultState,       *)
(* ApplyResponse): what a result has left to write is right, and is all    *)
(* that the view has wrong.                                                *)
THEOREM ViewKeepsUp == Spec => []ViewFollows
<1>1. Sound /\ Following => ViewFollows
  <2> SUFFICES ASSUME Sound, Following, exact, Unacknowledged = {}, \A h \in Handlers : ~Busy(h)
               PROVE  /\ DOMAIN rows \subseteq DOMAIN card.profiles
                      /\ \A p \in DOMAIN card.profiles :
                           LET row == IF p \in DOMAIN rows THEN rows[p] ELSE NoRow
                           IN /\ row.IsFallback = card.profiles[p].IsFallback
                              /\ card.profiles[p].IsEnabled => row.IsEnabled
                      /\ state # <<>> => state[1].Address \in {<<>>, card.address}
                      /\ eims = card.eims
    BY Zenon DEF ViewFollows
  <2>1. Follows(rows, state, eims, card)
    BY Zenon DEF Following, InStep
  <2>2. /\ DOMAIN rows \subseteq DOMAIN card.profiles
        /\ \A p \in DOMAIN card.profiles : RowRight(RowOf(rows, p), card.profiles[p])
    BY <2>1, Zenon DEF Follows, WrongRows
  <2>3. eims = card.eims
    <3>1. DOMAIN eims = DOMAIN card.eims /\ \A e \in DOMAIN eims : eims[e] = card.eims[e]
      BY <2>1, Zenon DEF Follows, WrongEims
    <3>2. IsMap(eims) /\ IsMap(card.eims)
      BY DEF Sound, ViewSound, IsCard
    <3>3. QED
      BY <3>1, <3>2 DEF IsMap
  <2>4. QED
    BY <2>1, <2>2, <2>3, Zenon DEF Follows, AddressRight, RowRight, RowOf
<1>2. QED
  BY <1>1, SoundInit, SoundStep, InStepInit, FollowingStep, PTL DEF Spec
=============================================================================
