------------------------ MODULE PackageEffectsProofs ------------------------
(***************************************************************************)
(* The eIM's view of one eUICC, for every plan, every eUICC and any number *)
(* of handlers and failures: nothing in it is made up.                     *)
(***************************************************************************)
EXTENDS PackageEffects, FiniteSetTheorems, WellFoundedInduction, TLAPS

-----------------------------------------------------------------------------
(* Sequences of store calls and what they range over. *)
IsSeq(s) == s \in Seq(Range(s))

LEMMA MadeSeq ==
  ASSUME NEW n \in Nat, NEW f, f = [i \in 1..n |-> f[i]]
  PROVE  IsSeq(f)
<1>1. DOMAIN f = 1..n
  OBVIOUS
<1>2. \A i \in 1..n : f[i] \in Range(f)
  BY <1>1 DEF Range
<1>3. f \in [1..n -> Range(f)]
  BY <1>2
<1> HIDE DEF Range
<1>4. QED
  BY <1>3 DEF IsSeq

LEMMA RangeNone == IsSeq(<<>>) /\ Range(<<>>) = {}
<1>1. DOMAIN <<>> = {}
  OBVIOUS
<1>2. Range(<<>>) = {}
  BY <1>1 DEF Range
<1>3. QED
  BY <1>2 DEF IsSeq

LEMMA RangeOne ==
  ASSUME NEW x
  PROVE  IsSeq(<<x>>) /\ Range(<<x>>) = {x}
<1>1. DOMAIN <<x>> = {1} /\ <<x>>[1] = x
  OBVIOUS
<1>2. Range(<<x>>) = {x}
  BY <1>1 DEF Range
<1>3. QED
  BY <1>2 DEF IsSeq

LEMMA SeqDomain ==
  ASSUME NEW s, IsSeq(s)
  PROVE  Len(s) \in Nat /\ DOMAIN s = 1..Len(s)
<1> DEFINE R == Range(s)
<1>1. s \in Seq(R)
  BY DEF IsSeq
<1> HIDE DEF R
<1>2. QED
  BY <1>1

LEMMA RangeJoin ==
  ASSUME NEW s, NEW t, IsSeq(s), IsSeq(t)
  PROVE  IsSeq(s \o t) /\ Range(s \o t) = Range(s) \cup Range(t)
<1> DEFINE R == Range(s) \cup Range(t)
<1>1. s \in Seq(R) /\ t \in Seq(R)
  <2> DEFINE A == Range(s)
             B == Range(t)
  <2>1. s \in Seq(A) /\ t \in Seq(B)
    BY DEF IsSeq
  <2> HIDE DEF A, B
  <2>2. s \in Seq(A \cup B) /\ t \in Seq(A \cup B)
    BY <2>1
  <2>3. QED
    BY <2>2 DEF A, B
<1> HIDE DEF R
<1>2. /\ Len(s) \in Nat /\ Len(t) \in Nat /\ DOMAIN s = 1..Len(s) /\ DOMAIN t = 1..Len(t)
      /\ s \o t \in Seq(R) /\ DOMAIN (s \o t) = 1..(Len(s) + Len(t))
      /\ \A i \in 1..Len(s) : (s \o t)[i] = s[i]
      /\ \A i \in 1..Len(t) : (s \o t)[i + Len(s)] = t[i]
  BY <1>1
<1>3. ASSUME NEW i \in DOMAIN (s \o t)
      PROVE  (s \o t)[i] \in Range(s) \cup Range(t)
  <2>1. CASE i \in 1..Len(s)
    BY <1>2, <2>1 DEF Range
  <2>2. CASE i \notin 1..Len(s)
    <3>1. i - Len(s) \in 1..Len(t) /\ (i - Len(s)) + Len(s) = i
      BY <1>2, <2>2
    <3>2. QED
      BY <1>2, <3>1 DEF Range
  <2>3. QED
    BY <2>1, <2>2
<1>4. ASSUME NEW i \in DOMAIN s
      PROVE  s[i] \in Range(s \o t)
  <2>1. i \in DOMAIN (s \o t) /\ (s \o t)[i] = s[i]
    BY <1>2
  <2>2. QED
    BY <2>1 DEF Range
<1>5. ASSUME NEW i \in DOMAIN t
      PROVE  t[i] \in Range(s \o t)
  <2>1. i + Len(s) \in DOMAIN (s \o t) /\ (s \o t)[i + Len(s)] = t[i]
    BY <1>2
  <2>2. QED
    BY <2>1 DEF Range
<1>6. Range(s \o t) = Range(s) \cup Range(t)
  <2>1. Range(s \o t) \subseteq Range(s) \cup Range(t)
    BY <1>3 DEF Range
  <2>2. Range(s) \subseteq Range(s \o t) /\ Range(t) \subseteq Range(s \o t)
    BY <1>4, <1>5 DEF Range
  <2>3. QED
    BY <2>1, <2>2
<1>7. QED
  BY <1>2, <1>6 DEF IsSeq, R

LEMMA RangeTail ==
  ASSUME NEW s, IsSeq(s), s # <<>>
  PROVE  IsSeq(Tail(s)) /\ Range(s) = {Head(s)} \cup Range(Tail(s))
<1> DEFINE R == Range(s)
           t == Tail(s)
<1>1. s \in Seq(R)
  BY DEF IsSeq
<1> HIDE DEF R
<1>2. /\ Len(s) \in Nat \ {0} /\ DOMAIN s = 1..Len(s) /\ Head(s) = s[1]
      /\ t \in Seq(R) /\ Len(t) = Len(s) - 1 /\ DOMAIN t = 1..Len(t)
      /\ \A i \in 1..Len(t) : t[i] = s[i + 1]
  BY <1>1
<1> HIDE DEF t
<1>3. IsSeq(t)
  <2>1. t = [i \in 1..Len(t) |-> t[i]] /\ Len(t) \in Nat
    BY <1>2
  <2>2. QED
    BY <2>1, MadeSeq
<1>4. \A i \in DOMAIN s : s[i] = Head(s) \/ s[i] \in Range(t)
  <2> TAKE i \in DOMAIN s
  <2>1. CASE i = 1
    BY <1>2, <2>1
  <2>2. CASE i # 1
    <3>1. i - 1 \in DOMAIN t /\ t[i - 1] = s[i]
      BY <1>2, <2>2
    <3>2. QED
      BY <3>1 DEF Range
  <2>3. QED
    BY <2>1, <2>2
<1>5. \A i \in DOMAIN t : t[i] \in Range(s)
  BY <1>2 DEF Range
<1>6. Head(s) \in Range(s)
  BY <1>2 DEF Range
<1>7. Range(s) \subseteq {Head(s)} \cup Range(t)
  BY <1>4 DEF Range
<1>8. Range(t) \subseteq Range(s)
  BY <1>5 DEF Range
<1>9. QED
  BY <1>3, <1>6, <1>7, <1>8 DEF t

LEMMA RangeAppend ==
  ASSUME NEW s, NEW x, IsSeq(s)
  PROVE  IsSeq(Append(s, x)) /\ Range(Append(s, x)) = Range(s) \cup {x}
<1>1. Append(s, x) = s \o <<x>>
  <2> DEFINE R == Range(s) \cup {x}
  <2>1. s \in Seq(R)
    <3> DEFINE A == Range(s)
    <3>1. s \in Seq(A)
      BY DEF IsSeq
    <3> HIDE DEF A
    <3>2. s \in Seq(A \cup {x})
      BY <3>1
    <3>3. QED
      BY <3>2 DEF A
  <2>2. x \in R
    OBVIOUS
  <2> HIDE DEF R
  <2>3. QED
    BY <2>1, <2>2
<1>2. QED
  BY <1>1, RangeOne, RangeJoin

-----------------------------------------------------------------------------
(* The order by ICCID lists each profile of a finite inventory. *)
LEMMA SortedIsAll ==
  ASSUME NEW S, IsFiniteSet(S), S \subseteq Nat
  PROVE  IsSeq(Sorted(S)) /\ Range(Sorted(S)) = S
<1> DEFINE n == Cardinality(S)
           Below(x) == {y \in S : y < x}
           rank == [x \in S |-> Cardinality(Below(x)) + 1]
           T == 1..n
<1>1. n \in Nat
  BY FS_CardinalityType
<1>2. \A x \in S : IsFiniteSet(Below(x)) /\ Cardinality(Below(x)) \in Nat
  <2> TAKE x \in S
  <2>1. Below(x) \in SUBSET S
    OBVIOUS
  <2>2. IsFiniteSet(Below(x))
    BY <2>1, FS_Subset
  <2>3. QED
    BY <2>2, FS_CardinalityType
<1>3. \A x \in S : Cardinality(Below(x)) < n
  <2> TAKE x \in S
  <2>1. Below(x) \in SUBSET S /\ x \notin Below(x) /\ x \in S
    OBVIOUS
  <2>2. Cardinality(Below(x)) <= n /\ (n = Cardinality(Below(x)) => S = Below(x))
    BY <2>1, FS_Subset
  <2>3. QED
    BY <1>1, <1>2, <2>1, <2>2
<1>4. \A x, z \in S : x < z => Cardinality(Below(x)) # Cardinality(Below(z))
  <2> TAKE x, z \in S
  <2> HAVE x < z
  <2>0. x \in Nat /\ z \in Nat /\ \A y \in S : y \in Nat
    OBVIOUS
  <2>1. Below(x) \in SUBSET Below(z) /\ x \in Below(z) /\ x \notin Below(x)
    <3>1. \A y \in S : y < x => y < z
      BY <2>0
    <3>2. ~(x < x)
      BY <2>0
    <3>3. QED
      BY <3>1, <3>2, Zenon
  <2>2. IsFiniteSet(Below(z))
    BY <1>2
  <2>3. Cardinality(Below(z)) = Cardinality(Below(x)) => Below(z) = Below(x)
    BY <2>1, <2>2, FS_Subset
  <2>4. QED
    BY <2>1, <2>3
<1>5. rank \in Injection(S, T)
  <2>1. rank \in [S -> T]
    BY <1>1, <1>2, <1>3
  <2>2. \A x, z \in S : x # z => Cardinality(Below(x)) # Cardinality(Below(z))
    <3> TAKE x, z \in S
    <3> HAVE x # z
    <3>1. x < z \/ z < x
      OBVIOUS
    <3> HIDE DEF Below
    <3>2. QED
      BY <1>4, <3>1
  <2>3. \A x, z \in S : rank[x] = rank[z] => x = z
    <3> HIDE DEF Below
    <3>1. QED
      BY <1>2, <2>2
  <2> HIDE DEF rank
  <2>4. QED
    BY <2>1, <2>3 DEF Injection, IsInjective
<1>6. IsFiniteSet(T) /\ Cardinality(T) = n
  BY <1>1, FS_Interval
<1>7. rank \in Surjection(S, T)
  <2> HIDE DEF rank, T, n
  <2>1. Cardinality(S) = Cardinality(T)
    BY <1>6 DEF n
  <2>2. QED
    BY <1>5, <1>6, <2>1, FS_Injection
<1>8. \A i \in T : \E x \in S : rank[x] = i
  <2> HIDE DEF rank, T, n
  <2>1. QED
    BY <1>7 DEF Surjection
<1>9. \A x, z \in S : rank[x] = rank[z] => x = z
  <2> HIDE DEF rank, T, n
  <2>1. QED
    BY <1>5 DEF Injection, IsInjective
<1> DEFINE place(i) == CHOOSE x \in S : Cardinality(Below(x)) = i - 1
<1>10. \A i \in T : place(i) \in S /\ rank[place(i)] = i
  <2> TAKE i \in T
  <2>1. PICK x \in S : rank[x] = i
    BY <1>8
  <2>2. Cardinality(Below(x)) = i - 1
    BY <1>1, <1>2, <2>1
  <2>3. place(i) \in S /\ Cardinality(Below(place(i))) = i - 1
    BY <2>2, Zenon
  <2> HIDE DEF place, Below
  <2>4. QED
    BY <1>1, <2>3
<1>11. Sorted(S) = [i \in T |-> place(i)]
  BY DEF Sorted
<1>12. IsSeq(Sorted(S))
  <2> HIDE DEF place
  <2>1. Sorted(S) = [i \in 1..n |-> Sorted(S)[i]]
    BY <1>11
  <2> HIDE DEF n
  <2>2. QED
    BY <1>1, <2>1, MadeSeq
<1>13. \A x \in S : rank[x] \in T /\ place(rank[x]) = x
  <2> HIDE DEF place
  <2>1. \A x \in S : rank[x] \in T
    <3> HIDE DEF rank, T
    <3>1. QED
      BY <1>5 DEF Injection
  <2> HIDE DEF rank, T
  <2>2. QED
    BY <1>9, <1>10, <2>1, Zenon
<1>14. Range(Sorted(S)) = S
  <2> HIDE DEF place, rank, T
  <2>1. DOMAIN Sorted(S) = T /\ \A i \in T : Sorted(S)[i] = place(i)
    BY <1>11
  <2>2. \A i \in DOMAIN Sorted(S) : Sorted(S)[i] \in S
    BY <1>10, <2>1
  <2>3. \A x \in S : \E i \in DOMAIN Sorted(S) : Sorted(S)[i] = x
    BY <1>13, <2>1
  <2>4. QED
    BY <2>2, <2>3, Zenon DEF Range
<1>15. QED
  BY <1>12, <1>14

LEMMA MinIsMin ==
  ASSUME NEW S \in SUBSET Nat, S # {}
  PROVE  Min(S) \in S /\ \A x \in S : Min(S) <= x
<1>1. PICK m \in S : \A x \in S : ~(x < m)
  <2>1. \E m \in S : \A x \in S : ~(<<x, m>> \in OpToRel(<, Nat))
    BY NatLessThanWellFounded, WFMin, Zenon
  <2>2. QED
    BY <2>1, Zenon DEF OpToRel
<1>2. \A x \in S : m <= x
  BY <1>1
<1>3. QED
  BY <1>2, Zenon DEF Min

(* A sequence made of another one, element by element. *)
LEMMA RangeMap ==
  ASSUME NEW s, IsSeq(s), NEW g, NEW t, t = [i \in DOMAIN s |-> g[s[i]]]
  PROVE  IsSeq(t) /\ Range(t) = {g[x] : x \in Range(s)}
<1>1. Len(s) \in Nat /\ DOMAIN s = 1..Len(s)
  BY SeqDomain
<1>2. DOMAIN t = DOMAIN s /\ \A i \in DOMAIN s : t[i] = g[s[i]]
  OBVIOUS
<1>3. t = [i \in 1..Len(s) |-> t[i]]
  BY <1>1
<1>4. IsSeq(t)
  BY <1>1, <1>3, MadeSeq
<1>5. Range(t) = {g[x] : x \in Range(s)}
  BY <1>2 DEF Range
<1>6. QED
  BY <1>4, <1>5

-----------------------------------------------------------------------------
(* What the store and the eUICC hold. *)
Row == [IsEnabled : BOOLEAN, IsFallback : BOOLEAN]
IsRows(r) == IsFiniteSet(DOMAIN r) /\ DOMAIN r \subseteq Nat /\ r \in [DOMAIN r -> Row]
IsMap(f) == f = [k \in DOMAIN f |-> f[k]]
IsCard(c) == DOMAIN c = {"profiles", "address", "eims", "info"} /\ IsRows(c.profiles) /\ IsMap(c.eims)

LEMMA PutRows ==
  ASSUME NEW r, IsRows(r), NEW k \in Nat, NEW v \in Row
  PROVE  IsRows(Put(r, k, v))
<1>1. DOMAIN Put(r, k, v) = DOMAIN r \cup {k} /\ Put(r, k, v) \in [DOMAIN r \cup {k} -> Row]
  BY DEF Put, IsRows
<1>2. IsFiniteSet(DOMAIN r \cup {k})
  BY FS_AddElement DEF IsRows
<1>3. QED
  BY <1>1, <1>2 DEF IsRows

LEMMA DropRows ==
  ASSUME NEW r, IsRows(r), NEW k
  PROVE  IsRows(Drop(r, k))
<1>1. DOMAIN Drop(r, k) = DOMAIN r \ {k} /\ Drop(r, k) \in [DOMAIN r \ {k} -> Row]
  BY DEF Drop, Restrict, IsRows
<1>2. IsFiniteSet(DOMAIN r \ {k})
  BY FS_RemoveElement DEF IsRows
<1>3. QED
  BY <1>1, <1>2 DEF IsRows

LEMMA PutMap ==
  ASSUME NEW f, NEW k, NEW v
  PROVE  /\ IsMap(Put(f, k, v)) /\ DOMAIN Put(f, k, v) = DOMAIN f \cup {k}
         /\ Put(f, k, v)[k] = v /\ \A l \in DOMAIN f \ {k} : Put(f, k, v)[l] = f[l]
BY DEF IsMap, Put

LEMMA DropMap ==
  ASSUME NEW f, NEW k
  PROVE  /\ IsMap(Drop(f, k)) /\ DOMAIN Drop(f, k) = DOMAIN f \ {k}
         /\ \A l \in DOMAIN f \ {k} : Drop(f, k)[l] = f[l]
BY DEF IsMap, Drop, Restrict

LEMMA MarkedRows ==
  ASSUME NEW c, IsCard(c), NEW k
  PROVE  /\ IsRows(Marked(c, k)) /\ DOMAIN Marked(c, k) = DOMAIN c.profiles
         /\ \A p \in DOMAIN c.profiles :
              Marked(c, k)[p].IsFallback = (p = k) /\ Marked(c, k)[p].IsEnabled = c.profiles[p].IsEnabled
<1>1. DOMAIN Marked(c, k) = DOMAIN c.profiles
  BY DEF Marked
<1>2. \A p \in DOMAIN c.profiles :
        /\ Marked(c, k)[p] \in Row
        /\ Marked(c, k)[p].IsFallback = (p = k) /\ Marked(c, k)[p].IsEnabled = c.profiles[p].IsEnabled
  <2> TAKE p \in DOMAIN c.profiles
  <2>1. c.profiles[p] \in Row /\ (p = k) \in BOOLEAN
    BY DEF IsCard, IsRows
  <2>2. Marked(c, k)[p] = [c.profiles[p] EXCEPT !.IsFallback = (p = k)]
    BY DEF Marked
  <2>3. QED
    BY <2>1, <2>2, Zenon DEF Row
<1>3. Marked(c, k) = [p \in DOMAIN c.profiles |-> Marked(c, k)[p]]
  BY DEF Marked
<1>4. QED
  BY <1>1, <1>2, <1>3 DEF IsRows, IsCard

LEMMA UnmarkedRows ==
  ASSUME NEW c, IsCard(c)
  PROVE  /\ IsRows(Unmarked(c)) /\ DOMAIN Unmarked(c) = DOMAIN c.profiles
         /\ \A p \in DOMAIN c.profiles :
              ~Unmarked(c)[p].IsFallback /\ Unmarked(c)[p].IsEnabled = c.profiles[p].IsEnabled
<1>1. DOMAIN Unmarked(c) = DOMAIN c.profiles
  BY DEF Unmarked
<1>2. \A p \in DOMAIN c.profiles :
        /\ Unmarked(c)[p] \in Row
        /\ ~Unmarked(c)[p].IsFallback /\ Unmarked(c)[p].IsEnabled = c.profiles[p].IsEnabled
  <2> TAKE p \in DOMAIN c.profiles
  <2>1. c.profiles[p] \in Row
    BY DEF IsCard, IsRows
  <2>2. Unmarked(c)[p] = [c.profiles[p] EXCEPT !.IsFallback = FALSE]
    BY DEF Unmarked
  <2>3. QED
    BY <2>1, <2>2, Zenon DEF Row
<1>3. Unmarked(c) = [p \in DOMAIN c.profiles |-> Unmarked(c)[p]]
  BY DEF Unmarked
<1>4. QED
  BY <1>1, <1>2, <1>3 DEF IsRows, IsCard

LEMMA SwitchedRows ==
  ASSUME NEW c, IsCard(c), NEW k
  PROVE  /\ IsRows(Switched(c, k)) /\ DOMAIN Switched(c, k) = DOMAIN c.profiles
         /\ \A p \in DOMAIN c.profiles :
              Switched(c, k)[p].IsEnabled = (p = k) /\ Switched(c, k)[p].IsFallback = c.profiles[p].IsFallback
<1>1. DOMAIN Switched(c, k) = DOMAIN c.profiles
  BY DEF Switched
<1>2. \A p \in DOMAIN c.profiles :
        /\ Switched(c, k)[p] \in Row
        /\ Switched(c, k)[p].IsEnabled = (p = k) /\ Switched(c, k)[p].IsFallback = c.profiles[p].IsFallback
  <2> TAKE p \in DOMAIN c.profiles
  <2>1. c.profiles[p] \in Row /\ (p = k) \in BOOLEAN
    BY DEF IsCard, IsRows
  <2>2. Switched(c, k)[p] = [c.profiles[p] EXCEPT !.IsEnabled = (p = k)]
    BY DEF Switched
  <2>3. QED
    BY <2>1, <2>2, Zenon DEF Row
<1>3. Switched(c, k) = [p \in DOMAIN c.profiles |-> Switched(c, k)[p]]
  BY DEF Switched
<1>4. QED
  BY <1>1, <1>2, <1>3 DEF IsRows, IsCard

(* The eUICC after each operation that it can carry out. *)
LEMMA AfterIsCard ==
  ASSUME NEW c, IsCard(c), NEW op, op.ICCID \in Nat, Can(c, op)
  PROVE  IsCard(After(c, op))
<1>0. NoRow \in Row
  BY DEF NoRow, Row
<1>1. CASE op.Kind = "enable"
  <2>1. After(c, op) = [c EXCEPT !.profiles = Switched(c, op.ICCID)]
    BY <1>1 DEF After
  <2>2. QED
    BY <2>1, SwitchedRows DEF IsCard
<1>2. CASE op.Kind = "disable"
  <2> DEFINE row == [c.profiles[op.ICCID] EXCEPT !.IsEnabled = FALSE]
  <2>1. op.ICCID \in DOMAIN c.profiles
    BY <1>2 DEF Can
  <2>2. row \in Row
    BY <2>1 DEF IsCard, IsRows, Row
  <2>3. After(c, op) = [c EXCEPT !.profiles = Put(c.profiles, op.ICCID, row)]
    BY <1>2 DEF After
  <2> HIDE DEF row
  <2>4. IsRows(Put(c.profiles, op.ICCID, row))
    BY <2>2, PutRows DEF IsCard
  <2>5. QED
    BY <2>3, <2>4 DEF IsCard
<1>3. CASE op.Kind = "delete"
  <2>1. IsRows(Drop(c.profiles, op.ICCID))
    BY DropRows DEF IsCard
  <2>2. After(c, op) = [c EXCEPT !.profiles = Drop(c.profiles, op.ICCID)]
    BY <1>3 DEF After
  <2>3. QED
    BY <2>1, <2>2 DEF IsCard
<1>4. CASE op.Kind = "setFallbackAttribute"
  <2>1. After(c, op) = [c EXCEPT !.profiles = Marked(c, op.ICCID)]
    BY <1>4 DEF After
  <2>2. QED
    BY <2>1, MarkedRows DEF IsCard
<1>5. CASE op.Kind = "unsetFallbackAttribute"
  <2>1. After(c, op) = [c EXCEPT !.profiles = Unmarked(c)]
    BY <1>5 DEF After
  <2>2. QED
    BY <2>1, UnmarkedRows DEF IsCard
<1>6. CASE op.Kind = "profileDownload"
  <2>1. After(c, op) = [c EXCEPT !.profiles = Put(c.profiles, op.ICCID, NoRow)]
    BY <1>6 DEF After
  <2>2. IsRows(Put(c.profiles, op.ICCID, NoRow))
    BY <1>0, PutRows DEF IsCard
  <2>3. QED
    BY <2>1, <2>2 DEF IsCard
<1>7. CASE op.Kind \in {"addEim", "updateEim", "deleteEim"}
  <2>1. \/ After(c, op) = c
        \/ \E v : After(c, op) = [c EXCEPT !.eims = Put(c.eims, op.EimID, v)]
        \/ After(c, op) = [c EXCEPT !.eims = Drop(c.eims, op.EimID)]
    BY <1>7, Zenon DEF After
  <2>2. ASSUME NEW v, After(c, op) = [c EXCEPT !.eims = Put(c.eims, op.EimID, v)]
        PROVE  IsCard(After(c, op))
    <3>1. IsMap(Put(c.eims, op.EimID, v))
      BY PutMap, Zenon
    <3>2. QED
      BY <2>2, <3>1 DEF IsCard
  <2>3. ASSUME After(c, op) = [c EXCEPT !.eims = Drop(c.eims, op.EimID)]
        PROVE  IsCard(After(c, op))
    <3>1. IsMap(Drop(c.eims, op.EimID))
      BY DropMap, Zenon
    <3>2. QED
      BY <2>3, <3>1 DEF IsCard
  <2>4. QED
    BY <2>1, <2>2, <2>3
<1>8. CASE op.Kind \notin {"enable", "disable", "delete", "setFallbackAttribute", "unsetFallbackAttribute",
                           "profileDownload", "addEim", "updateEim", "deleteEim"}
  <2>1. \/ After(c, op) = c
        \/ After(c, op) = [c EXCEPT !.address = <<op.Address>>]
        \/ After(c, op) = [c EXCEPT !.info = c.info + 1]
    BY <1>8, Zenon DEF After
  <2>2. QED
    BY <2>1 DEF IsCard
<1>9. QED
  BY <1>1, <1>2, <1>3, <1>4, <1>5, <1>6, <1>7, <1>8

-----------------------------------------------------------------------------
(* What each effect writes. *)

LEMMA SyncRange ==
  ASSUME NEW existing, IsRows(existing), NEW profiles, IsSeq(profiles)
  PROVE  /\ IsSeq(syncProfileInventory(existing, profiles))
         /\ Range(syncProfileInventory(existing, profiles)) =
              {SetProfileState(x.ICCID, x.Row) : x \in Range(profiles)}
              \cup {DeleteProfileState(k) : k \in DOMAIN existing \ {x.ICCID : x \in Range(profiles)}}
<1> DEFINE seen == {profiles[i].ICCID : i \in DOMAIN profiles}
           gone == DOMAIN existing \ seen
           unseen == Sorted(gone)
           g == [x \in Range(profiles) |-> SetProfileState(x.ICCID, x.Row)]
           d == [k \in gone |-> DeleteProfileState(k)]
           s == [i \in DOMAIN profiles |-> g[profiles[i]]]
           t == [i \in DOMAIN unseen |-> d[unseen[i]]]
<1>1. seen = {x.ICCID : x \in Range(profiles)}
  BY DEF Range
<1>2. IsSeq(unseen) /\ Range(unseen) = gone
  <2>1. IsFiniteSet(gone) /\ gone \subseteq Nat
    BY FS_Difference, Zenon DEF IsRows
  <2> HIDE DEF gone
  <2>2. QED
    BY <2>1, SortedIsAll, Zenon
<1>3. \A i \in DOMAIN profiles : profiles[i] \in Range(profiles)
  BY DEF Range
<1>4. \A i \in DOMAIN unseen : unseen[i] \in gone
  <2> HIDE DEF gone, unseen
  <2>1. QED
    BY <1>2 DEF Range
<1>5. syncProfileInventory(existing, profiles) = s \o t
  <2>1. s = [i \in DOMAIN profiles |-> SetProfileState(profiles[i].ICCID, profiles[i].Row)]
    BY <1>3
  <2>2. t = [i \in DOMAIN unseen |-> DeleteProfileState(unseen[i])]
    <3> HIDE DEF gone, unseen
    <3>1. QED
      BY <1>4
  <2>3. QED
    BY <2>1, <2>2, Zenon DEF syncProfileInventory
<1>6. IsSeq(s) /\ Range(s) = {g[x] : x \in Range(profiles)}
  <2>1. s = [i \in DOMAIN profiles |-> g[profiles[i]]]
    OBVIOUS
  <2> HIDE DEF s, g
  <2>2. QED
    BY <2>1, RangeMap
<1>7. IsSeq(t) /\ Range(t) = {d[k] : k \in gone}
  <2>1. t = [i \in DOMAIN unseen |-> d[unseen[i]]]
    OBVIOUS
  <2> HIDE DEF t, d, unseen, gone
  <2>2. IsSeq(t) /\ Range(t) = {d[k] : k \in Range(unseen)}
    BY <1>2, <2>1, RangeMap
  <2>3. QED
    BY <1>2, <2>2
<1>8. {g[x] : x \in Range(profiles)} = {SetProfileState(x.ICCID, x.Row) : x \in Range(profiles)}
  OBVIOUS
<1>9. {d[k] : k \in gone} = {DeleteProfileState(k) : k \in gone}
  <2> HIDE DEF gone
  <2>1. QED
    OBVIOUS
<1> HIDE DEF s, t, g, d, seen, unseen
<1>10. IsSeq(s \o t) /\ Range(s \o t) = Range(s) \cup Range(t)
  BY <1>6, <1>7, RangeJoin
<1>11. QED
  BY <1>1, <1>5, <1>6, <1>7, <1>8, <1>9, <1>10, Zenon

(* The rows whose mark is not as it has to be. *)
Misplaced(r, iccid) == {q \in DOMAIN r : r[q].IsFallback # (q = iccid)}
Moved(r, iccid) == [q \in DOMAIN r |-> SetProfileState(q, [r[q] EXCEPT !.IsFallback = (q = iccid)])]

LEMMA FallbackRange ==
  ASSUME NEW existing, IsRows(existing), NEW iccid
  PROVE  /\ IsSeq(setProfileFallback(existing, iccid))
         /\ Range(setProfileFallback(existing, iccid)) =
              {Moved(existing, iccid)[p] : p \in Misplaced(existing, iccid)}
              \cup (IF iccid \in DOMAIN existing THEN {}
                    ELSE {SetProfileState(iccid, [NoRow EXCEPT !.IsFallback = TRUE])})
<1> DEFINE wrong == {q \in DOMAIN existing : existing[q].IsFallback # (q = iccid)}
           moved == Sorted(wrong)
           g == [p \in wrong |-> SetProfileState(p, [existing[p] EXCEPT !.IsFallback = (p = iccid)])]
           s == [i \in DOMAIN moved |-> g[moved[i]]]
           new == SetProfileState(iccid, [NoRow EXCEPT !.IsFallback = TRUE])
<1>1. IsSeq(moved) /\ Range(moved) = wrong
  <2>1. wrong \in SUBSET (DOMAIN existing) /\ wrong \subseteq Nat
    BY DEF IsRows
  <2>2. IsFiniteSet(wrong)
    BY <2>1, FS_Subset DEF IsRows
  <2> HIDE DEF wrong
  <2>3. QED
    BY <2>1, <2>2, SortedIsAll
<1>2. \A i \in DOMAIN moved : moved[i] \in wrong
  <2> HIDE DEF wrong, moved
  <2>1. QED
    BY <1>1 DEF Range
<1>3. s = [i \in DOMAIN moved |->
             SetProfileState(moved[i], [existing[moved[i]] EXCEPT !.IsFallback = moved[i] = iccid])]
  <2> HIDE DEF wrong, moved
  <2>1. QED
    BY <1>2
<1>4. setProfileFallback(existing, iccid) = IF iccid \in DOMAIN existing THEN s ELSE Append(s, new)
  BY <1>3, Zenon DEF setProfileFallback
<1>5. IsSeq(s) /\ Range(s) = {g[p] : p \in wrong}
  <2>1. s = [i \in DOMAIN moved |-> g[moved[i]]]
    OBVIOUS
  <2> HIDE DEF s, g, moved, wrong
  <2>2. IsSeq(s) /\ Range(s) = {g[p] : p \in Range(moved)}
    BY <1>1, <2>1, RangeMap
  <2>3. QED
    BY <1>1, <2>2
<1>6. {g[p] : p \in wrong} = {Moved(existing, iccid)[p] : p \in Misplaced(existing, iccid)}
  <2>1. wrong = Misplaced(existing, iccid)
    BY DEF Misplaced
  <2>2. \A p \in wrong : g[p] = Moved(existing, iccid)[p]
    BY DEF Moved
  <2> HIDE DEF wrong, g
  <2>3. QED
    BY <2>1, <2>2
<1> HIDE DEF s, g, moved, new
<1>7. CASE iccid \in DOMAIN existing
  BY <1>4, <1>5, <1>6, <1>7
<1>8. CASE iccid \notin DOMAIN existing
  <2>1. IsSeq(Append(s, new)) /\ Range(Append(s, new)) = Range(s) \cup {new}
    BY <1>5, RangeAppend
  <2>2. QED
    BY <1>4, <1>5, <1>6, <1>8, <2>1, Zenon DEF new
<1>9. QED
  BY <1>7, <1>8, Zenon

LEMMA ClearRange ==
  ASSUME NEW existing, IsRows(existing)
  PROVE  /\ IsSeq(clearProfileFallback(existing))
         /\ Range(clearProfileFallback(existing)) =
              {SetProfileState(p, [existing[p] EXCEPT !.IsFallback = FALSE]) :
                 p \in {q \in DOMAIN existing : existing[q].IsFallback}}
<1> DEFINE wrong == {q \in DOMAIN existing : existing[q].IsFallback}
           marked == Sorted(wrong)
           g == [p \in wrong |-> SetProfileState(p, [existing[p] EXCEPT !.IsFallback = FALSE])]
           s == [i \in DOMAIN marked |-> g[marked[i]]]
<1>1. IsSeq(marked) /\ Range(marked) = wrong
  <2>1. wrong \in SUBSET (DOMAIN existing) /\ wrong \subseteq Nat
    BY DEF IsRows
  <2>2. IsFiniteSet(wrong)
    BY <2>1, FS_Subset DEF IsRows
  <2> HIDE DEF wrong
  <2>3. QED
    BY <2>1, <2>2, SortedIsAll
<1>2. \A i \in DOMAIN marked : marked[i] \in wrong
  <2> HIDE DEF wrong, marked
  <2>1. QED
    BY <1>1 DEF Range
<1>3. clearProfileFallback(existing) = s
  <2>1. s = [i \in DOMAIN marked |-> SetProfileState(marked[i], [existing[marked[i]] EXCEPT !.IsFallback = FALSE])]
    <3> HIDE DEF wrong, marked
    <3>1. QED
      BY <1>2
  <2>2. QED
    BY <2>1, Zenon DEF clearProfileFallback
<1>4. IsSeq(s) /\ Range(s) = {g[p] : p \in wrong}
  <2>1. s = [i \in DOMAIN marked |-> g[marked[i]]]
    OBVIOUS
  <2> HIDE DEF s, g, marked, wrong
  <2>2. IsSeq(s) /\ Range(s) = {g[p] : p \in Range(marked)}
    BY <1>1, <2>1, RangeMap
  <2>3. QED
    BY <1>1, <2>2
<1>5. {g[p] : p \in wrong} = {SetProfileState(p, [existing[p] EXCEPT !.IsFallback = FALSE]) : p \in wrong}
  <2> HIDE DEF wrong
  <2>1. QED
    OBVIOUS
<1>6. QED
  BY <1>3, <1>4, <1>5, Zenon

-----------------------------------------------------------------------------
(* Rows, tokens, writes and results that say only what was true once. *)
RowTrue(iccid, row, p) ==
  /\ iccid \in Nat /\ row \in Row /\ <<"profile", iccid>> \in p
  /\ row.IsEnabled => <<"enabled", iccid>> \in p
  /\ row.IsFallback => <<"fallback", iccid>> \in p

TokenTrue(e, token, p) == token # <<>> => <<"token", e, token[1]>> \in p

ViewTrue(r, a, p) ==
  /\ \A q \in DOMAIN r : RowTrue(q, r[q], p)
  /\ \A e \in DOMAIN a : TokenTrue(e, a[e], p)

WriteTrue(w, p) ==
  /\ (w.to = "rows" /\ w.value # <<>>) => RowTrue(w.key, w.value[1], p)
  /\ (w.to = "eims" /\ w.value # <<>>) => TokenTrue(w.key, w.value[1], p)

ResultTrue(op, u, p) ==
  /\ op.Kind = "enable" => <<"profile", op.ICCID>> \in p /\ <<"enabled", op.ICCID>> \in p
  /\ op.Kind = "disable" => <<"profile", op.ICCID>> \in p
  /\ op.Kind = "setFallbackAttribute" => <<"profile", op.ICCID>> \in p /\ <<"fallback", op.ICCID>> \in p
  /\ op.Kind = "addEim" =>
       TokenTrue(op.EimID, IF u.report.token # <<>> THEN u.report.token ELSE op.Token, p)
  /\ op.Kind = "updateEim" => TokenTrue(op.EimID, op.Token, p)

UploadTrue(op, u, p) ==
  /\ IsSeq(u.report.profiles) /\ \A x \in Range(u.report.profiles) : RowTrue(x.ICCID, x.Row, p)
  /\ u.ok => ResultTrue(op, u, p)

LEMMA FactsAreTrue ==
  ASSUME NEW c, NEW p, IsRows(c.profiles)
  PROVE  Facts(c) \subseteq p <=> ViewTrue(c.profiles, c.eims, p)
<1>1. ASSUME Facts(c) \subseteq p
      PROVE  ViewTrue(c.profiles, c.eims, p)
  <2>1. \A q \in DOMAIN c.profiles : c.profiles[q] \in Row /\ q \in Nat
    BY DEF IsRows
  <2>2. \A q \in DOMAIN c.profiles : c.profiles[q].IsEnabled => <<"enabled", q>> \in Facts(c)
    BY DEF Facts
  <2>3. \A q \in DOMAIN c.profiles : c.profiles[q].IsFallback => <<"fallback", q>> \in Facts(c)
    BY DEF Facts
  <2>4. \A q \in DOMAIN c.profiles : <<"profile", q>> \in Facts(c)
    BY DEF Facts
  <2>5. \A e \in DOMAIN c.eims : c.eims[e] # <<>> => <<"token", e, c.eims[e][1]>> \in Facts(c)
    BY DEF Facts
  <2>6. QED
    BY <1>1, <2>1, <2>2, <2>3, <2>4, <2>5 DEF ViewTrue, RowTrue, TokenTrue
<1>2. ASSUME ViewTrue(c.profiles, c.eims, p)
      PROVE  Facts(c) \subseteq p
  BY <1>2, Zenon DEF Facts, ViewTrue, RowTrue, TokenTrue
<1>3. QED
  BY <1>1, <1>2

LEMMA TruthStays ==
  ASSUME NEW p, NEW q, p \subseteq q
  PROVE  /\ \A r, a : ViewTrue(r, a, p) => ViewTrue(r, a, q)
         /\ \A w : WriteTrue(w, p) => WriteTrue(w, q)
         /\ \A op, u : UploadTrue(op, u, p) => UploadTrue(op, u, q)
<1>1. \A i, r : RowTrue(i, r, p) => RowTrue(i, r, q)
  BY DEF RowTrue
<1>2. \A e, t : TokenTrue(e, t, p) => TokenTrue(e, t, q)
  BY DEF TokenTrue
<1>3. \A op, u : ResultTrue(op, u, p) => ResultTrue(op, u, q)
  BY <1>2 DEF ResultTrue
<1>4. QED
  BY <1>1, <1>2, <1>3, Zenon DEF ViewTrue, WriteTrue, UploadTrue

LEMMA InventoryRange ==
  ASSUME NEW c, IsCard(c)
  PROVE  /\ IsSeq(Inventory(c))
         /\ Range(Inventory(c)) = {[ICCID |-> p, Row |-> c.profiles[p]] : p \in DOMAIN c.profiles}
<1> DEFINE all == DOMAIN c.profiles
           iccids == Sorted(all)
           g == [p \in all |-> [ICCID |-> p, Row |-> c.profiles[p]]]
           s == [i \in DOMAIN iccids |-> g[iccids[i]]]
<1>1. IsSeq(iccids) /\ Range(iccids) = all
  <2>1. IsFiniteSet(all) /\ all \subseteq Nat
    BY DEF IsCard, IsRows
  <2> HIDE DEF all
  <2>2. QED
    BY <2>1, SortedIsAll, Zenon
<1>2. \A i \in DOMAIN iccids : iccids[i] \in all
  <2> HIDE DEF all, iccids
  <2>1. QED
    BY <1>1 DEF Range
<1>3. Inventory(c) = s
  <2>1. s = [i \in DOMAIN iccids |-> [ICCID |-> iccids[i], Row |-> c.profiles[iccids[i]]]]
    <3> HIDE DEF all, iccids
    <3>1. QED
      BY <1>2
  <2>2. QED
    BY <2>1, Zenon DEF Inventory
<1>4. IsSeq(s) /\ Range(s) = {g[p] : p \in all}
  <2>1. s = [i \in DOMAIN iccids |-> g[iccids[i]]]
    OBVIOUS
  <2> HIDE DEF s, g, iccids, all
  <2>2. IsSeq(s) /\ Range(s) = {g[p] : p \in Range(iccids)}
    BY <1>1, <2>1, RangeMap
  <2>3. QED
    BY <1>1, <2>2
<1>5. {g[p] : p \in all} = {[ICCID |-> p, Row |-> c.profiles[p]] : p \in all}
  BY Zenon
<1>6. QED
  BY <1>3, <1>4, <1>5, Zenon

(* What the eUICC reports is true of it. *)
LEMMA InventoryIsTrue ==
  ASSUME NEW c, IsCard(c), NEW op, NEW p, ViewTrue(c.profiles, c.eims, p)
  PROVE  /\ IsSeq(ReportOf(c, op).profiles)
         /\ \A x \in Range(ReportOf(c, op).profiles) : RowTrue(x.ICCID, x.Row, p)
<1>1. ReportOf(c, op).profiles = Inventory(c) \/ ReportOf(c, op).profiles = <<>>
  BY Zenon DEF ReportOf
<1>2. CASE ReportOf(c, op).profiles = <<>>
  BY <1>2, RangeNone
<1>3. CASE ReportOf(c, op).profiles = Inventory(c)
  BY <1>3, InventoryRange DEF ViewTrue
<1>4. QED
  BY <1>1, <1>2, <1>3, Zenon

LEMMA ResultIsTrue ==
  ASSUME NEW c, IsCard(c), NEW op, op.ICCID \in Nat, Can(c, op), NEW after, after = After(c, op),
         NEW p, ViewTrue(after.profiles, after.eims, p), NEW u, u.report = ReportOf(after, op)
  PROVE  ResultTrue(op, u, p)
<1>0. ViewTrue(after.profiles, after.eims, p)
  OBVIOUS
<1>2. CASE op.Kind = "enable"
  <2>1. after.profiles = Switched(c, op.ICCID) /\ op.ICCID \in DOMAIN c.profiles
    BY <1>2 DEF After, Can, IsCard
  <2>2. op.ICCID \in DOMAIN after.profiles /\ after.profiles[op.ICCID].IsEnabled
    <3>1. \A q \in DOMAIN c.profiles : Switched(c, op.ICCID)[q].IsEnabled = (q = op.ICCID)
      BY SwitchedRows
    <3>3. DOMAIN Switched(c, op.ICCID) = DOMAIN c.profiles
      BY DEF Switched
    <3>4. QED
      BY <2>1, <3>1, <3>3, Zenon
  <2>3. RowTrue(op.ICCID, after.profiles[op.ICCID], p)
    BY <1>0, <2>2, Zenon DEF ViewTrue
  <2>4. QED
    BY <1>2, <2>2, <2>3, Zenon DEF RowTrue, ResultTrue
<1>3. CASE op.Kind = "disable"
  <2>1. op.ICCID \in DOMAIN after.profiles
    <3>1. PICK row : after.profiles = Put(c.profiles, op.ICCID, row)
      BY <1>3 DEF After, IsCard
    <3>2. op.ICCID \in DOMAIN Put(c.profiles, op.ICCID, row)
      BY DEF Put
    <3>3. QED
      BY <3>1, <3>2
  <2>2. QED
    BY <1>0, <1>3, <2>1, Zenon DEF ViewTrue, RowTrue, ResultTrue
<1>4. CASE op.Kind = "setFallbackAttribute"
  <2>1. after.profiles = Marked(c, op.ICCID) /\ op.ICCID \in DOMAIN c.profiles
    BY <1>4 DEF After, Can, IsCard
  <2>2. op.ICCID \in DOMAIN after.profiles /\ after.profiles[op.ICCID].IsFallback
    <3>1. \A q \in DOMAIN c.profiles : Marked(c, op.ICCID)[q].IsFallback = (q = op.ICCID)
      BY MarkedRows
    <3>3. DOMAIN Marked(c, op.ICCID) = DOMAIN c.profiles
      BY DEF Marked
    <3>4. QED
      BY <2>1, <3>1, <3>3, Zenon
  <2>3. RowTrue(op.ICCID, after.profiles[op.ICCID], p)
    BY <1>0, <2>2, Zenon DEF ViewTrue
  <2>4. QED
    BY <1>4, <2>2, <2>3, Zenon DEF RowTrue, ResultTrue
<1>5. CASE op.Kind = "addEim"
  <2>1. u.report.token = <<NewToken>>
    BY <1>5 DEF ReportOf
  <2>2. op.EimID \in DOMAIN after.eims /\ after.eims[op.EimID] = <<NewToken>>
    <3>1. after.eims = Put(c.eims, op.EimID, <<NewToken>>)
      BY <1>5 DEF After, IsCard
    <3>2. /\ op.EimID \in DOMAIN Put(c.eims, op.EimID, <<NewToken>>)
          /\ Put(c.eims, op.EimID, <<NewToken>>)[op.EimID] = <<NewToken>>
      BY Zenon DEF Put
    <3>3. QED
      BY <3>1, <3>2, Zenon
  <2>3. TokenTrue(op.EimID, <<NewToken>>, p)
    BY <1>0, <2>2, Zenon DEF ViewTrue
  <2>4. QED
    BY <1>5, <2>1, <2>3 DEF ResultTrue
<1>6. CASE op.Kind = "updateEim"
  <2>1. CASE op.Token = <<>>
    BY <1>6, <2>1 DEF ResultTrue, TokenTrue
  <2>2. CASE op.Token # <<>>
    <3>1. after.eims = Put(c.eims, op.EimID, op.Token)
      BY <1>6, <2>2 DEF After, IsCard
    <3>2. op.EimID \in DOMAIN after.eims /\ after.eims[op.EimID] = op.Token
      <4>1. /\ op.EimID \in DOMAIN Put(c.eims, op.EimID, op.Token)
            /\ Put(c.eims, op.EimID, op.Token)[op.EimID] = op.Token
        BY Zenon DEF Put
      <4>2. QED
        BY <3>1, <4>1, Zenon
    <3>3. TokenTrue(op.EimID, op.Token, p)
      BY <1>0, <3>2, Zenon DEF ViewTrue
    <3>4. QED
      BY <1>6, <3>3, Zenon DEF ResultTrue
  <2>3. QED
    BY <2>1, <2>2
<1>7. QED
  BY <1>2, <1>3, <1>4, <1>5, <1>6, Zenon DEF ResultTrue

-----------------------------------------------------------------------------
(* The effects write only what was true once. *)
AllTrue(s, p) == IsSeq(s) /\ \A w \in Range(s) : WriteTrue(w, p)

LEMMA RowWriteTrue ==
  ASSUME NEW k, NEW row, NEW p
  PROVE  /\ RowTrue(k, row, p) => WriteTrue(SetProfileState(k, row), p)
         /\ WriteTrue(DeleteProfileState(k), p)
BY DEF WriteTrue, SetProfileState, DeleteProfileState

LEMMA TokenWriteTrue ==
  ASSUME NEW e, NEW token, NEW p
  PROVE  /\ TokenTrue(e, token, p) => WriteTrue(SetAssociatedEIM(e, token), p)
         /\ WriteTrue(DeleteAssociatedEIM(e), p)
BY DEF WriteTrue, SetAssociatedEIM, DeleteAssociatedEIM

LEMMA OneTrue ==
  ASSUME NEW w, NEW p, WriteTrue(w, p)
  PROVE  AllTrue(<<w>>, p)
BY RangeOne DEF AllTrue

LEMMA NoneTrue ==
  ASSUME NEW p
  PROVE  AllTrue(<<>>, p)
BY RangeNone DEF AllTrue

LEMMA SyncTrue ==
  ASSUME NEW r, IsRows(r), NEW profiles, IsSeq(profiles), NEW p,
         \A x \in Range(profiles) : RowTrue(x.ICCID, x.Row, p)
  PROVE  AllTrue(syncProfileInventory(r, profiles), p)
<1>1. \A x \in Range(profiles) : WriteTrue(SetProfileState(x.ICCID, x.Row), p)
  BY RowWriteTrue
<1>2. \A k : WriteTrue(DeleteProfileState(k), p)
  BY RowWriteTrue
<1>3. \A w \in Range(syncProfileInventory(r, profiles)) :
        \/ \E x \in Range(profiles) : w = SetProfileState(x.ICCID, x.Row)
        \/ \E k \in DOMAIN r : w = DeleteProfileState(k)
  BY SyncRange
<1>4. IsSeq(syncProfileInventory(r, profiles))
  BY SyncRange, Zenon
<1>5. QED
  BY <1>1, <1>2, <1>3, <1>4 DEF AllTrue

LEMMA EnabledTrue ==
  ASSUME NEW r, IsRows(r), NEW a, NEW p, ViewTrue(r, a, p), NEW k \in Nat, NEW on \in BOOLEAN,
         <<"profile", k>> \in p, on => <<"enabled", k>> \in p
  PROVE  AllTrue(setProfileEnabled(r, k, on), p)
<1> DEFINE row == IF k \in DOMAIN r THEN r[k] ELSE NoRow
           new == [row EXCEPT !.IsEnabled = on]
<1>1. row \in Row /\ (row.IsFallback => <<"fallback", k>> \in p)
  BY DEF IsRows, ViewTrue, RowTrue, NoRow, Row
<1> HIDE DEF row
<1>2. new \in Row /\ new.IsEnabled = on /\ new.IsFallback = row.IsFallback
  BY <1>1 DEF Row
<1> HIDE DEF new
<1>3. RowTrue(k, new, p)
  BY <1>1, <1>2 DEF RowTrue
<1>4. AllTrue(<<SetProfileState(k, new)>>, p)
  BY <1>3, RowWriteTrue, OneTrue
<1>5. setProfileEnabled(r, k, on) = <<SetProfileState(k, new)>>
  BY DEF setProfileEnabled, new, row
<1>6. QED
  BY <1>4, <1>5

LEMMA FallbackTrue ==
  ASSUME NEW r, IsRows(r), NEW a, NEW p, ViewTrue(r, a, p), NEW k \in Nat,
         <<"profile", k>> \in p, <<"fallback", k>> \in p
  PROVE  AllTrue(setProfileFallback(r, k), p)
<1>1. \A q \in DOMAIN r : RowTrue(q, [r[q] EXCEPT !.IsFallback = (q = k)], p)
  <2> TAKE q \in DOMAIN r
  <2>1. RowTrue(q, r[q], p) /\ r[q] \in Row /\ (q = k) \in BOOLEAN
    BY DEF ViewTrue, RowTrue
  <2> DEFINE new == [r[q] EXCEPT !.IsFallback = (q = k)]
  <2>2. new \in Row /\ new.IsEnabled = r[q].IsEnabled /\ new.IsFallback = (q = k)
    BY <2>1, Zenon DEF Row
  <2> HIDE DEF new
  <2>3. RowTrue(q, new, p)
    BY <2>1, <2>2, Zenon DEF RowTrue
  <2>4. QED
    BY <2>3 DEF new
<1>2. RowTrue(k, [NoRow EXCEPT !.IsFallback = TRUE], p)
  BY Zenon DEF RowTrue, NoRow, Row
<1>3. \A q \in DOMAIN r : WriteTrue(Moved(r, k)[q], p)
  <2> TAKE q \in DOMAIN r
  <2>1. Moved(r, k)[q] = SetProfileState(q, [r[q] EXCEPT !.IsFallback = (q = k)])
    BY DEF Moved
  <2>2. QED
    BY <1>1, <2>1, RowWriteTrue
<1>4. WriteTrue(SetProfileState(k, [NoRow EXCEPT !.IsFallback = TRUE]), p)
  BY <1>2, RowWriteTrue
<1>5. \A w \in Range(setProfileFallback(r, k)) :
        \/ \E q \in DOMAIN r : w = Moved(r, k)[q]
        \/ w = SetProfileState(k, [NoRow EXCEPT !.IsFallback = TRUE])
  <2>1. Range(setProfileFallback(r, k)) =
          {Moved(r, k)[q] : q \in Misplaced(r, k)}
          \cup (IF k \in DOMAIN r THEN {} ELSE {SetProfileState(k, [NoRow EXCEPT !.IsFallback = TRUE])})
    BY FallbackRange, Zenon
  <2>2. Misplaced(r, k) \subseteq DOMAIN r
    BY DEF Misplaced
  <2>3. QED
    BY <2>1, <2>2
<1>6. IsSeq(setProfileFallback(r, k))
  BY FallbackRange
<1>7. QED
  BY <1>3, <1>4, <1>5, <1>6, Zenon DEF AllTrue

LEMMA ClearTrue ==
  ASSUME NEW r, IsRows(r), NEW a, NEW p, ViewTrue(r, a, p)
  PROVE  AllTrue(clearProfileFallback(r), p)
<1>1. \A q \in DOMAIN r : RowTrue(q, [r[q] EXCEPT !.IsFallback = FALSE], p)
  BY Zenon DEF ViewTrue, RowTrue, Row
<1>2. \A q \in DOMAIN r : WriteTrue(SetProfileState(q, [r[q] EXCEPT !.IsFallback = FALSE]), p)
  BY <1>1, RowWriteTrue
<1>3. \A w \in Range(clearProfileFallback(r)) :
        \E q \in DOMAIN r : w = SetProfileState(q, [r[q] EXCEPT !.IsFallback = FALSE])
  BY ClearRange
<1>4. IsSeq(clearProfileFallback(r))
  BY ClearRange
<1>5. QED
  BY <1>2, <1>3, <1>4, Zenon DEF AllTrue

(* Both halves of ApplyPackageResultState. *)
LEMMA PSMOTrue ==
  ASSUME NEW r, IsRows(r), NEW a, NEW p, ViewTrue(r, a, p), NEW op, op.ICCID \in Nat, NEW s,
         NEW u, UploadTrue(op, u, p), u.ok
  PROVE  AllTrue(applyPSMOState(op, r, s, u.report), p)
<1>0. ResultTrue(op, u, p)
  BY DEF UploadTrue
<1>1. CASE op.Kind = "enable"
  <2>1. AllTrue(setProfileEnabled(r, op.ICCID, TRUE), p)
    BY <1>0, <1>1, EnabledTrue, Zenon DEF ResultTrue
  <2>2. QED
    BY <1>1, <2>1, Zenon DEF applyPSMOState
<1>2. CASE op.Kind = "disable"
  <2>1. AllTrue(setProfileEnabled(r, op.ICCID, FALSE), p)
    BY <1>0, <1>2, EnabledTrue, Zenon DEF ResultTrue
  <2>2. QED
    BY <1>2, <2>1, Zenon DEF applyPSMOState
<1>3. CASE op.Kind = "delete"
  <2>1. AllTrue(<<DeleteProfileState(op.ICCID)>>, p)
    BY RowWriteTrue, OneTrue
  <2>2. QED
    BY <1>3, <2>1 DEF applyPSMOState
<1>4. CASE op.Kind = "listProfileInfo"
  <2>1. AllTrue(syncProfileInventory(r, u.report.profiles), p)
    BY SyncTrue DEF UploadTrue
  <2>2. QED
    BY <1>4, <2>1 DEF applyPSMOState
<1>5. CASE op.Kind = "setFallbackAttribute"
  <2>1. AllTrue(setProfileFallback(r, op.ICCID), p)
    BY <1>0, <1>5, FallbackTrue, Zenon DEF ResultTrue
  <2>2. QED
    BY <1>5, <2>1 DEF applyPSMOState
<1>6. CASE op.Kind = "unsetFallbackAttribute"
  <2>1. AllTrue(clearProfileFallback(r), p)
    BY ClearTrue
  <2>2. QED
    BY <1>6, <2>1 DEF applyPSMOState
<1>7. CASE op.Kind = "setDefaultDpAddress"
  <2>1. PICK w : setEUICCDefaultSMDPAddress(s, op.Address) = <<SetEUICCState(w)>>
    BY DEF setEUICCDefaultSMDPAddress
  <2>2. WriteTrue(SetEUICCState(w), p)
    BY DEF WriteTrue, SetEUICCState
  <2>3. AllTrue(<<SetEUICCState(w)>>, p)
    BY <2>2, OneTrue
  <2>4. QED
    BY <1>7, <2>1, <2>3 DEF applyPSMOState
<1>8. CASE op.Kind \notin {"enable", "disable", "delete", "listProfileInfo", "setFallbackAttribute",
                           "unsetFallbackAttribute", "setDefaultDpAddress"}
  <2>1. applyPSMOState(op, r, s, u.report) = <<>>
    BY <1>8, Zenon DEF applyPSMOState
  <2>2. QED
    BY <2>1, NoneTrue
<1>9. QED
  BY <1>1, <1>2, <1>3, <1>4, <1>5, <1>6, <1>7, <1>8

LEMMA ECOTrue ==
  ASSUME NEW r, NEW a, NEW p, ViewTrue(r, a, p), NEW op, NEW u, UploadTrue(op, u, p), u.ok
  PROVE  AllTrue(applyECOState(op, a, u.report), p)
<1>0. ResultTrue(op, u, p)
  BY DEF UploadTrue
<1>1. CASE op.Kind = "addEim"
  <2> DEFINE token == IF u.report.token # <<>> THEN u.report.token ELSE op.Token
  <2>1. TokenTrue(op.EimID, token, p)
    BY <1>0, <1>1, Zenon DEF ResultTrue
  <2>2. applyECOState(op, a, u.report) = <<SetAssociatedEIM(op.EimID, token)>>
    BY <1>1 DEF applyECOState
  <2> HIDE DEF token
  <2>3. AllTrue(<<SetAssociatedEIM(op.EimID, token)>>, p)
    BY <2>1, TokenWriteTrue, OneTrue
  <2>4. QED
    BY <2>2, <2>3
<1>2. CASE op.Kind = "updateEim"
  <2> DEFINE token == IF op.Token # <<>> THEN op.Token ELSE existingAssociationToken(a, op.EimID)
  <2>1. TokenTrue(op.EimID, existingAssociationToken(a, op.EimID), p)
    BY DEF existingAssociationToken, ViewTrue, TokenTrue
  <2>2. TokenTrue(op.EimID, token, p)
    BY <1>0, <1>2, <2>1, Zenon DEF ResultTrue
  <2>3. applyECOState(op, a, u.report) = <<SetAssociatedEIM(op.EimID, token)>>
    BY <1>2 DEF applyECOState
  <2> HIDE DEF token
  <2>4. AllTrue(<<SetAssociatedEIM(op.EimID, token)>>, p)
    BY <2>2, TokenWriteTrue, OneTrue
  <2>5. QED
    BY <2>3, <2>4
<1>3. CASE op.Kind = "deleteEim"
  <2>1. AllTrue(<<DeleteAssociatedEIM(op.EimID)>>, p)
    BY TokenWriteTrue, OneTrue
  <2>2. QED
    BY <1>3, <2>1 DEF applyECOState
<1>4. CASE op.Kind \notin {"addEim", "updateEim", "deleteEim"}
  <2>1. applyECOState(op, a, u.report) = <<>>
    BY <1>4 DEF applyECOState
  <2>2. QED
    BY <2>1, NoneTrue
<1>5. QED
  BY <1>1, <1>2, <1>3, <1>4

LEMMA BothTrue ==
  ASSUME NEW s, NEW t, NEW p, AllTrue(s, p), AllTrue(t, p)
  PROVE  AllTrue(s \o t, p)
BY RangeJoin DEF AllTrue

-----------------------------------------------------------------------------
(***************************************************************************)
(* The invariant behind NothingInvented: what the view says, the writes    *)
(* that handlers have still to make, and the results that the IPA holds,   *)
(* were all true once.                                                     *)
(***************************************************************************)
Asked(op) == op.ICCID \in Nat /\ (op.Asks # {} => op.Kind = "ipaEuiccData")

QueueSound ==
  /\ plan \in Plans /\ IsSeq(queue)
  /\ \A i \in DOMAIN queue : DOMAIN queue[i] = {"Op", "Status", "Token"} /\ Asked(queue[i].Op)

ViewSound ==
  /\ IsCard(card) /\ IsRows(rows) /\ IsMap(eims)
  /\ ViewTrue(card.profiles, card.eims, past) /\ ViewTrue(rows, eims, past)

UploadFields == {"ok", "refused", "token", "report", "acknowledged"}

UploadsSound ==
  /\ DOMAIN uploads \subseteq DOMAIN queue
  /\ \A i \in DOMAIN uploads :
       /\ DOMAIN uploads[i] = UploadFields
       /\ UploadTrue(queue[i].Op, uploads[i], past)
       /\ uploads[i].report.listed = ("profiles" \in queue[i].Op.Asks)

HandlerSound(hd, ups, p) ==
  /\ DOMAIN hd = {"on", "calls", "writes", "alone"}
  /\ hd.on # 0 => hd.on \in DOMAIN ups
  /\ IsSeq(hd.calls) /\ AllTrue(hd.writes, p)
  /\ "apply" \in Range(hd.calls) => hd.on # 0 /\ ups[hd.on].ok

HandlersSound ==
  DOMAIN handler = Handlers /\ \A h \in Handlers : HandlerSound(handler[h], uploads, past)

Sound == QueueSound /\ ViewSound /\ UploadsSound /\ HandlersSound

(* The eUICC's token for this eIM. *)
OwnToken == AssociationTokenForEIM(card.eims)

-----------------------------------------------------------------------------
LEMMA AppendAt ==
  ASSUME NEW s, IsSeq(s), NEW x
  PROVE  /\ DOMAIN Append(s, x) = DOMAIN s \cup {Len(s) + 1} /\ Len(s) + 1 \notin DOMAIN s
         /\ \A i \in DOMAIN s : Append(s, x)[i] = s[i]
         /\ Append(s, x)[Len(s) + 1] = x
<1> DEFINE R == Range(s) \cup {x}
<1>1. s \in Seq(R)
  <2>1. Range(s) \subseteq R
    OBVIOUS
  <2> HIDE DEF R
  <2>2. QED
    BY <2>1 DEF IsSeq
<1>2. Len(s) \in Nat /\ DOMAIN s = 1..Len(s)
  BY SeqDomain
<1>3. x \in R
  OBVIOUS
<1> HIDE DEF R
<1>4. DOMAIN Append(s, x) = 1..Len(s) + 1
  BY <1>1, <1>2, <1>3
<1>5. \A i \in 1..Len(s) : Append(s, x)[i] = s[i]
  BY <1>1, <1>2, <1>3
<1>6. Append(s, x)[Len(s) + 1] = x
  BY <1>1, <1>2, <1>3
<1>7. 1..Len(s) + 1 = 1..Len(s) \cup {Len(s) + 1} /\ Len(s) + 1 \notin 1..Len(s)
  BY <1>2
<1>8. QED
  BY <1>2, <1>4, <1>5, <1>6, <1>7

LEMMA PlanOp ==
  ASSUME QueueSound, Len(queue) < Len(plan)
  PROVE  Asked(plan[Len(queue) + 1])
<1>1. IsSeq(plan) /\ \A op \in Range(plan) : Asked(op)
  BY PlansAssumption DEF QueueSound, IsSeq, Asked
<1>2. Len(plan) \in Nat /\ DOMAIN plan = 1..Len(plan) /\ Len(queue) \in Nat
  BY <1>1, SeqDomain, Zenon DEF QueueSound
<1>3. Len(queue) + 1 \in DOMAIN plan
  BY <1>2
<1>4. QED
  BY <1>1, <1>3 DEF Range

(* Packages go first, the oldest of them. *)
LEMMA OfferedIsPending ==
  ASSUME QueueSound, Pending # {}
  PROVE  /\ Offered \in Pending
         /\ IsPackage(queue[Offered].Op) => \A i \in PendingPackages : Offered <= i
<1>1. Pending \in SUBSET Nat /\ PendingPackages \in SUBSET Nat /\ PendingPackages \subseteq Pending
  BY SeqDomain DEF QueueSound, Pending, PendingPackages
<1>2. CASE PendingPackages # {}
  <2>1. Min(PendingPackages) \in PendingPackages /\ \A i \in PendingPackages : Min(PendingPackages) <= i
    BY <1>1, <1>2, MinIsMin
  <2>2. QED
    BY <1>1, <1>2, <2>1, Zenon DEF Offered
<1>3. CASE PendingPackages = {}
  <2>1. Min(Pending) \in Pending
    BY <1>1, MinIsMin
  <2>2. Offered \in Pending
    BY <1>3, <2>1 DEF Offered
  <2>3. QED
    BY <1>3, <2>2
<1>4. QED
  BY <1>2, <1>3

(* Execute in parts. *)
TheOp == queue[Offered].Op
TheRefusal == IsPackage(TheOp) /\ (Own \notin DOMAIN card.eims \/ queue[Offered].Token # OwnToken)
Succeeds == ~TheRefusal /\ Can(card, TheOp)
TheCard == IF Succeeds THEN After(card, TheOp) ELSE card
TheUpload == [ok |-> Succeeds, refused |-> TheRefusal, token |-> OwnToken,
              report |-> ReportOf(TheCard, TheOp), acknowledged |-> FALSE]

LEMMA ExecuteMeans ==
  ASSUME Execute
  PROVE  /\ Pending # {} /\ Offered \notin Executed
         /\ card' = TheCard /\ past' = past \cup Facts(TheCard)
         /\ uploads' = Put(uploads, Offered, TheUpload)
         /\ handler' = [h \in Handlers |->
              [handler[h] EXCEPT !.alone = handler[h].alone /\ TheCard.profiles = card.profiles]]
         /\ UNCHANGED <<plan, signing, queue, rows, state, eims, failures>>
BY DEF Execute, TheOp, TheRefusal, Succeeds, TheCard, TheUpload, OwnToken

LEMMA ExecutedCard ==
  ASSUME Sound, Execute
  PROVE  /\ IsCard(TheCard) /\ ViewTrue(TheCard.profiles, TheCard.eims, past')
         /\ UploadTrue(TheOp, TheUpload, past') /\ DOMAIN TheUpload = UploadFields
         /\ TheUpload.report.listed = ("profiles" \in TheOp.Asks)
<1>1. Offered \in DOMAIN queue
  BY OfferedIsPending, ExecuteMeans DEF Sound, Pending
<1>2. IsCard(card) /\ TheOp.ICCID \in Nat
  BY <1>1, Zenon DEF Sound, ViewSound, QueueSound, Asked, TheOp
<1>3. IsCard(TheCard)
  BY <1>2, AfterIsCard DEF TheCard, Succeeds
<1>4. ViewTrue(TheCard.profiles, TheCard.eims, past')
  <2>1. Facts(TheCard) \subseteq past'
    BY ExecuteMeans
  <2>2. QED
    BY <1>3, <2>1, FactsAreTrue DEF IsCard
<1>5. TheUpload.report = ReportOf(TheCard, TheOp) /\ (TheUpload.ok <=> Succeeds) /\ DOMAIN TheUpload = UploadFields
  BY Zenon DEF TheUpload, UploadFields
<1>6. ReportOf(TheCard, TheOp).listed = ("profiles" \in TheOp.Asks)
  BY Zenon DEF ReportOf
<1>7. /\ IsSeq(ReportOf(TheCard, TheOp).profiles)
      /\ \A x \in Range(ReportOf(TheCard, TheOp).profiles) : RowTrue(x.ICCID, x.Row, past')
  BY <1>3, <1>4, InventoryIsTrue
<1>8. ASSUME Succeeds
      PROVE  ResultTrue(TheOp, TheUpload, past')
  <2>1. TheCard = After(card, TheOp) /\ Can(card, TheOp)
    BY <1>8 DEF TheCard, Succeeds
  <2>2. QED
    BY <1>2, <1>4, <1>5, <2>1, ResultIsTrue
<1>9. UploadTrue(TheOp, TheUpload, past')
  BY <1>5, <1>7, <1>8, Zenon DEF UploadTrue
<1>10. QED
  BY <1>3, <1>4, <1>5, <1>6, <1>9, Zenon

LEMMA IdleSound ==
  ASSUME NEW ups, NEW p
  PROVE  HandlerSound(Idle, ups, p)
<1>1. /\ DOMAIN Idle = {"on", "calls", "writes", "alone"}
      /\ Idle.on = 0 /\ Idle.calls = <<>> /\ Idle.writes = <<>>
  BY Zenon DEF Idle
<1>2. QED
  BY <1>1, RangeNone, NoneTrue, Zenon DEF HandlerSound

LEMMA SoundInit == Init => Sound
<1> SUFFICES ASSUME Init
             PROVE  Sound
  OBVIOUS
<1>1. QueueSound
  <2>1. IsSeq(<<>>) /\ DOMAIN <<>> = {}
    BY RangeNone
  <2>2. QED
    BY <2>1 DEF Init, QueueSound
<1>2. IsCard(card)
  BY CardsAssumption DEF Init, IsCard, IsRows, IsMap, Row
<1>3. IsRows(rows)
  <2>1. rows = card.profiles \/ rows = <<>>
    BY Zenon DEF Init
  <2>2. IsRows(<<>>)
    BY FS_EmptySet DEF IsRows
  <2>3. QED
    BY <1>2, <2>1, <2>2 DEF IsCard
<1>4. ViewTrue(card.profiles, card.eims, past)
  BY <1>2, FactsAreTrue, Zenon DEF Init, IsCard
<1>5. ViewTrue(rows, eims, past)
  BY <1>4 DEF Init, ViewTrue
<1>6. ViewSound
  BY <1>2, <1>3, <1>4, <1>5, Zenon DEF ViewSound, Init, IsCard
<1>7. UploadsSound
  BY DEF Init, UploadsSound
<1>8. HandlersSound
  BY IdleSound, Zenon DEF Init, HandlersSound
<1>9. QED
  BY <1>1, <1>6, <1>7, <1>8 DEF Sound

(* Handlers that stay as they are, or whose calls and writes shrink. *)
LEMMA HandlerKept ==
  ASSUME NEW hd, NEW ups, NEW p, HandlerSound(hd, ups, p), NEW vps, NEW q, p \subseteq q,
         DOMAIN ups \subseteq DOMAIN vps, \A i \in DOMAIN ups : ups[i].ok => vps[i].ok
  PROVE  /\ HandlerSound(hd, vps, q)
         /\ \A b : HandlerSound([hd EXCEPT !.alone = b], vps, q)
<1>1. AllTrue(hd.writes, q)
  BY TruthStays, Zenon DEF HandlerSound, AllTrue
<1>2. HandlerSound(hd, vps, q)
  BY <1>1 DEF HandlerSound
<1>3. ASSUME NEW b
      PROVE  HandlerSound([hd EXCEPT !.alone = b], vps, q)
  <2> DEFINE hb == [hd EXCEPT !.alone = b]
  <2>1. DOMAIN hb = DOMAIN hd /\ hb.on = hd.on /\ hb.calls = hd.calls /\ hb.writes = hd.writes
    BY DEF HandlerSound
  <2> HIDE DEF hb
  <2>2. HandlerSound(hb, vps, q)
    BY <1>2, <2>1, Zenon DEF HandlerSound
  <2>3. QED
    BY <2>2 DEF hb
<1>4. QED
  BY <1>2, <1>3

LEMMA SignSound == Sound /\ Sign => Sound'
BY Zenon DEF Sound, Sign, QueueSound, ViewSound, UploadsSound, HandlersSound

LEMMA EnqueueSound == Sound /\ Enqueue => Sound'
<1> SUFFICES ASSUME Sound, Enqueue
             PROVE  Sound'
  OBVIOUS
<1> DEFINE op == plan[Len(queue) + 1]
           entry == [Op |-> op, Status |-> "pending", Token |-> IF IsPackage(op) THEN signing[1] ELSE 0]
           n == Len(queue) + 1
<1>1. queue' = Append(queue, entry)
  BY DEF Enqueue
<1>2. entry.Op = op /\ DOMAIN entry = {"Op", "Status", "Token"}
  BY Zenon
<1>3. Asked(op)
  BY PlanOp, Zenon DEF Enqueue, Sound
<1> HIDE DEF entry, op
<1>4. /\ DOMAIN queue' = DOMAIN queue \cup {n} /\ n \notin DOMAIN queue
      /\ \A i \in DOMAIN queue : queue'[i] = queue[i]
      /\ queue'[n] = entry
  BY <1>1, AppendAt DEF Sound, QueueSound
<1>5. IsSeq(queue')
  BY <1>1, RangeAppend DEF Sound, QueueSound
<1> HIDE DEF n
<1>6. UNCHANGED <<plan, rows, state, eims, card, uploads, handler, past>>
  BY Zenon DEF Enqueue
<1>7. QueueSound'
  BY <1>2, <1>3, <1>4, <1>5, <1>6, Zenon DEF Sound, QueueSound
<1>8. ViewSound'
  BY <1>6 DEF Sound, ViewSound
<1>9. UploadsSound'
  BY <1>4, <1>6, Zenon DEF Sound, UploadsSound
<1>10. HandlersSound'
  BY <1>6 DEF Sound, HandlersSound
<1>11. QED
  BY <1>7, <1>8, <1>9, <1>10 DEF Sound

LEMMA ExecuteSound == Sound /\ Execute => Sound'
<1> SUFFICES ASSUME Sound, Execute
             PROVE  Sound'
  OBVIOUS
<1>1. /\ card' = TheCard /\ past' = past \cup Facts(TheCard)
      /\ uploads' = Put(uploads, Offered, TheUpload) /\ Offered \notin DOMAIN uploads
      /\ UNCHANGED <<plan, queue, rows, eims>>
  BY ExecuteMeans DEF Executed
<1>2. handler' = [h \in Handlers |->
         [handler[h] EXCEPT !.alone = handler[h].alone /\ TheCard.profiles = card.profiles]]
  BY ExecuteMeans
<1>3. past \subseteq past'
  BY <1>1, Zenon
<1>4. Offered \in DOMAIN queue
  BY OfferedIsPending, ExecuteMeans DEF Sound, Pending
<1>5. DOMAIN uploads' = DOMAIN uploads \cup {Offered}
  BY <1>1, Zenon DEF Put
<1>6. uploads'[Offered] = TheUpload
  BY <1>1 DEF Put
<1>7. \A i \in DOMAIN uploads : uploads'[i] = uploads[i]
  BY <1>1 DEF Put
<1>8. QueueSound'
  BY <1>1, Zenon DEF Sound, QueueSound
<1>9. ViewSound'
  <2>1. ViewTrue(rows, eims, past')
    BY <1>3, TruthStays, Zenon DEF Sound, ViewSound
  <2>2. QED
    BY <1>1, <2>1, ExecutedCard, Zenon DEF Sound, ViewSound
<1>10. UploadsSound'
  <2>1. \A i \in DOMAIN uploads : UploadTrue(queue[i].Op, uploads[i], past')
    BY <1>3, TruthStays, Zenon DEF Sound, UploadsSound
  <2>2. queue[Offered].Op = TheOp
    BY DEF TheOp
  <2>3. QED
    BY <1>1, <1>4, <1>5, <1>6, <1>7, <2>1, <2>2, ExecutedCard DEF Sound, UploadsSound
<1>11. HandlersSound'
  <2>1. \A h \in Handlers : \A b : HandlerSound([handler[h] EXCEPT !.alone = b], uploads', past')
    BY <1>3, <1>5, <1>7, HandlerKept DEF Sound, HandlersSound
  <2>2. QED
    BY <1>2, <2>1, Zenon DEF HandlersSound
<1>12. QED
  BY <1>8, <1>9, <1>10, <1>11 DEF Sound

LEMMA RangeTwo ==
  ASSUME NEW x, NEW y
  PROVE  IsSeq(<<x, y>>) /\ Range(<<x, y>>) = {x, y}
<1>1. DOMAIN <<x, y>> = {1, 2} /\ <<x, y>>[1] = x /\ <<x, y>>[2] = y
  OBVIOUS
<1>2. Range(<<x, y>>) = {x, y}
  BY <1>1 DEF Range
<1>3. QED
  BY <1>2 DEF IsSeq

LEMMA ReceiveSound ==
  ASSUME NEW i \in DOMAIN queue, Sound, Receive(i)
  PROVE  Sound'
<1> DEFINE op == queue[i].Op
           u == uploads[i]
           free == CHOOSE h \in Handlers : ~Busy(h)
           calls == CallsFor(op, u)
           b == (\A g \in Handlers : ~Busy(g)) /\ uploads[i].report.profiles = Inventory(card)
           new == [on |-> i, calls |-> calls, writes |-> <<>>, alone |-> b]
<1>1. i \in DOMAIN uploads /\ free \in Handlers
  BY Zenon DEF Receive, Unacknowledged, Executed
<1>2. handler' = [handler EXCEPT ![free] = new]
  BY Zenon DEF Receive
<1>3. UNCHANGED <<plan, queue, rows, eims, card, uploads, past>>
  BY Zenon DEF Receive
<1>4. IsSeq(calls) /\ ("apply" \in Range(calls) => u.ok)
  <2> HIDE DEF op, u
  <2>1. IsSeq(<<"record">>) /\ Range(<<"record">>) = {"record"}
    BY RangeOne
  <2>2. IsSeq(<<"verify">>) /\ Range(<<"verify">>) = {"verify"}
    BY RangeOne
  <2>3. IsSeq(<<"apply">>) /\ Range(<<"apply">>) = {"apply"}
    BY RangeOne
  <2>4. IsSeq(<<"state", "sync">>) /\ Range(<<"state", "sync">>) = {"state", "sync"}
    BY RangeTwo
  <2>5. IsSeq(<<>>) /\ Range(<<>>) = {}
    BY RangeNone
  <2>6. CASE ~IsPackage(op)
    <3> DEFINE t == IF op.Kind = "ipaEuiccData" /\ u.ok THEN <<"state", "sync">> ELSE <<>>
    <3>1. calls = <<"record">> \o t
      BY <2>6 DEF CallsFor
    <3>2. IsSeq(t) /\ Range(t) \subseteq {"state", "sync"}
      BY <2>4, <2>5
    <3> HIDE DEF t, calls
    <3>3. QED
      BY <2>1, <3>1, <3>2, RangeJoin
  <2>7. CASE IsPackage(op)
    <3> DEFINE s == IF u.refused THEN <<>> ELSE <<"verify">>
               t == IF u.ok THEN <<"apply">> ELSE <<>>
    <3>1. calls = s \o <<"record">> \o t
      BY <2>7 DEF CallsFor
    <3>2. IsSeq(s) /\ Range(s) \subseteq {"verify"}
      BY <2>2, <2>5
    <3>3. IsSeq(t) /\ ("apply" \in Range(t) => u.ok)
      BY <2>3, <2>5
    <3> HIDE DEF s, t, calls
    <3>4. IsSeq(s \o <<"record">>) /\ Range(s \o <<"record">>) = Range(s) \cup Range(<<"record">>)
      BY <2>1, <3>2, RangeJoin
    <3> DEFINE st == s \o <<"record">>
    <3> HIDE DEF st
    <3>5. IsSeq(st) /\ Range(st) \subseteq {"verify", "record"} /\ calls = st \o t
      BY <2>1, <3>1, <3>2, <3>4 DEF st
    <3>6. IsSeq(st \o t) /\ Range(st \o t) = Range(st) \cup Range(t)
      BY <3>3, <3>5, RangeJoin, Zenon
    <3>7. QED
      BY <3>3, <3>5, <3>6
  <2>8. QED
    BY <2>6, <2>7
<1>5. HandlerSound(new, uploads, past)
  <2>1. new.on = i /\ new.calls = calls /\ new.writes = <<>> /\ DOMAIN new = {"on", "calls", "writes", "alone"}
    BY Zenon
  <2>2. i # 0
    BY SeqDomain DEF Sound, QueueSound
  <2> HIDE DEF new, calls
  <2>3. QED
    BY <1>1, <1>4, <2>1, <2>2, NoneTrue, Zenon DEF HandlerSound
<1> HIDE DEF new, free
<1>6. HandlersSound'
  BY <1>1, <1>2, <1>3, <1>5, Zenon DEF Sound, HandlersSound
<1>7. QED
  BY <1>3, <1>6, Zenon DEF Sound, QueueSound, ViewSound, UploadsSound

(* The handler after a call: what is left to call and the new writes. *)
LEMMA AdvancedSound ==
  ASSUME Sound, NEW h \in Handlers, handler[h].calls # <<>>, NEW writes, AllTrue(writes, past)
  PROVE  /\ DOMAIN Advanced(h, writes) = Handlers
         /\ \A g \in Handlers : HandlerSound(Advanced(h, writes)[g], uploads, past)
<1> DEFINE new == [handler[h] EXCEPT !.calls = Tail(handler[h].calls), !.writes = writes]
<1>1. \A g \in Handlers : HandlerSound(handler[g], uploads, past)
  BY Zenon DEF Sound, HandlersSound
<1>2. \A g \in Handlers : HandlerSound([handler[g] EXCEPT !.alone = FALSE], uploads, past)
  BY <1>1, HandlerKept
<1>3. HandlerSound(new, uploads, past)
  <2>1. /\ DOMAIN new = {"on", "calls", "writes", "alone"} /\ new.on = handler[h].on
        /\ new.calls = Tail(handler[h].calls) /\ new.writes = writes
    BY <1>1 DEF HandlerSound
  <2>2. IsSeq(Tail(handler[h].calls)) /\ Range(Tail(handler[h].calls)) \subseteq Range(handler[h].calls)
    BY <1>1, RangeTail, Zenon DEF HandlerSound
  <2> HIDE DEF new
  <2>3. QED
    BY <1>1, <2>1, <2>2, Zenon DEF HandlerSound
<1> HIDE DEF new
<1>4. Advanced(h, writes) = [g \in Handlers |-> IF g = h THEN new ELSE [handler[g] EXCEPT !.alone = FALSE]]
  BY DEF Advanced, new
<1>5. QED
  BY <1>2, <1>3, <1>4

LEMMA VerifySound ==
  ASSUME NEW h \in Handlers, Sound, Verify(h)
  PROVE  Sound'
<1>1. handler[h].calls # <<>> /\ UNCHANGED <<plan, queue, rows, eims, card, uploads, past>>
  BY Zenon DEF Verify, Calling
<1>2. handler' = Advanced(h, <<>>) \/ handler' = [handler EXCEPT ![h] = Idle]
  BY Zenon DEF Verify
<1>3. HandlersSound'
  <2>1. CASE handler' = Advanced(h, <<>>)
    BY <1>1, <2>1, AdvancedSound, NoneTrue, Zenon DEF HandlersSound
  <2>2. CASE handler' = [handler EXCEPT ![h] = Idle]
    BY <1>1, <2>2, IdleSound, Zenon DEF Sound, HandlersSound
  <2>3. QED
    BY <1>2, <2>1, <2>2
<1>4. QED
  BY <1>1, <1>3, Zenon DEF Sound, QueueSound, ViewSound, UploadsSound

LEMMA RecordSound ==
  ASSUME NEW h \in Handlers, Sound, RecordEUICCPackageResult(h)
  PROVE  Sound'
<1> DEFINE on == handler[h].on
<1>1. handler[h].calls # <<>> /\ UNCHANGED <<plan, rows, eims, card, uploads, past>>
  BY DEF RecordEUICCPackageResult, Calling
<1>2. PICK status : queue' = [queue EXCEPT ![on].Status = status]
  BY Zenon DEF RecordEUICCPackageResult
<1>3. on \in DOMAIN queue
  BY DEF RecordEUICCPackageResult, Calling, Busy, Sound, HandlersSound, HandlerSound, UploadsSound
<1>4. /\ DOMAIN queue' = DOMAIN queue
      /\ \A i \in DOMAIN queue : DOMAIN queue'[i] = DOMAIN queue[i] /\ queue'[i].Op = queue[i].Op
  <2> HIDE DEF on
  <2>1. QED
    BY <1>2, <1>3 DEF Sound, QueueSound
<1>5. IsSeq(queue')
  <2>1. Len(queue) \in Nat /\ DOMAIN queue = 1..Len(queue)
    BY SeqDomain, Zenon DEF Sound, QueueSound
  <2>2. queue' = [i \in 1..Len(queue) |-> queue'[i]]
    <3> HIDE DEF on
    <3>1. QED
      BY <1>2, <2>1, Zenon
  <2>3. QED
    BY <2>1, <2>2, MadeSeq
<1> HIDE DEF on
<1>6. HandlersSound'
  <2>1. handler' = Advanced(h, <<>>)
    BY DEF RecordEUICCPackageResult
  <2>2. QED
    BY <1>1, <2>1, AdvancedSound, NoneTrue, Zenon DEF HandlersSound
<1>7. QueueSound'
  BY <1>1, <1>4, <1>5, Zenon DEF Sound, QueueSound
<1>8. UploadsSound'
  BY <1>1, <1>4, Zenon DEF Sound, UploadsSound
<1>9. QED
  BY <1>1, <1>6, <1>7, <1>8, Zenon DEF Sound, ViewSound

(* What a read makes the handler write. *)
LEMMA ReadTrue ==
  ASSUME Sound, NEW h \in Handlers, Busy(h), handler[h].calls # <<>>
  PROVE  /\ Head(handler[h].calls) = "apply" =>
              AllTrue(ApplyPackageResultState(queue[handler[h].on].Op, uploads[handler[h].on].report), past)
         /\ AllTrue(<<SetEUICCState(uploads[handler[h].on].report.state)>>, past)
         /\ AllTrue(syncDataInventory(uploads[handler[h].on].report), past)
<1> DEFINE on == handler[h].on
           op == queue[on].Op
           u == uploads[on]
<1>1. on \in DOMAIN uploads /\ on \in DOMAIN queue
  BY Zenon DEF Busy, Sound, HandlersSound, HandlerSound, UploadsSound
<1>2. UploadTrue(op, u, past) /\ op.ICCID \in Nat
  BY <1>1, Zenon DEF Sound, UploadsSound, QueueSound, Asked
<1>3. IsRows(rows) /\ ViewTrue(rows, eims, past)
  BY Zenon DEF Sound, ViewSound
<1>4. ASSUME Head(handler[h].calls) = "apply"
      PROVE  AllTrue(ApplyPackageResultState(op, u.report), past)
  <2>1. "apply" \in Range(handler[h].calls)
    BY <1>4, RangeTail, Zenon DEF Sound, HandlersSound, HandlerSound
  <2>2. u.ok
    BY <2>1, Zenon DEF Sound, HandlersSound, HandlerSound
  <2> HIDE DEF op, u, on
  <2>3. AllTrue(applyPSMOState(op, rows, state, u.report), past)
    BY <1>2, <1>3, <2>2, PSMOTrue, Zenon
  <2>4. AllTrue(applyECOState(op, eims, u.report), past)
    BY <1>2, <1>3, <2>2, ECOTrue, Zenon
  <2>5. QED
    BY <2>3, <2>4, BothTrue, Zenon DEF ApplyPackageResultState
<1> HIDE DEF op, u, on
<1>5. AllTrue(<<SetEUICCState(u.report.state)>>, past)
  <2>1. WriteTrue(SetEUICCState(u.report.state), past)
    BY Zenon DEF WriteTrue, SetEUICCState
  <2>2. QED
    BY <2>1, OneTrue, Zenon
<1>6. AllTrue(syncDataInventory(u.report), past)
  <2>1. AllTrue(syncProfileInventory(rows, u.report.profiles), past)
    BY <1>2, <1>3, SyncTrue, Zenon DEF UploadTrue
  <2>2. QED
    BY <2>1, NoneTrue, Zenon DEF syncDataInventory
<1>7. QED
  BY <1>4, <1>5, <1>6, Zenon DEF op, u, on

LEMMA ReadSound ==
  ASSUME NEW h \in Handlers, Sound, ReadStore(h)
  PROVE  Sound'
<1>1. Busy(h) /\ handler[h].calls # <<>> /\ UNCHANGED <<plan, queue, rows, eims, card, uploads, past>>
  BY DEF ReadStore, Calling
<1>2. \E writes : handler' = Advanced(h, writes) /\ AllTrue(writes, past)
  <2> DEFINE on == handler[h].on
             report == uploads[on].report
             op == queue[on].Op
  <2>1. \/ handler' = Advanced(h, ApplyPackageResultState(op, report)) /\ Head(handler[h].calls) = "apply"
        \/ handler' = Advanced(h, <<SetEUICCState(report.state)>>)
        \/ handler' = Advanced(h, syncDataInventory(report))
    BY Zenon DEF ReadStore, Calling
  <2>2. QED
    BY <1>1, <2>1, ReadTrue, Zenon
<1>3. HandlersSound'
  BY <1>1, <1>2, AdvancedSound, Zenon DEF HandlersSound
<1>4. QED
  BY <1>1, <1>3, Zenon DEF Sound, QueueSound, ViewSound, UploadsSound

(* A write that was true once keeps the view so. *)
LEMMA WrittenRows ==
  ASSUME NEW r, IsRows(r), NEW a, NEW p, ViewTrue(r, a, p), NEW w, WriteTrue(w, p), w.to = "rows"
  PROVE  IsRows(Written(r, w)) /\ ViewTrue(Written(r, w), a, p)
<1>1. CASE w.value = <<>>
  <2>1. Written(r, w) = Drop(r, w.key)
    BY <1>1, Zenon DEF Written
  <2>2. IsRows(Drop(r, w.key))
    BY DropRows
  <2>3. DOMAIN Drop(r, w.key) \subseteq DOMAIN r /\ \A q \in DOMAIN Drop(r, w.key) : Drop(r, w.key)[q] = r[q]
    BY Zenon DEF Drop, Restrict
  <2>4. ViewTrue(Drop(r, w.key), a, p)
    BY <2>3, Zenon DEF ViewTrue
  <2>5. QED
    BY <2>1, <2>2, <2>4
<1>2. CASE w.value # <<>>
  <2> DEFINE k == w.key
             v == w.value[1]
  <2>1. Written(r, w) = Put(r, k, v)
    BY <1>2, Zenon DEF Written
  <2>2. RowTrue(k, v, p)
    BY <1>2, Zenon DEF WriteTrue
  <2> HIDE DEF k, v
  <2>3. IsRows(Put(r, k, v))
    BY <2>2, PutRows DEF RowTrue
  <2>4. DOMAIN Put(r, k, v) = DOMAIN r \cup {k} /\ \A q \in DOMAIN r \cup {k} : Put(r, k, v)[q] = IF q = k THEN v ELSE r[q]
    BY Zenon DEF Put
  <2>5. ViewTrue(Put(r, k, v), a, p)
    BY <2>2, <2>4, Zenon DEF ViewTrue
  <2>6. QED
    BY <2>1, <2>3, <2>5, Zenon
<1>3. QED
  BY <1>1, <1>2, Zenon

LEMMA WrittenEims ==
  ASSUME NEW r, NEW a, NEW p, ViewTrue(r, a, p), NEW w, WriteTrue(w, p), w.to = "eims"
  PROVE  IsMap(Written(a, w)) /\ ViewTrue(r, Written(a, w), p)
<1>1. CASE w.value = <<>>
  <2>1. Written(a, w) = Drop(a, w.key)
    BY <1>1, Zenon DEF Written
  <2>2. IsMap(Drop(a, w.key))
    BY DropMap, Zenon
  <2>3. DOMAIN Drop(a, w.key) \subseteq DOMAIN a /\ \A q \in DOMAIN Drop(a, w.key) : Drop(a, w.key)[q] = a[q]
    BY Zenon DEF Drop, Restrict
  <2>4. ViewTrue(r, Drop(a, w.key), p)
    BY <2>3, Zenon DEF ViewTrue
  <2>5. QED
    BY <2>1, <2>2, <2>4, Zenon
<1>2. CASE w.value # <<>>
  <2> DEFINE k == w.key
             v == w.value[1]
  <2>1. Written(a, w) = Put(a, k, v)
    BY <1>2, Zenon DEF Written
  <2>2. TokenTrue(k, v, p)
    BY <1>2, Zenon DEF WriteTrue
  <2> HIDE DEF k, v
  <2>3. IsMap(Put(a, k, v))
    BY PutMap, Zenon
  <2>4. DOMAIN Put(a, k, v) = DOMAIN a \cup {k} /\ \A q \in DOMAIN a \cup {k} : Put(a, k, v)[q] = IF q = k THEN v ELSE a[q]
    BY DEF Put
  <2>5. ViewTrue(r, Put(a, k, v), p)
    BY <2>2, <2>4, Zenon DEF ViewTrue
  <2>6. QED
    BY <2>1, <2>3, <2>5, Zenon
<1>3. QED
  BY <1>1, <1>2, Zenon

LEMMA WriteSound ==
  ASSUME NEW h \in Handlers, Sound, WriteStore(h)
  PROVE  Sound'
<1> DEFINE writes == handler[h].writes
           w == Head(writes)
           new == [handler[h] EXCEPT !.writes = Tail(writes)]
<1>1. writes # <<>> /\ UNCHANGED <<plan, queue, card, uploads, past>>
  BY DEF WriteStore
<1>2. /\ rows' = IF w.to = "rows" THEN Written(rows, w) ELSE rows
      /\ eims' = IF w.to = "eims" THEN Written(eims, w) ELSE eims
  BY DEF WriteStore
<1>3. HandlerSound(handler[h], uploads, past)
  BY DEF Sound, HandlersSound
<1>4. IsSeq(Tail(writes)) /\ Range(writes) = {w} \cup Range(Tail(writes))
  BY <1>1, <1>3, RangeTail, Zenon DEF HandlerSound, AllTrue
<1>5. WriteTrue(w, past) /\ AllTrue(Tail(writes), past)
  BY <1>3, <1>4, Zenon DEF HandlerSound, AllTrue
<1>6. ViewSound'
  <2> HIDE DEF w, writes
  <2>1. /\ IsRows(rows) /\ ViewTrue(rows, eims, past) /\ IsMap(eims)
        /\ IsCard(card) /\ ViewTrue(card.profiles, card.eims, past)
    BY DEF Sound, ViewSound
  <2>2. CASE w.to = "rows"
    <3>1. IsRows(Written(rows, w)) /\ ViewTrue(Written(rows, w), eims, past)
      BY <1>5, <2>1, <2>2, WrittenRows
    <3>2. rows' = Written(rows, w) /\ eims' = eims
      BY <1>2, <2>2
    <3>3. QED
      BY <1>1, <2>1, <3>1, <3>2 DEF ViewSound
  <2>3. CASE w.to = "eims"
    <3>1. IsMap(Written(eims, w)) /\ ViewTrue(rows, Written(eims, w), past)
      BY <1>5, <2>1, <2>3, WrittenEims
    <3>2. rows' = rows /\ eims' = Written(eims, w)
      BY <1>2, <2>3
    <3>3. QED
      BY <1>1, <2>1, <3>1, <3>2, Zenon DEF ViewSound
  <2>4. CASE w.to \notin {"rows", "eims"}
    BY <1>1, <1>2, <2>1, <2>4, Zenon DEF ViewSound
  <2>5. QED
    BY <2>2, <2>3, <2>4
<1>7. HandlersSound'
  <2>1. /\ DOMAIN new = {"on", "calls", "writes", "alone"} /\ new.on = handler[h].on
        /\ new.calls = handler[h].calls /\ new.writes = Tail(writes)
    BY <1>3 DEF HandlerSound
  <2>2. handler' = [g \in Handlers |-> IF g = h THEN new ELSE [handler[g] EXCEPT !.alone = FALSE]]
    BY DEF WriteStore
  <2> HIDE DEF new, writes, w
  <2>3. HandlerSound(new, uploads, past)
    BY <1>3, <1>5, <2>1, Zenon DEF HandlerSound
  <2>4. \A g \in Handlers : HandlerSound([handler[g] EXCEPT !.alone = FALSE], uploads, past)
    BY HandlerKept DEF Sound, HandlersSound
  <2>5. QED
    BY <1>1, <2>2, <2>3, <2>4 DEF HandlersSound
<1>8. QED
  BY <1>1, <1>6, <1>7, Zenon DEF Sound, QueueSound, UploadsSound

LEMMA AnswerSound ==
  ASSUME NEW h \in Handlers, Sound, Answer(h)
  PROVE  Sound'
<1> DEFINE on == handler[h].on
<1>1. UNCHANGED <<plan, queue, rows, eims, card, past>> /\ handler' = [handler EXCEPT ![h] = Idle]
  BY DEF Answer
<1>2. uploads' = uploads \/ uploads' = [uploads EXCEPT ![on].acknowledged = TRUE]
  BY DEF Answer
<1>3. /\ DOMAIN uploads' = DOMAIN uploads
      /\ \A i \in DOMAIN uploads :
           /\ DOMAIN uploads'[i] = DOMAIN uploads[i] /\ uploads'[i].ok = uploads[i].ok
           /\ uploads'[i].report = uploads[i].report
  <2> HIDE DEF on
  <2>1. QED
    BY <1>2 DEF Sound, UploadsSound, UploadFields
<1> HIDE DEF on
<1>4. \A i \in DOMAIN uploads : \A op : UploadTrue(op, uploads[i], past) => UploadTrue(op, uploads'[i], past)
  BY <1>3 DEF UploadTrue, ResultTrue
<1>5. UploadsSound'
  BY <1>1, <1>3, <1>4, Zenon DEF Sound, UploadsSound
<1>6. HandlersSound'
  <2>1. \A g \in Handlers : HandlerSound(handler[g], uploads', past)
    BY <1>3, HandlerKept DEF Sound, HandlersSound
  <2>2. QED
    BY <1>1, <2>1, IdleSound, Zenon DEF Sound, HandlersSound
<1>7. QED
  BY <1>1, <1>5, <1>6, Zenon DEF Sound, QueueSound, ViewSound

LEMMA FailSound ==
  ASSUME NEW h \in Handlers, Sound, Fail(h)
  PROVE  Sound'
<1>1. UNCHANGED <<plan, queue, rows, eims, card, uploads, past>> /\ handler' = [handler EXCEPT ![h] = Idle]
  BY Zenon DEF Fail
<1>2. HandlersSound'
  BY <1>1, IdleSound, Zenon DEF Sound, HandlersSound
<1>3. QED
  BY <1>1, <1>2, Zenon DEF Sound, QueueSound, ViewSound, UploadsSound

LEMMA SoundStep == Sound /\ [Next]_vars => Sound'
<1> SUFFICES ASSUME Sound, [Next]_vars
             PROVE  Sound'
  OBVIOUS
<1>1. ASSUME NEW h \in Handlers, HandlerStep(h)
      PROVE  Sound'
  BY <1>1, VerifySound, RecordSound, ReadSound, WriteSound, AnswerSound, Zenon DEF HandlerStep
<1>2. CASE UNCHANGED vars
  BY <1>2, Zenon DEF vars, Sound, QueueSound, ViewSound, UploadsSound, HandlersSound
<1>3. QED
  BY <1>1, <1>2, SignSound, EnqueueSound, ExecuteSound, ReceiveSound, FailSound, Zenon DEF Next

(***************************************************************************)
(* The view never holds a profile, a mark or a token that the eUICC never  *)
(* had (NothingInvented), for any plans, eUICCs and number of handlers and *)
(* failures: what ApplyPackageResultState and ApplyResponse write is what  *)
(* a report says, what an operation that succeeded made true, or what a    *)
(* row said before.                                                        *)
(***************************************************************************)
THEOREM OnlyFacts == Spec => []NothingInvented
<1>1. Sound => NothingInvented
  <2> SUFFICES ASSUME Sound
               PROVE  NothingInvented
    OBVIOUS
  <2> DEFINE view == [profiles |-> rows, eims |-> eims]
  <2>1. view.profiles = rows /\ view.eims = eims
    OBVIOUS
  <2>2. NothingInvented <=> Facts(view) \subseteq past
    BY Zenon DEF NothingInvented
  <2> HIDE DEF view
  <2>3. QED
    BY <2>1, <2>2, FactsAreTrue, Zenon DEF Sound, ViewSound
<1>2. QED
  BY <1>1, SoundInit, SoundStep, PTL DEF Spec

-----------------------------------------------------------------------------
(* What the steps that queue, record and advance change, field by field. *)
LEMMA EnqueueMeans ==
  ASSUME Sound, Enqueue
  PROVE  LET n == Len(queue) + 1
         IN /\ DOMAIN queue' = DOMAIN queue \cup {n} /\ n \notin DOMAIN queue
            /\ n \in Nat /\ \A i \in DOMAIN queue : i \in Nat /\ i < n
            /\ \A i \in DOMAIN queue : queue'[i] = queue[i]
            /\ queue'[n].Status = "pending"
            /\ IsPackage(queue'[n].Op) => signing # <<>> /\ queue'[n].Token = signing[1]
            /\ UNCHANGED <<plan, rows, state, eims, card, uploads, handler, failures, past, exact>>
            /\ signing' = <<>>
<1> DEFINE op == plan[Len(queue) + 1]
           entry == [Op |-> op, Status |-> "pending", Token |-> IF IsPackage(op) THEN signing[1] ELSE 0]
           n == Len(queue) + 1
<1>1. queue' = Append(queue, entry) /\ (IsPackage(op) => signing # <<>>)
  BY Zenon DEF Enqueue
<1>2. entry.Op = op /\ entry.Status = "pending" /\ (IsPackage(op) => entry.Token = signing[1])
  BY Zenon
<1> HIDE DEF entry, op
<1>3. /\ DOMAIN queue' = DOMAIN queue \cup {n} /\ n \notin DOMAIN queue
      /\ \A i \in DOMAIN queue : queue'[i] = queue[i]
      /\ queue'[n] = entry
  BY <1>1, AppendAt DEF Sound, QueueSound
<1>4. n \in Nat /\ \A i \in DOMAIN queue : i \in Nat /\ i < n
  BY SeqDomain DEF Sound, QueueSound
<1>5. /\ UNCHANGED <<plan, rows, state, eims, card, uploads, handler, failures, past, exact>>
      /\ signing' = <<>>
  BY Zenon DEF Enqueue
<1> HIDE DEF n
<1>6. QED
  BY <1>1, <1>2, <1>3, <1>4, <1>5, Zenon DEF n

LEMMA RecordMeans ==
  ASSUME Sound, NEW h \in Handlers, RecordEUICCPackageResult(h)
  PROVE  /\ DOMAIN queue' = DOMAIN queue /\ handler[h].on \in DOMAIN uploads
         /\ \A i \in DOMAIN queue : queue'[i].Op = queue[i].Op /\ queue'[i].Token = queue[i].Token
         /\ \A i \in DOMAIN queue : i # handler[h].on => queue'[i] = queue[i]
         /\ UNCHANGED <<plan, signing, rows, state, eims, card, uploads, failures, past, exact>>
         /\ handler' = Advanced(h, <<>>)
<1> DEFINE on == handler[h].on
<1>1. PICK status : queue' = [queue EXCEPT ![on].Status = status]
  BY Zenon DEF RecordEUICCPackageResult
<1>2. on \in DOMAIN uploads
  BY DEF RecordEUICCPackageResult, Calling, Busy, Sound, HandlersSound, HandlerSound
<1>3. /\ UNCHANGED <<plan, signing, rows, state, eims, card, uploads, failures, past, exact>>
      /\ handler' = Advanced(h, <<>>)
  BY DEF RecordEUICCPackageResult
<1> HIDE DEF on
<1>4. /\ DOMAIN queue' = DOMAIN queue
      /\ \A i \in DOMAIN queue : queue'[i].Op = queue[i].Op /\ queue'[i].Token = queue[i].Token
      /\ \A i \in DOMAIN queue : i # on => queue'[i] = queue[i]
  BY <1>1 DEF Sound, QueueSound
<1>5. QED
  BY <1>2, <1>3, <1>4, Zenon DEF on

(* A handler that made a call or a write; the others are no longer alone. *)
LEMMA AdvancedFields ==
  ASSUME Sound, NEW h \in Handlers, NEW writes
  PROVE  /\ Advanced(h, writes)[h].on = handler[h].on /\ Advanced(h, writes)[h].alone = handler[h].alone
         /\ Advanced(h, writes)[h].calls = Tail(handler[h].calls) /\ Advanced(h, writes)[h].writes = writes
         /\ \A g \in Handlers \ {h} : ~Advanced(h, writes)[g].alone
<1>1. \A g \in Handlers : DOMAIN handler[g] = {"on", "calls", "writes", "alone"}
  BY Zenon DEF Sound, HandlersSound, HandlerSound
<1>2. Advanced(h, writes)[h] = [handler[h] EXCEPT !.calls = Tail(handler[h].calls), !.writes = writes]
  BY DEF Advanced
<1>3. \A g \in Handlers \ {h} : Advanced(h, writes)[g] = [handler[g] EXCEPT !.alone = FALSE]
  BY DEF Advanced
<1>4. QED
  BY <1>1, <1>2, <1>3
=============================================================================
