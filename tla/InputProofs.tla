------------------------------ MODULE InputProofs ------------------------------
(***************************************************************************)
(* What a scan reads that it did not write, for any rows, documents,       *)
(* targets and references: the answers of tools and the documents of a     *)
(* target (Readers), and what becomes of the references (ScopeRules).      *)
(*                                                                         *)
(* That every operation of a document is recorded needs, on the way, that  *)
(* the endpoints enumerate the operations before the next entry, each      *)
(* once.  That no name is lost or listed twice is induction over the names *)
(* of a row, the first of which are taken before the next: it rests on the *)
(* least member of a set of numbers.                                       *)
(* None of the properties of the scope rules is inductive: each is         *)
(* about what one spelling is derived from, so the invariant keeps, at     *)
(* every step of a reference, that its spelling is a URL, that what passed *)
(* the filter is in scope, and which spellings are in normal form already. *)
(***************************************************************************)
EXTENDS ScopeRules, Readers, FiniteSetTheorems, TLAPS

-----------------------------------------------------------------------------
(* Numbers, and sequences. *)

\* A set of numbers that is not empty has a least member.
LEMMA Least ==
    ASSUME NEW T, T \subseteq Nat, T # {}
    PROVE  \E m \in T : \A k \in T : m <= k
<1>1. IsWellFoundedOn(OpToRel(<, Nat), Nat) BY NatLessThanWellFounded
<1>2. PICK m \in T : \A y \in T : ~(<<y, m>> \in OpToRel(<, Nat)) BY <1>1, WFMin, Zenon
<1>3. \A k \in T : ~(k < m) BY <1>2 DEF OpToRel
<1> QED BY <1>3

\* So a set that has 0, and with every number the next, has them all.
LEMMA Induction ==
    ASSUME NEW G, 0 \in G, \A n \in Nat : n \in G => n + 1 \in G
    PROVE  Nat \subseteq G
<1> SUFFICES ASSUME Nat \ G # {} PROVE FALSE OBVIOUS
<1>1. PICK m \in Nat \ G : \A k \in Nat \ G : m <= k BY Least
<1>2. m # 0 /\ m - 1 \in Nat BY <1>1
<1>3. m - 1 \in G BY <1>1, <1>2
<1> QED BY <1>1, <1>2, <1>3

\* Folds take the indices from the last one down.
LEMMA Greatest ==
    ASSUME NEW n \in Nat, NEW s \in SUBSET (1 .. n), s # {}
    PROVE  /\ Output!Max(s) \in s /\ \A y \in s : y <= Output!Max(s)
           /\ Document!Max(s) = Output!Max(s)
<1> DEFINE T == {n - k : k \in s}
<1>1. T \subseteq Nat /\ T # {}
  <2>1. \A k \in s : n - k \in Nat OBVIOUS
  <2> QED BY <2>1
<1>2. PICK m \in T : \A k \in T : m <= k BY <1>1, Least
<1>3. \E x \in s : \A y \in s : x >= y
  <2>1. PICK x \in s : m = n - x BY <1>2
  <2>2. \A y \in s : n - x <= n - y BY <1>2, <2>1
  <2>3. \A y \in s : y \in Int OBVIOUS
  <2> QED BY <2>2, <2>3
<1> QED BY <1>3 DEF Output!Max, Document!Max

\* A sequence over a set is one over a larger set.
LEMMA WiderSeq ==
    ASSUME NEW A, NEW B, A \subseteq B, NEW es \in Seq(A)
    PROVE  es \in Seq(B) /\ Len(es) \in Nat
OBVIOUS

\* One sequence after another.
LEMMA Joined ==
    ASSUME NEW S, NEW a \in Seq(S), NEW c \in Seq(S)
    PROVE  /\ a \o c \in Seq(S) /\ Len(a \o c) = Len(a) + Len(c)
           /\ \A p \in 1 .. Len(a) : (a \o c)[p] = a[p]
           /\ \A p \in 1 .. Len(c) : (a \o c)[Len(a) + p] = c[p]
OBVIOUS

-----------------------------------------------------------------------------
(* The answers of tools. *)

Rows == UNION {RowsOf[t] : t \in DOMAIN RowsOf}

\* A row that raises says why.
Blamed(r) ==
    /\ r.form = "object"
    /\ \/ r.url = "blank" \/ "blank" \in Output!ToSet(r.names)
       \/ tool = "katana" /\ (r.url = "split" \/ r.type = "number")

RowsInv ==
    /\ tool \in DOMAIN RowsOf
    /\ read \in Seq(Rows)
    /\ at = "raised" => Blamed(Output!Last(read))

ReadsRow(r) ==
    \/ Output!ReadHttpx(r) \/ Output!ReadKatana(r) \/ Output!ReadFfuf(r)
    \/ Output!ReadArjun(r) \/ Output!ReadGau(r)

\* A wrapper raises only at a row to blame.
LEMMA RowRaises ==
    ASSUME NEW r, ReadsRow(r), at' = "raised"
    PROVE  Blamed(r)
<1>1. at = "reading" BY DEF ReadsRow, Output!ReadHttpx, Output!ReadKatana, Output!ReadFfuf,
        Output!ReadArjun, Output!ReadGau, Output!Reading
<1>2. ~Output!Skip /\ \A new : ~Output!Keep(new) BY <1>1 DEF Output!Skip, Output!Keep
<1>3. Output!Refused(r) => r.url = "blank" BY DEF Output!Refused, Output!StatusOf, Output!NoStatus
<1>4. Output!Addressed(r) => r.form = "object" BY DEF Output!Addressed
<1>5. CASE Output!ReadHttpx(r) BY <1>2, <1>3, <1>4, <1>5 DEF Output!ReadHttpx, Blamed
<1>6. CASE Output!ReadKatana(r) BY <1>2, <1>3, <1>4, <1>6 DEF Output!ReadKatana, Blamed
<1>7. CASE Output!ReadFfuf(r) BY <1>2, <1>3, <1>4, <1>7 DEF Output!ReadFfuf, Blamed
<1>8. CASE Output!ReadArjun(r) BY <1>2, <1>8 DEF Output!ReadArjun, Blamed
<1>9. CASE Output!ReadGau(r) BY <1>2, <1>9 DEF Output!ReadGau, Blamed
<1> QED BY <1>5, <1>6, <1>7, <1>8, <1>9 DEF ReadsRow

LEMMA RowsStart == ReadersInit => RowsInv
<1>1. Output!Init => at = "called" /\ tool \in DOMAIN RowsOf /\ read = <<>>
  BY DEF Output!Init, Output!Tools
<1>2. NoAnswer => at = "returned" /\ tool \in DOMAIN RowsOf /\ read = <<>>
  BY ReadersAssumption DEF NoAnswer
<1>3. <<>> \in Seq(Rows) OBVIOUS
<1> QED BY <1>1, <1>2, <1>3 DEF ReadersInit, RowsInv

\* Every row keeps the invariant, whichever tool wrote it.
LEMMA RowsStep ==
    ASSUME RowsInv, [ReadersNext]_<<rowVars, docVars>>
    PROVE  RowsInv'
<1>1. CASE UNCHANGED rowVars BY <1>1 DEF rowVars, RowsInv, Blamed
<1>2. ASSUME Output!NoTargets \/ Output!RunFails \/ Output!Run \/ Output!Return PROVE RowsInv'
  <2>1. UNCHANGED <<tool, read>> /\ at' # "raised"
    BY <1>2 DEF Output!NoTargets, Output!RunFails, Output!Run, Output!Return
  <2> QED BY <2>1 DEF RowsInv
<1>3. ASSUME NEW r \in RowsOf[tool], ReadsRow(r) PROVE RowsInv'
  <2>1. tool' = tool /\ read' = Append(read, r)
    BY <1>3 DEF ReadsRow, Output!ReadHttpx, Output!ReadKatana, Output!ReadFfuf, Output!ReadArjun,
       Output!ReadGau, Output!Reading
  <2>2. r \in Rows BY <1>3 DEF RowsInv, Rows
  <2>3. read \in Seq(Rows) BY DEF RowsInv
  <2>4. read' \in Seq(Rows) BY <2>1, <2>2, <2>3
  <2>5. Output!Last(read') = r BY <2>1, <2>2, <2>3 DEF Output!Last
  <2>6. at' = "raised" => Blamed(r)' BY <1>3, <2>1, RowRaises DEF Blamed
  <2> QED BY <2>1, <2>4, <2>5, <2>6 DEF RowsInv, Blamed
<1>4. ReadersNext \/ UNCHANGED <<rowVars, docVars>> OBVIOUS
<1> QED BY <1>1, <1>2, <1>3, <1>4 DEF ReadersNext, Output!Next, ReadsRow

\* Whatever rows the tools may write, and however many.
THEOREM RaisesExplained == ReadersSpec => []RaisedByItsRow
<1>1. RowsInv => RaisedByItsRow BY DEF RowsInv, RaisedByItsRow, Output!RaisedByItsRow, Blamed
<1>2. RowsInv /\ [ReadersNext]_<<rowVars, docVars>> => RowsInv' BY RowsStep
<1> QED BY <1>1, <1>2, RowsStart, PTL DEF ReadersSpec

-----------------------------------------------------------------------------
(* The names that are taken from rows, a fold over them. *)

\* The fold goes through the names from the first to the last.
LEMMA NamesFold ==
    ASSUME NEW seen, NEW N, NEW names \in Seq(N)
    PROVE  \E f : /\ f[0] = seen
                  /\ \A k \in 1 .. Len(names) : f[k] = Output!AddName(f[k - 1], names[k])
                  /\ Output!WithNames(seen, names) = f[Len(names)]
<1> DEFINE n == Len(names)
<1>1. n \in Nat /\ DOMAIN names = 1 .. n OBVIOUS
<1> HIDE DEF n
<1> DEFINE AddLast(g, s) == Output!AddName(g[s \ {Output!Max(s)}], names[Output!Max(s)])
           Folds(g, m) == g = [s \in SUBSET (1 .. m) |-> IF s = {} THEN seen ELSE AddLast(g, s)]
           G == {m \in Nat : \E g : Folds(g, m)}
<1>2. 0 \in G
  <2>1. SUBSET (1 .. 0) = {{}} OBVIOUS
  <2>2. Folds([s \in SUBSET (1 .. 0) |-> seen], 0) BY <2>1
  <2> QED BY <2>2
<1>3. ASSUME NEW m \in Nat, m \in G PROVE m + 1 \in G
  <2>1. PICK g : Folds(g, m) BY <1>3
  <2> DEFINE h == [s \in SUBSET (1 .. m + 1) |->
                      IF m + 1 \in s THEN Output!AddName(g[s \ {m + 1}], names[m + 1]) ELSE g[s]]
  <2>2. ASSUME NEW s \in SUBSET (1 .. m + 1)
        PROVE  h[s] = IF s = {} THEN seen ELSE AddLast(h, s)
    <3>1. CASE m + 1 \in s
      <4>1. Output!Max(s) = m + 1
        <5>1. m + 1 \in Nat /\ s # {} /\ s \in SUBSET (1 .. m + 1) BY <3>1
        <5>2. Output!Max(s) \in s /\ \A y \in s : y <= Output!Max(s)
          <6> HIDE DEF h
          <6> QED BY ONLY <5>1, Greatest
        <5>3. Output!Max(s) \in 1 .. m + 1 /\ m + 1 <= Output!Max(s) BY <3>1, <5>2
        <5> QED BY <5>3
      <4>2. s \ {m + 1} \in SUBSET (1 .. m + 1) /\ m + 1 \notin s \ {m + 1} OBVIOUS
      <4>3. h[s \ {m + 1}] = g[s \ {m + 1}] BY <4>2
      <4> QED BY <3>1, <4>1, <4>3
    <3>2. CASE m + 1 \notin s
      <4>1. s \in SUBSET (1 .. m) BY <3>2
      <4>2. h[s] = IF s = {} THEN seen ELSE AddLast(g, s) BY <2>1, <3>2, <4>1
      <4>3. h[s \ {Output!Max(s)}] = g[s \ {Output!Max(s)}] BY <3>2
      <4> QED BY <4>2, <4>3
    <3> QED BY <3>1, <3>2
  <2>3. Folds(h, m + 1)
    <3> HIDE DEF AddLast
    <3> QED BY <2>2
  <2> HIDE DEF Folds, h
  <2> QED BY <2>3
<1>4. n \in G
  <2> HIDE DEF G
  <2> QED BY <1>1, <1>2, <1>3, Induction
<1> DEFINE it == CHOOSE g : Folds(g, n)
<1>5. Folds(it, n) BY <1>4
<1>6. Output!WithNames(seen, names) = it[1 .. n]
  BY <1>1 DEF Output!WithNames, Output!FoldLeft, Output!MapThenFoldSet
<1> HIDE DEF it
<1> DEFINE f == [k \in 0 .. n |-> it[1 .. k]]
<1>7. \A k \in 1 .. n : k \in Nat /\ k <= n BY <1>1
<1>8. f[0] = seen BY <1>1, <1>5
<1>9. ASSUME NEW k \in 1 .. n PROVE f[k] = Output!AddName(f[k - 1], names[k])
  <2>1. 1 .. k \in SUBSET (1 .. n) /\ k \in 1 .. k /\ k \in Nat /\ k - 1 \in 0 .. n BY <1>1, <1>7
  <2>2. Output!Max(1 .. k) = k
    <3>1. Output!Max(1 .. k) \in 1 .. k /\ k <= Output!Max(1 .. k) BY <2>1, Greatest
    <3> QED BY <2>1, <3>1
  <2>3. (1 .. k) \ {k} = 1 .. k - 1 OBVIOUS
  <2>4. it[1 .. k] = AddLast(it, 1 .. k) BY <1>5, <2>1
  <2>5. f[k - 1] = it[1 .. k - 1] /\ f[k] = it[1 .. k] BY <2>1
  <2> HIDE DEF f
  <2> QED BY <2>1, <2>2, <2>3, <2>4, <2>5
<1>10. n \in 0 .. n BY <1>1
<1>11. f[n] = it[1 .. n] BY <1>10
<1> HIDE DEF f
<1> QED BY <1>6, <1>11, <1>8, <1>9 DEF n

\* What r, the first k names taken into seen, is: the names seen come first, and
\* the others follow in the order of their first mention, each once.
Taken(r, seen, names, k, N) ==
    /\ r \in Seq(N) /\ Len(r) >= Len(seen)
    /\ \A i \in 1 .. Len(seen) : r[i] = seen[i]
    /\ {r[i] : i \in 1 .. Len(r)} =
          {seen[i] : i \in 1 .. Len(seen)} \union ({names[p] : p \in 1 .. k} \ {"number"})
    /\ \A i, j \in 1 .. Len(r) : i < j /\ Len(seen) < j => r[i] # r[j]
    /\ \A i, j \in 1 .. Len(r) : Len(seen) < i /\ i < j =>
          \E p \in 1 .. k : names[p] = r[i] /\ \A q \in 1 .. k : names[q] = r[j] => p < q

\* No name has been taken yet.
LEMMA TakenStart ==
    ASSUME NEW N, NEW seen \in Seq(N), NEW names
    PROVE  Taken(seen, seen, names, 0, N)
<1>1. Len(seen) \in Nat OBVIOUS
<1>2. {names[p] : p \in 1 .. 0} = {} OBVIOUS
<1> QED BY <1>1, <1>2 DEF Taken

\* One more name.
LEMMA TakenMore ==
    ASSUME NEW N, NEW seen \in Seq(N), NEW n \in Nat, NEW names \in [1 .. n -> N],
           NEW k \in Nat, k < n, NEW r, Taken(r, seen, names, k, N)
    PROVE  Taken(Output!AddName(r, names[k + 1]), seen, names, k + 1, N)
<1> DEFINE x == names[k + 1]
           all == {r[i] : i \in 1 .. Len(r)}
<1>1. /\ k + 1 \in 1 .. n /\ x \in N /\ r \in Seq(N) /\ Len(r) \in Nat /\ Len(seen) \in Nat
      /\ Len(r) >= Len(seen)
  BY DEF Taken
<1>2. {names[p] : p \in 1 .. k + 1} = {names[p] : p \in 1 .. k} \union {x}
  <2>1. 1 .. k + 1 = 1 .. k \union {k + 1} OBVIOUS
  <2> QED BY <2>1
<1>3. Output!ToSet(r) = all
  <2>1. DOMAIN r = 1 .. Len(r) BY <1>1
  <2> QED BY <2>1 DEF Output!ToSet
<1>4. all = {seen[i] : i \in 1 .. Len(seen)} \union ({names[p] : p \in 1 .. k} \ {"number"})
  BY DEF Taken
<1>5. \A q \in 1 .. k : names[q] = "number" \/ names[q] \in all BY <1>4
<1>6. ASSUME NEW i \in 1 .. Len(r), NEW j \in 1 .. Len(r), Len(seen) < i, i < j
      PROVE  \E p \in 1 .. k + 1 : names[p] = r[i] /\ \A q \in 1 .. k + 1 : names[q] = r[j] => p < q
  <2>1. PICK p \in 1 .. k : names[p] = r[i] /\ \A q \in 1 .. k : names[q] = r[j] => p < q
    BY <1>6 DEF Taken
  <2>2. p \in 1 .. k + 1 /\ p < k + 1 /\ \A q \in 1 .. k + 1 : q \in 1 .. k \/ q = k + 1 OBVIOUS
  <2> QED BY <2>1, <2>2
<1>7. CASE x = "number" \/ x \in all
  <2>1. Output!AddName(r, x) = r BY <1>3, <1>7 DEF Output!AddName
  <2>2. all = {seen[i] : i \in 1 .. Len(seen)} \union ({names[p] : p \in 1 .. k + 1} \ {"number"})
    BY <1>2, <1>4, <1>7
  <2>3. Taken(r, seen, names, k + 1, N)
    <3> HIDE DEF x
    <3> QED BY <1>6, <2>2 DEF Taken
  <2> QED BY <2>1, <2>3
<1>8. CASE x # "number" /\ x \notin all
  <2> DEFINE t == Append(r, x)
  <2>1. Output!AddName(r, x) = t BY <1>3, <1>8 DEF Output!AddName
  <2>2. /\ t \in Seq(N) /\ Len(t) = Len(r) + 1 /\ t[Len(r) + 1] = x
        /\ \A i \in 1 .. Len(r) : t[i] = r[i] /\ r[i] # x
    <3> HIDE DEF x
    <3> QED BY <1>1, <1>8
  <2> HIDE DEF t, x
  <2>3. \A i \in 1 .. Len(t) : i \in 1 .. Len(r) \/ i = Len(r) + 1 BY <2>2, <1>1
  <2>4. {t[i] : i \in 1 .. Len(t)} = all \union {x}
    <3>1. 1 .. Len(t) = 1 .. Len(r) \union {Len(r) + 1} BY <2>2, <1>1
    <3> QED BY <2>2, <3>1
  <2>5. {t[i] : i \in 1 .. Len(t)}
        = {seen[i] : i \in 1 .. Len(seen)} \union ({names[p] : p \in 1 .. k + 1} \ {"number"})
    BY <1>2, <1>4, <1>8, <2>4
  <2>6. \A i \in 1 .. Len(seen) : t[i] = seen[i]
    <3>1. \A i \in 1 .. Len(seen) : i \in 1 .. Len(r) BY <1>1
    <3> QED BY <2>2, <3>1 DEF Taken
  <2>7. ASSUME NEW i \in 1 .. Len(t), NEW j \in 1 .. Len(t), i < j, Len(seen) < j
        PROVE  t[i] # t[j]
    <3>1. i \in 1 .. Len(r) BY <2>2, <2>3, <2>7, <1>1
    <3>2. CASE j \in 1 .. Len(r) BY <2>2, <2>7, <3>1, <3>2 DEF Taken
    <3>3. CASE j = Len(r) + 1 BY <2>2, <3>1, <3>3
    <3> QED BY <2>3, <3>2, <3>3
  <2>8. ASSUME NEW i \in 1 .. Len(t), NEW j \in 1 .. Len(t), Len(seen) < i, i < j
        PROVE  \E p \in 1 .. k + 1 : names[p] = t[i] /\ \A q \in 1 .. k + 1 : names[q] = t[j] => p < q
    <3>1. i \in 1 .. Len(r) BY <2>2, <2>3, <2>8, <1>1
    <3>2. CASE j \in 1 .. Len(r)
      <4>1. \E p \in 1 .. k + 1 :
               names[p] = r[i] /\ \A q \in 1 .. k + 1 : names[q] = r[j] => p < q
        BY <1>6, <2>8, <3>1, <3>2
      <4>2. t[i] = r[i] /\ t[j] = r[j] BY <2>2, <3>1, <3>2
      <4> QED BY <4>1, <4>2
    <3>3. CASE j = Len(r) + 1
      <4>1. \A q \in 1 .. k : names[q] # x BY <1>5, <1>8
      <4>2. r[i] \in all /\ \A h \in 1 .. Len(seen) : seen[h] # r[i]
        <5>1. \A h \in 1 .. Len(seen) : h \in 1 .. Len(r) /\ h < i /\ r[h] = seen[h]
          BY <1>1, <2>8, <3>1 DEF Taken
        <5>2. \A h \in 1 .. Len(seen) : r[h] # r[i] BY <2>8, <3>1, <5>1 DEF Taken
        <5> QED BY <3>1, <5>1, <5>2
      <4>3. PICK p \in 1 .. k : names[p] = r[i] BY <1>4, <4>2
      <4>4. p \in 1 .. k + 1 /\ p < k + 1 /\ \A q \in 1 .. k + 1 : q \in 1 .. k \/ q = k + 1
        OBVIOUS
      <4> QED BY <2>2, <3>1, <3>3, <4>1, <4>3, <4>4
    <3> QED BY <2>3, <3>2, <3>3
  <2>9. Len(t) >= Len(seen) BY <1>1, <2>2
  <2>10. Taken(t, seen, names, k + 1, N) BY ONLY <2>2, <2>5, <2>6, <2>7, <2>8, <2>9 DEF Taken
  <2> QED BY <2>1, <2>10 DEF x
<1> QED BY <1>7, <1>8

\* All of them.
LEMMA NamesTaken ==
    ASSUME NEW N, NEW seen \in Seq(N), NEW names \in Seq(N)
    PROVE  Taken(Output!WithNames(seen, names), seen, names, Len(names), N)
<1>1. PICK f : /\ f[0] = seen
               /\ \A k \in 1 .. Len(names) : f[k] = Output!AddName(f[k - 1], names[k])
               /\ Output!WithNames(seen, names) = f[Len(names)]
  BY NamesFold
<1> DEFINE n == Len(names)
<1>2. n \in Nat /\ names \in [1 .. n -> N] OBVIOUS
<1>3. /\ \A k \in 1 .. n : f[k] = Output!AddName(f[k - 1], names[k])
      /\ Output!WithNames(seen, names) = f[n]
  BY <1>1
<1> HIDE DEF n
<1> DEFINE G == {k \in Nat : k <= n => Taken(f[k], seen, names, k, N)}
<1>4. 0 \in G BY <1>1, TakenStart
<1>5. ASSUME NEW k \in Nat, k \in G PROVE k + 1 \in G
  <2>1. SUFFICES ASSUME k + 1 <= n PROVE Taken(f[k + 1], seen, names, k + 1, N) OBVIOUS
  <2>2. k < n /\ Taken(f[k], seen, names, k, N) BY <1>2, <1>5, <2>1
  <2>3. k + 1 \in 1 .. n /\ (k + 1) - 1 = k BY <1>2, <2>1
  <2>4. f[k + 1] = Output!AddName(f[k], names[k + 1]) BY <1>3, <2>3
  <2> QED BY <1>2, <2>2, <2>4, TakenMore
<1>6. Nat \subseteq G
  <2> HIDE DEF G
  <2> QED BY <1>4, <1>5, Induction
<1> QED BY <1>2, <1>3, <1>6 DEF n

-----------------------------------------------------------------------------
(* What becomes of rows. *)

\* The cardinality of the instance is that of the library.
LEMMA OutputCardinality == \A s : Output!Cardinality(s) = Cardinality(s)
BY Zenon DEF Cardinality, Output!Cardinality

\* A new greatest member leaves the places of the others.
LEMMA PlaceMore ==
    ASSUME NEW n \in Nat, NEW s \in SUBSET (1 .. n)
    PROVE  LET more == s \union {n + 1} IN
           /\ Cardinality(s) \in Nat /\ Cardinality(more) = Cardinality(s) + 1
           /\ Output!Place(more, n + 1) = Cardinality(s) + 1
           /\ \A i \in s : Output!Place(more, i) = Output!Place(s, i)
                           /\ Output!Place(s, i) \in 1 .. Cardinality(s)
<1> DEFINE more == s \union {n + 1}
<1>1. IsFiniteSet(1 .. n) BY FS_Interval
<1>2. IsFiniteSet(s) /\ Cardinality(s) \in Nat BY <1>1, FS_Subset, FS_CardinalityType
<1>3. n + 1 \notin s /\ \A i \in s : i \in Nat /\ i <= n OBVIOUS
<1>4. Cardinality(more) = Cardinality(s) + 1 BY <1>2, <1>3, FS_AddElement
<1>5. {k \in more : k <= n + 1} = more
  <2>1. \A k \in more : k <= n + 1 BY <1>3
  <2> QED BY <2>1
<1>6. ASSUME NEW i \in s
      PROVE  /\ Output!Place(more, i) = Output!Place(s, i)
             /\ Output!Place(s, i) \in 1 .. Cardinality(s)
  <2> DEFINE upto == {k \in s : k <= i}
  <2>1. {k \in more : k <= i} = upto BY <1>3
  <2>2. upto \in SUBSET s /\ i \in upto BY <1>3
  <2>3. IsFiniteSet(upto) /\ Cardinality(upto) <= Cardinality(s) /\ Cardinality(upto) \in Nat
    BY <1>2, <2>2, FS_Subset, FS_CardinalityType
  <2>4. Cardinality(upto) # 0 BY <2>2, <2>3, FS_EmptySet
  <2> QED BY <1>2, <2>1, <2>3, <2>4, OutputCardinality DEF Output!Place
<1>7. Output!Place(more, n + 1) = Cardinality(s) + 1
  BY <1>4, <1>5, OutputCardinality DEF Output!Place
<1> QED BY <1>2, <1>4, <1>6, <1>7

\* What rows hold, and what a wrapper may make of them.
AllNames == UNION {{r.names[p] : p \in DOMAIN r.names} : r \in Rows}
Endpoints ==
    [url : {r.url : r \in Rows}, method : {r.method : r \in Rows} \union {"GET"},
     status : {r.status : r \in Rows} \union {Output!NoStatus},
     type : {r.type : r \in Rows} \union {"none"}]
Outcomes ==
    [endpoints : Seq(Endpoints), scripts : Seq({r.url : r \in Rows}), names : Seq(AllNames),
     missing : BOOLEAN]

\* The names of a row are a sequence.
LEMMA RowNames ==
    ASSUME NEW r \in Rows
    PROVE  r.names \in Seq(AllNames)
<1>1. PICK t \in DOMAIN RowsOf : r \in RowsOf[t] BY DEF Rows
<1>2. r.names \in Seq({r.names[p] : p \in DOMAIN r.names}) BY <1>1, ReadersAssumption DEF IsSequence
<1>3. {r.names[p] : p \in DOMAIN r.names} \subseteq AllNames BY DEF AllNames
<1> QED BY <1>2, <1>3, WiderSeq

\* What a row that is read does, unless it raises.
LEMMA RowEffect ==
    ASSUME NEW r \in Rows, outcome \in Outcomes, ReadsRow(r), at' # "raised"
    PROVE  /\ at = "reading" /\ at' = at /\ tool' = tool /\ read' = Append(read, r)
           /\ outcome' \in Outcomes
           /\ ~Output!Usable(r) => outcome' = outcome
           /\ Output!Usable(r) =>
                 /\ tool # "arjun" =>
                       outcome'.endpoints = Append(outcome.endpoints, Output!EndpointOf(r))
                 /\ tool = "katana" =>
                       outcome'.scripts = IF Output!Script(Output!EndpointOf(r))
                                          THEN Append(outcome.scripts, r.url) ELSE outcome.scripts
                 /\ tool \in {"httpx", "arjun"} =>
                       outcome'.names = Output!WithNames(outcome.names, r.names)
<1>1. at = "reading" /\ tool' = tool /\ read' = Append(read, r)
  BY DEF ReadsRow, Output!ReadHttpx, Output!ReadKatana, Output!ReadFfuf,
     Output!ReadArjun, Output!ReadGau, Output!Reading
<1>2. ~Output!Raises BY DEF Output!Raises
<1>3. /\ outcome.endpoints \in Seq(Endpoints) /\ outcome.scripts \in Seq({x.url : x \in Rows})
      /\ outcome.names \in Seq(AllNames) /\ outcome.missing \in BOOLEAN
  BY DEF Outcomes
<1>4. /\ Append(outcome.endpoints, Output!EndpointOf(r)) \in Seq(Endpoints)
      /\ Append(outcome.scripts, r.url) \in Seq({x.url : x \in Rows})
  <2>1. Output!EndpointOf(r) \in Endpoints
    BY DEF Endpoints, Output!EndpointOf, Output!MethodOf, Output!StatusOf
  <2> QED BY <1>3, <2>1
<1>5. Output!WithNames(outcome.names, r.names) \in Seq(AllNames)
  BY <1>3, RowNames, NamesTaken DEF Taken
<1>6. CASE Output!ReadHttpx(r)
  BY <1>1, <1>2, <1>3, <1>4, <1>5, <1>6
  DEF Output!ReadHttpx, Output!Skip, Output!Keep, Output!Added, Output!Addressed, Output!Usable, Outcomes
<1>7. CASE Output!ReadKatana(r)
  BY <1>1, <1>2, <1>3, <1>4, <1>7
  DEF Output!ReadKatana, Output!Skip, Output!Keep, Output!Added, Output!Addressed, Output!Usable,
      Outcomes, Output!Script, Output!EndpointOf
<1>8. CASE Output!ReadFfuf(r)
  BY <1>1, <1>2, <1>3, <1>4, <1>8
  DEF Output!ReadFfuf, Output!Skip, Output!Keep, Output!Added, Output!Addressed, Output!Usable, Outcomes
<1>9. CASE Output!ReadArjun(r)
  BY <1>1, <1>2, <1>3, <1>5, <1>9
  DEF Output!ReadArjun, Output!Skip, Output!Keep, Output!Usable, Outcomes
<1>10. CASE Output!ReadGau(r)
  BY <1>1, <1>2, <1>3, <1>4, <1>10
  DEF Output!ReadGau, Output!Skip, Output!Keep, Output!Added, Output!Usable, Outcomes
<1> QED BY <1>6, <1>7, <1>8, <1>9, <1>10 DEF ReadsRow

\* The rows that are usable, when one more has been read.
LEMMA UsableMore ==
    ASSUME read \in Seq(Rows), NEW r \in Rows, read' = Append(read, r), tool' = tool
    PROVE  /\ Len(read) \in Nat /\ Output!UsableRows \in SUBSET (1 .. Len(read))
           /\ read'[Len(read) + 1] = r /\ \A i \in Output!UsableRows : read'[i] = read[i]
           /\ Output!UsableRows' = IF Output!Usable(r) THEN Output!UsableRows \union {Len(read) + 1}
                                   ELSE Output!UsableRows
<1>1. /\ Len(read) \in Nat /\ DOMAIN read = 1 .. Len(read) /\ DOMAIN read' = 1 .. Len(read) + 1
      /\ read'[Len(read) + 1] = r /\ \A i \in 1 .. Len(read) : read'[i] = read[i]
  OBVIOUS
<1>2. 1 .. Len(read) + 1 = 1 .. Len(read) \union {Len(read) + 1} BY <1>1
<1>3. \A x : Output!Usable(x)' <=> Output!Usable(x) BY DEF Output!Usable
<1>4. Output!UsableRows' = {i \in 1 .. Len(read) + 1 : Output!Usable(read'[i])}
  BY <1>1 DEF Output!UsableRows, Output!Usable
<1>5. Output!UsableRows = {i \in 1 .. Len(read) : Output!Usable(read[i])}
  BY <1>1 DEF Output!UsableRows
<1>6. \A i : i \in Output!UsableRows' <=>
              i \in Output!UsableRows \/ (i = Len(read) + 1 /\ Output!Usable(r))
  <2>1. Len(read) + 1 \notin 1 .. Len(read) BY <1>1
  <2> QED BY <1>1, <1>2, <1>4, <1>5, <2>1
<1> QED BY <1>1, <1>5, <1>6

\* A row that is usable adds its endpoint, and no other adds one.
LEMMA EndpointsKeep ==
    ASSUME read \in Seq(Rows), NEW r \in Rows, read' = Append(read, r), tool' = tool,
           outcome \in Outcomes, Output!EndpointsKept,
           IF Output!Usable(r)
           THEN outcome'.endpoints = Append(outcome.endpoints, Output!EndpointOf(r))
           ELSE outcome'.endpoints = outcome.endpoints
    PROVE  Output!EndpointsKept'
<1> DEFINE s == Output!UsableRows
           n == Len(read)
           to == outcome.endpoints
<1>1. /\ n \in Nat /\ s \in SUBSET (1 .. n) /\ read'[n + 1] = r /\ \A i \in s : read'[i] = read[i]
      /\ Output!UsableRows' = IF Output!Usable(r) THEN s \union {n + 1} ELSE s
  BY UsableMore
<1>2. to \in Seq(Endpoints) /\ Len(to) \in Nat BY DEF Outcomes
<1>3. Len(to) = Cardinality(s) /\ \A i \in s : to[Output!Place(s, i)].url = read[i].url
  BY OutputCardinality DEF Output!EndpointsKept
<1>4. SUFFICES /\ Len(outcome'.endpoints) = Cardinality(Output!UsableRows')
               /\ \A i \in Output!UsableRows' :
                     outcome'.endpoints[Output!Place(Output!UsableRows', i)].url = read'[i].url
  BY OutputCardinality DEF Output!EndpointsKept, Output!Place
<1>5. CASE ~Output!Usable(r) BY <1>1, <1>3, <1>5
<1>6. CASE Output!Usable(r)
  <2> DEFINE e == Output!EndpointOf(r)
             more == s \union {n + 1}
  <2>1. e.url = r.url BY DEF Output!EndpointOf
  <2>2. outcome'.endpoints = Append(to, e) /\ Output!UsableRows' = more BY <1>1, <1>6
  <2> HIDE DEF s, n, to, e
  <2>3. /\ Cardinality(s) \in Nat /\ Cardinality(more) = Cardinality(s) + 1
        /\ Output!Place(more, n + 1) = Cardinality(s) + 1
        /\ \A i \in s : Output!Place(more, i) = Output!Place(s, i)
                        /\ Output!Place(s, i) \in 1 .. Cardinality(s)
    BY <1>1, PlaceMore
  <2> HIDE DEF more
  <2>4. /\ Len(Append(to, e)) = Len(to) + 1 /\ Append(to, e)[Len(to) + 1] = e
        /\ \A k \in 1 .. Len(to) : Append(to, e)[k] = to[k]
    BY <1>2
  <2>5. \A i \in more : i \in s \/ i = n + 1 BY DEF more
  <2>6. \A i \in more : Append(to, e)[Output!Place(more, i)].url = read'[i].url
    <3>1. \A i \in s : Append(to, e)[Output!Place(more, i)].url = read'[i].url
      BY <1>1, <1>3, <2>3, <2>4
    <3>2. Append(to, e)[Output!Place(more, n + 1)].url = read'[n + 1].url
      BY <1>1, <1>3, <2>1, <2>3, <2>4
    <3> QED BY <2>5, <3>1, <3>2
  <2> QED BY <1>3, <2>2, <2>3, <2>4, <2>6
<1> QED BY <1>5, <1>6

\* In the rows at t: where a name is mentioned, which names are, and that a list has
\* them in the order of their first mention.
Said(t, rows, x) ==
    UNION {{<<i, p>> : p \in {p \in DOMAIN rows[i].names : rows[i].names[p] = x}} : i \in t}
Named(t, rows) == (UNION {Output!ToSet(rows[i].names) : i \in t}) \ {"number"}
Ordered(list, t, rows) == \A i, k \in DOMAIN list : i < k =>
    \E m \in Said(t, rows, list[i]) : \A l \in Said(t, rows, list[k]) : Output!Earlier(m, l)

\* The mentions of a name, and the names that are mentioned, one by one.
LEMMA SaidBy ==
    ASSUME NEW t, NEW rows, NEW x, NEW m
    PROVE  m \in Said(t, rows, x) <=>
              \E i \in t : \E p \in DOMAIN rows[i].names : rows[i].names[p] = x /\ m = <<i, p>>
BY DEF Said

LEMMA NamedBy ==
    ASSUME NEW t, NEW rows, NEW x
    PROVE  x \in Named(t, rows) <=> x # "number" /\ \E i \in t : x \in Output!ToSet(rows[i].names)
<1> DEFINE all == UNION {Output!ToSet(rows[i].names) : i \in t}
<1>1. x \in all <=> \E i \in t : x \in Output!ToSet(rows[i].names) OBVIOUS
<1> QED BY <1>1 DEF Named

\* The names of one more row keep their order, and none is forgotten.
LEMMA NamesMore ==
    ASSUME NEW n \in Nat, NEW s \in SUBSET (1 .. n), NEW rows, NEW N,
           rows[n + 1].names \in Seq(N), NEW old \in Seq(N),
           Output!ToSet(old) = Named(s, rows), Ordered(old, s, rows)
    PROVE  LET new == Output!WithNames(old, rows[n + 1].names)
               more == s \union {n + 1}
           IN  Output!ToSet(new) = Named(more, rows) /\ Ordered(new, more, rows)
<1> DEFINE names == rows[n + 1].names
           new == Output!WithNames(old, names)
           more == s \union {n + 1}
           L == Len(old)
           P == Len(names)
<1>1. Taken(new, old, names, P, N) BY NamesTaken
<1>2. /\ names \in Seq(N) /\ P \in Nat /\ DOMAIN names = 1 .. P
      /\ L \in Nat /\ DOMAIN old = 1 .. L
  OBVIOUS
<1>3. \A i \in s : i \in Nat /\ i < n + 1 OBVIOUS
<1>4. rows[n + 1].names = names OBVIOUS
<1> HIDE DEF new, names
<1>5. new \in Seq(N) /\ Len(new) \in Nat /\ DOMAIN new = 1 .. Len(new) /\ L <= Len(new)
  BY <1>1, <1>2 DEF Taken
<1>6. /\ Output!ToSet(old) = {old[i] : i \in 1 .. L} /\ Output!ToSet(names) = {names[p] : p \in 1 .. P}
      /\ Output!ToSet(new) = {new[i] : i \in 1 .. Len(new)}
  BY <1>2, <1>5 DEF Output!ToSet
<1>7. Output!ToSet(new) = Output!ToSet(old) \union (Output!ToSet(names) \ {"number"})
  BY <1>1, <1>6 DEF Taken
<1>8. Named(more, rows) = Named(s, rows) \union (Output!ToSet(names) \ {"number"})
  <2>1. \A i : i \in more <=> i \in s \/ i = n + 1 OBVIOUS
  <2>2. \A x : x \in Named(more, rows) <=>
                 x \in Named(s, rows) \/ (x \in Output!ToSet(names) /\ x # "number")
    BY <1>4, <2>1, NamedBy
  <2> QED BY <2>2
<1> HIDE DEF L, P
<1>9. \A x, m : m \in Said(more, rows, x) <=>
                   \/ m \in Said(s, rows, x)
                   \/ \E p \in 1 .. P : names[p] = x /\ m = <<n + 1, p>>
  BY <1>2, <1>4, SaidBy
<1>10. ASSUME NEW x, NEW m \in Said(s, rows, x), NEW q
       PROVE  Output!Earlier(m, <<n + 1, q>>)
  <2>1. PICK i \in s : \E p \in DOMAIN rows[i].names : m = <<i, p>> BY <1>10 DEF Said
  <2> QED BY <1>3, <2>1 DEF Output!Earlier
\* A name that is not an old one is first mentioned here.
<1>11. ASSUME NEW x, x # "number", x \notin Output!ToSet(old)
       PROVE  Said(s, rows, x) = {}
  <2> SUFFICES ASSUME NEW m \in Said(s, rows, x) PROVE FALSE OBVIOUS
  <2>1. PICK i \in s : \E p \in DOMAIN rows[i].names : rows[i].names[p] = x BY DEF Said
  <2>2. x \in Output!ToSet(rows[i].names) BY <2>1 DEF Output!ToSet
  <2>3. x \in Named(s, rows) BY <1>11, <2>1, <2>2, NamedBy
  <2> QED BY <1>11, <2>3
<1>12. \A i \in 1 .. L : i \in 1 .. Len(new) /\ new[i] = old[i]
  BY <1>1, <1>2, <1>5 DEF Taken, L
<1>13. ASSUME NEW k \in 1 .. Len(new), L < k
       PROVE  new[k] # "number" /\ new[k] \notin Output!ToSet(old)
  <2>1. \A i \in 1 .. L : new[i] # new[k]
    <3>1. \A i \in 1 .. L : i < k BY <1>2, <1>5, <1>13
    <3> QED BY <1>1, <1>12, <1>13, <3>1 DEF Taken, L
  <2>2. new[k] \notin Output!ToSet(old) BY <1>6, <1>12, <2>1
  <2>3. new[k] \in Output!ToSet(new) BY <1>6
  <2> QED BY <1>7, <2>2, <2>3
<1>14. ASSUME NEW i \in 1 .. Len(new), NEW k \in 1 .. Len(new), i < k
       PROVE  \E m \in Said(more, rows, new[i]) : \A l \in Said(more, rows, new[k]) : Output!Earlier(m, l)
  <2>1. CASE k <= L
    <3>1. i \in 1 .. L /\ k \in 1 .. L BY <1>2, <1>5, <1>14, <2>1
    <3>2. PICK m \in Said(s, rows, old[i]) : \A l \in Said(s, rows, old[k]) : Output!Earlier(m, l)
      BY <1>2, <1>14, <3>1 DEF Ordered
    <3>3. new[i] = old[i] /\ new[k] = old[k] BY <1>12, <3>1
    <3>4. m \in Said(more, rows, old[i]) BY <1>9, <3>2
    <3>5. ASSUME NEW l \in Said(more, rows, old[k]) PROVE Output!Earlier(m, l)
      <4>1. l \in Said(s, rows, old[k]) \/ \E p \in 1 .. P : l = <<n + 1, p>> BY <1>9, <3>5
      <4> QED BY <1>10, <3>2, <4>1
    <3> QED BY <3>3, <3>4, <3>5
  <2>2. CASE L < k /\ i <= L
    <3>1. i \in 1 .. L BY <1>2, <1>5, <2>2
    <3>2. new[i] \in Named(s, rows) BY <1>6, <1>12, <3>1
    <3>3. PICK h \in s : new[i] \in Output!ToSet(rows[h].names) BY <3>2 DEF Named
    <3>4. PICK p \in DOMAIN rows[h].names : rows[h].names[p] = new[i] BY <3>3 DEF Output!ToSet
    <3>5. <<h, p>> \in Said(s, rows, new[i]) BY <3>4, SaidBy
    <3>6. Said(s, rows, new[k]) = {} BY <1>11, <1>13, <2>2
    <3>7. <<h, p>> \in Said(more, rows, new[i]) BY <1>9, <3>5
    <3>8. ASSUME NEW l \in Said(more, rows, new[k]) PROVE Output!Earlier(<<h, p>>, l)
      <4>1. \E q \in 1 .. P : l = <<n + 1, q>> BY <1>9, <3>6, <3>8
      <4> QED BY <1>10, <3>5, <4>1
    <3> QED BY <3>7, <3>8
  <2>3. CASE L < i
    <3>1. L < k BY <1>2, <1>5, <1>14, <2>3
    <3>2. PICK p \in 1 .. P : names[p] = new[i] /\ \A q \in 1 .. P : names[q] = new[k] => p < q
      BY <1>1, <1>14, <2>3 DEF Taken, L
    <3>3. Said(s, rows, new[k]) = {} BY <1>11, <1>13, <3>1
    <3>4. <<n + 1, p>> \in Said(more, rows, new[i]) BY <1>9, <3>2
    <3>5. \A l \in Said(more, rows, new[k]) : Output!Earlier(<<n + 1, p>>, l)
      BY <1>9, <3>2, <3>3 DEF Output!Earlier
    <3> QED BY <3>4, <3>5
  <2>4. k <= L \/ L < i \/ (L < k /\ i <= L) BY <1>2, <1>5
  <2> QED BY <2>1, <2>2, <2>3, <2>4
<1>15. Ordered(new, more, rows) BY <1>5, <1>14 DEF Ordered
<1> QED BY <1>7, <1>8, <1>15 DEF new, names

Crawled(es) == {i \in DOMAIN es : Output!Script(es[i])}

\* An endpoint that is a script adds its URL to the scripts, and no other adds one.
LEMMA ScriptsKeep ==
    ASSUME NEW r \in Rows, outcome \in Outcomes, Output!ScriptsKept,
           \/ UNCHANGED outcome
           \/ /\ outcome'.endpoints = Append(outcome.endpoints, Output!EndpointOf(r))
              /\ outcome'.scripts = IF Output!Script(Output!EndpointOf(r))
                                    THEN Append(outcome.scripts, r.url) ELSE outcome.scripts
    PROVE  Output!ScriptsKept'
<1> DEFINE es == outcome.endpoints
           n == Len(es)
           s == Crawled(es)
           to == outcome.scripts
           e == Output!EndpointOf(r)
           longer == Append(es, e)
<1>1. es \in Seq(Endpoints) /\ n \in Nat /\ DOMAIN es = 1 .. n /\ to \in Seq({x.url : x \in Rows})
  BY DEF Outcomes
<1>2. Len(to) = Cardinality(s) /\ \A i \in s : to[Output!Place(s, i)] = es[i].url
  BY OutputCardinality DEF Output!ScriptsKept, Crawled
<1>3. SUFFICES /\ Len(outcome'.scripts) = Cardinality(Crawled(outcome'.endpoints))
               /\ \A i \in Crawled(outcome'.endpoints) :
                     outcome'.scripts[Output!Place(Crawled(outcome'.endpoints), i)]
                     = outcome'.endpoints[i].url
  BY OutputCardinality DEF Output!ScriptsKept, Crawled, Output!Place, Output!Script
<1>4. CASE UNCHANGED outcome BY <1>2, <1>4
<1>5. CASE /\ outcome'.endpoints = longer
           /\ outcome'.scripts = IF Output!Script(e) THEN Append(to, r.url) ELSE to
  <2>1. e.url = r.url BY DEF Output!EndpointOf
  <2>2. /\ DOMAIN longer = 1 .. n + 1 /\ longer[n + 1] = e /\ \A i \in 1 .. n : longer[i] = es[i]
    <3> HIDE DEF e
    <3> QED BY <1>1
  <2>3. s \in SUBSET (1 .. n) BY <1>1 DEF Crawled
  <2>4. \A i : i \in Crawled(longer) <=> i \in s \/ (i = n + 1 /\ Output!Script(e))
    <3>1. n + 1 \notin 1 .. n /\ \A i : i \in 1 .. n + 1 <=> i \in 1 .. n \/ i = n + 1 BY <1>1
    <3> HIDE DEF n, e, longer
    <3> QED BY <1>1, <2>2, <3>1 DEF Crawled
  <2>5. CASE ~Output!Script(e)
    <3>1. Crawled(longer) = s BY <2>4, <2>5
    <3> QED BY <1>2, <1>5, <2>2, <2>3, <2>5, <3>1
  <2>6. CASE Output!Script(e)
    <3> DEFINE more == s \union {n + 1}
    <3>1. Crawled(longer) = more BY <2>4, <2>6
    <3>2. outcome'.scripts = Append(to, r.url) /\ outcome'.endpoints = longer BY <1>5, <2>6
    <3> HIDE DEF s, n, to, es, longer, e
    <3>3. /\ Cardinality(s) \in Nat /\ Cardinality(more) = Cardinality(s) + 1
          /\ Output!Place(more, n + 1) = Cardinality(s) + 1
          /\ \A i \in s : Output!Place(more, i) = Output!Place(s, i)
                          /\ Output!Place(s, i) \in 1 .. Cardinality(s)
      BY <1>1, <2>3, PlaceMore
    <3> HIDE DEF more
    <3>4. /\ Len(Append(to, r.url)) = Len(to) + 1 /\ Append(to, r.url)[Len(to) + 1] = r.url
          /\ \A k \in 1 .. Len(to) : Append(to, r.url)[k] = to[k]
      BY <1>1
    <3>5. \A i \in s : Append(to, r.url)[Output!Place(more, i)] = longer[i].url
      BY <1>2, <2>2, <2>3, <3>3, <3>4
    <3>6. Append(to, r.url)[Output!Place(more, n + 1)] = longer[n + 1].url
      BY <1>2, <2>1, <2>2, <3>3, <3>4
    <3>7. \A i \in more : i \in s \/ i = n + 1 BY DEF more
    <3> QED BY <1>2, <3>1, <3>2, <3>3, <3>4, <3>5, <3>6, <3>7
  <2> QED BY <2>5, <2>6
<1> QED BY <1>4, <1>5

\* What is said depends on the rows at t alone.
LEMMA SameRows ==
    ASSUME NEW t, NEW a, NEW b, \A i \in t : a[i] = b[i], NEW list
    PROVE  Named(t, a) = Named(t, b) /\ (Ordered(list, t, a) => Ordered(list, t, b))
<1>1. \A x : x \in Named(t, a) <=> x \in Named(t, b) BY NamedBy
<1>2. \A x : Said(t, a, x) = Said(t, b, x)
  <2> SUFFICES ASSUME NEW x PROVE Said(t, a, x) = Said(t, b, x) OBVIOUS
  <2>1. \A m : m \in Said(t, a, x) <=> m \in Said(t, b, x) BY SaidBy
  <2>2. \A m : m \in Said(t, a, x) => m \in Said(t, b, x) BY <2>1
  <2>3. \A m : m \in Said(t, b, x) => m \in Said(t, a, x) BY <2>1
  <2> QED BY <2>2, <2>3
<1> QED BY <1>1, <1>2 DEF Ordered

\* A row that is usable adds its names, and no other adds one.
LEMMA NamesKeep ==
    ASSUME read \in Seq(Rows), NEW r \in Rows, read' = Append(read, r), tool' = tool,
           outcome \in Outcomes, Output!NamesKept,
           IF Output!Usable(r)
           THEN outcome'.names = Output!WithNames(outcome.names, r.names)
           ELSE outcome'.names = outcome.names
    PROVE  Output!NamesKept'
<1> DEFINE s == Output!UsableRows
           n == Len(read)
           more == s \union {n + 1}
           old == outcome.names
<1>1. /\ n \in Nat /\ s \in SUBSET (1 .. n) /\ read'[n + 1] = r /\ \A i \in s : read'[i] = read[i]
      /\ Output!UsableRows' = IF Output!Usable(r) THEN more ELSE s
  BY UsableMore
<1>2. old \in Seq(AllNames) /\ r.names \in Seq(AllNames) BY RowNames DEF Outcomes
<1>3. Output!ToSet(old) = Named(s, read) /\ Ordered(old, s, read)
  BY DEF Output!NamesKept, Output!Mentions, Named, Ordered, Said
<1>4. ASSUME Output!ToSet(outcome'.names) = Named(Output!UsableRows', read'),
             Ordered(outcome'.names, Output!UsableRows', read')
      PROVE  Output!NamesKept'
  BY <1>4 DEF Output!NamesKept, Output!Mentions, Named, Ordered, Said, Output!ToSet, Output!Earlier
<1> DEFINE rows == read'
<1>5. /\ \A i \in s : read[i] = rows[i]
      /\ rows[n + 1].names \in Seq(AllNames) /\ rows[n + 1].names = r.names
  BY <1>1, <1>2
<1> HIDE DEF s, n, old, rows
<1>6. Output!ToSet(old) = Named(s, rows) /\ Ordered(old, s, rows)
  BY <1>3, <1>5, SameRows
<1>7. CASE ~Output!Usable(r) BY <1>1, <1>4, <1>6, <1>7 DEF rows, old
<1>8. CASE Output!Usable(r)
  <2>1. outcome'.names = Output!WithNames(old, rows[n + 1].names) /\ Output!UsableRows' = more
    BY <1>1, <1>5, <1>8 DEF old
  <2>2. /\ Output!ToSet(outcome'.names) = Named(more, rows)
        /\ Ordered(outcome'.names, more, rows)
    BY <1>1, <1>2, <1>5, <1>6, <2>1, NamesMore
  <2> QED BY <1>4, <2>1, <2>2 DEF rows
<1> QED BY <1>7, <1>8

\* Nothing has been read.
Unread ==
    /\ read = <<>> /\ outcome \in Outcomes
    /\ outcome.endpoints = <<>> /\ outcome.scripts = <<>> /\ outcome.names = <<>>
Kept == Output!EndpointsKept /\ Output!ScriptsKept /\ Output!NamesKept

\* Of no rows, nothing is kept, and nothing is forgotten.
LEMMA UnreadKept == Unread => Kept
<1> SUFFICES ASSUME Unread PROVE Kept OBVIOUS
<1>1. outcome.endpoints = <<>> /\ outcome.scripts = <<>> /\ outcome.names = <<>> BY DEF Unread
<1>2. Output!UsableRows = {} BY DEF Output!UsableRows, Unread
<1>3. Output!Cardinality({}) = 0 BY OutputCardinality, FS_EmptySet
<1>4. DOMAIN <<>> = {} /\ Len(<<>>) = 0 OBVIOUS
<1>5. Output!EndpointsKept BY <1>1, <1>2, <1>3, <1>4 DEF Output!EndpointsKept
<1>6. Output!ScriptsKept
  <2>1. {i \in DOMAIN outcome.endpoints : Output!Script(outcome.endpoints[i])} = {} BY <1>1, <1>4
  <2> QED BY <1>1, <1>3, <1>4, <2>1 DEF Output!ScriptsKept
<1>7. Output!NamesKept
  <2>1. Output!ToSet(outcome.names) = {} BY <1>1, <1>4 DEF Output!ToSet
  <2> QED BY <1>1, <1>2, <1>4, <2>1 DEF Output!NamesKept
<1> QED BY <1>5, <1>6, <1>7 DEF Kept

\* What a wrapper starts with, and what one returns whose tool failed.
LEMMA NothingUnread ==
    /\ Output!Nothing \in Outcomes
    /\ Output!Nothing.endpoints = <<>> /\ Output!Nothing.scripts = <<>> /\ Output!Nothing.names = <<>>
    /\ \A m \in BOOLEAN :
          LET failed == [Output!Nothing EXCEPT !.missing = m] IN
          /\ failed \in Outcomes
          /\ failed.endpoints = <<>> /\ failed.scripts = <<>> /\ failed.names = <<>>
<1>1. <<>> \in Seq(Endpoints) /\ <<>> \in Seq({r.url : r \in Rows}) /\ <<>> \in Seq(AllNames)
  OBVIOUS
<1> QED BY <1>1 DEF Outcomes, Output!Nothing

\* The invariant: what has become of the rows that have been read.
RowsInvariant ==
    /\ RowsInv
    /\ outcome \in Outcomes
    /\ at = "called" => Unread
    /\ EveryUsableRow

\* The invariant holds at the start, and every row keeps it.
LEMMA KeptStart == ReadersInit => RowsInvariant
<1>1. ReadersInit => RowsInv /\ read = <<>> /\ outcome = Output!Nothing
  BY RowsStart DEF ReadersInit, Output!Init, NoAnswer
<1> QED BY <1>1, NothingUnread, UnreadKept
    DEF RowsInvariant, Unread, Kept, EveryUsableRow, Output!EveryUsableRow

LEMMA KeptStep ==
    ASSUME RowsInvariant, [ReadersNext]_<<rowVars, docVars>>
    PROVE  RowsInvariant'
<1>1. RowsInv' BY RowsStep DEF RowsInvariant
<1>2. CASE UNCHANGED rowVars
  <2>1. EveryUsableRow'
    BY <1>2 DEF rowVars, RowsInvariant, EveryUsableRow, Output!EveryUsableRow, Output!EndpointsKept,
       Output!ScriptsKept, Output!NamesKept, Output!UsableRows, Output!Usable, Output!Mentions
  <2> QED BY <1>1, <1>2, <2>1 DEF rowVars, RowsInvariant, Unread
<1>3. CASE Output!NoTargets \/ Output!RunFails \/ Output!Run
  <2>1. at = "called" /\ at' # "called" /\ read' = read
        /\ (outcome' = outcome \/ \E m \in BOOLEAN : outcome' = [Output!Nothing EXCEPT !.missing = m])
    BY <1>3 DEF Output!NoTargets, Output!RunFails, Output!Run
  <2>2. Unread' BY <2>1, NothingUnread DEF Unread, RowsInvariant
  <2>3. Kept' BY <2>2, UnreadKept, PTL
  <2> QED BY <1>1, <2>2, <2>3 DEF RowsInvariant, Unread, Kept, EveryUsableRow, Output!EveryUsableRow
<1>4. CASE Output!Return
  <2>1. at = "reading" /\ at' = "returned" /\ UNCHANGED <<tool, read, outcome>>
    BY <1>4 DEF Output!Return
  <2>2. EveryUsableRow'
    BY <2>1 DEF RowsInvariant, EveryUsableRow, Output!EveryUsableRow, Output!EndpointsKept,
       Output!ScriptsKept, Output!NamesKept, Output!UsableRows, Output!Usable, Output!Mentions
  <2> QED BY <1>1, <2>1, <2>2 DEF RowsInvariant
<1>5. ASSUME NEW r \in RowsOf[tool], ReadsRow(r) PROVE RowsInvariant'
  <2>1. r \in Rows /\ read \in Seq(Rows) /\ outcome \in Outcomes
    BY DEF RowsInvariant, RowsInv, Rows
  <2>2. CASE at' = "raised"
    <3>1. outcome' = Output!Nothing \/ outcome' = outcome
      BY <1>5, <2>2
      DEF ReadsRow, Output!ReadHttpx, Output!ReadKatana, Output!ReadFfuf, Output!ReadArjun,
          Output!ReadGau, Output!Reading, Output!Skip, Output!Keep, Output!Raises
    <3> QED
      BY <1>1, <2>1, <2>2, <3>1, NothingUnread
      DEF RowsInvariant, EveryUsableRow, Output!EveryUsableRow
  <2>3. CASE at' # "raised"
    <3>1. /\ at = "reading" /\ at' = at /\ tool' = tool /\ read' = Append(read, r)
          /\ outcome' \in Outcomes
          /\ ~Output!Usable(r) => outcome' = outcome
          /\ Output!Usable(r) =>
                 /\ tool # "arjun" =>
                       outcome'.endpoints = Append(outcome.endpoints, Output!EndpointOf(r))
                 /\ tool = "katana" =>
                       outcome'.scripts = IF Output!Script(Output!EndpointOf(r))
                                          THEN Append(outcome.scripts, r.url) ELSE outcome.scripts
                 /\ tool \in {"httpx", "arjun"} =>
                       outcome'.names = Output!WithNames(outcome.names, r.names)
      BY <1>5, <2>1, <2>3, RowEffect
    <3>2. /\ tool # "arjun" => Output!EndpointsKept
          /\ tool = "katana" => Output!ScriptsKept
          /\ tool \in {"httpx", "arjun"} => Output!NamesKept
      BY <3>1 DEF RowsInvariant, EveryUsableRow, Output!EveryUsableRow
    <3>3. tool # "arjun" => Output!EndpointsKept' BY <2>1, <3>1, <3>2, EndpointsKeep
    <3>4. tool = "katana" => Output!ScriptsKept' BY <2>1, <3>1, <3>2, ScriptsKeep
    <3>5. tool \in {"httpx", "arjun"} => Output!NamesKept' BY <2>1, <3>1, <3>2, NamesKeep
    <3> QED BY <1>1, <3>1, <3>3, <3>4, <3>5 DEF RowsInvariant, EveryUsableRow, Output!EveryUsableRow
  <2> QED BY <2>2, <2>3
<1> QED BY <1>2, <1>3, <1>4, <1>5 DEF ReadersNext, Output!Next, ReadsRow

\* Whatever rows the tools may write, and however many: each usable row is an
\* endpoint, each script among them a script, and each name is listed once, in order.
THEOREM RowsAreKept == ReadersSpec => []EveryUsableRow
<1>1. RowsInvariant => EveryUsableRow BY DEF RowsInvariant
<1>2. RowsInvariant /\ [ReadersNext]_<<rowVars, docVars>> => RowsInvariant' BY KeptStep
<1> QED BY <1>1, <1>2, KeptStart, PTL DEF ReadersSpec

-----------------------------------------------------------------------------
(* Specification documents. *)

\* The operation at o, a pair of an item and an entry of it, and what becomes of it.
KeyAt(o) == doc.paths[o[1]].entries[o[2]].key
ExpandedAt(o) ==
    [base |-> Document!Base(doc), path |-> doc.paths[o[1]].path, method |-> KeyAt(o),
     params |-> Document!ParamsOf(doc.paths[o[1]].entries[o[2]])]

\* The operations with a verb of K before entry e of item i.
Before(K, i, e) == {o \in Document!Operations(K) : o[1] < i \/ (o[1] = i /\ o[2] < e)}

\* Endpoints es are the expansions of ops, one of each.
Expansions(ops) == {ExpandedAt(o) : o \in ops}
Expand(es, ops) ==
    /\ IsFiniteSet(ops) /\ Len(es) = Cardinality(ops)
    /\ es \in Seq(Expansions(ops))
    /\ {es[k] : k \in 1 .. Len(es)} = Expansions(ops)

Count(n, ops) == IsFiniteSet(ops) /\ n = Cardinality(ops)

\* What is recorded of the first n.
FirstRecorded(es, n) == IF Document!Base(doc) = "absolute" THEN {es[k] : k \in 1 .. n} ELSE {}

Shape ==
    /\ doc.paths \in Seq({doc.paths[i] : i \in DOMAIN doc.paths})
    /\ \A i \in DOMAIN doc.paths :
          doc.paths[i].entries
          \in Seq({doc.paths[i].entries[k] : k \in DOMAIN doc.paths[i].entries})

Walkable == doc.kind \in {"openapi3", "swagger2"}

DocInv ==
    /\ Shape
    /\ place \in {"reading", "raised"} => recorded = {} /\ surface = 0
    /\ Walkable /\ place = "reading" =>
          /\ item \in Nat /\ entry \in Nat /\ item >= 1 /\ entry >= 1
          /\ Count(operations, Before(Document!OperationKeys, item, entry))
          /\ Expand(endpoints, Before(Document!Recordable, item, entry))
    /\ Walkable /\ place \in {"recording", "ended"} =>
          /\ Count(operations, Document!Operations(Document!OperationKeys))
          /\ Count(surface, Document!Operations(Document!Recordable))
          /\ Expand(endpoints, Document!Operations(Document!Recordable))
    /\ Walkable /\ place = "recording" =>
          /\ item \in 1 .. Len(endpoints) + 1
          /\ recorded = FirstRecorded(endpoints, item - 1)
    /\ Walkable /\ place = "ended" => recorded = FirstRecorded(endpoints, Len(endpoints))

\* Operations, one by one.
LEMMA OperationsAre ==
    ASSUME NEW K, NEW o
    PROVE  o \in Document!Operations(K) <=>
              \E i \in DOMAIN doc.paths : \E k \in DOMAIN doc.paths[i].entries :
                 /\ doc.paths[i].path # "number" /\ doc.paths[i].entries[k].key \in K
                 /\ o = <<i, k>>
BY DEF Document!Operations

\* An operation has a place in the document.
LEMMA OperationPlace ==
    ASSUME Shape, NEW K, NEW o \in Document!Operations(K)
    PROVE  /\ o[1] \in 1 .. Len(doc.paths) /\ Len(doc.paths) \in Nat
           /\ o[2] \in 1 .. Len(doc.paths[o[1]].entries) /\ Len(doc.paths[o[1]].entries) \in Nat
           /\ doc.paths[o[1]].path # "number" /\ KeyAt(o) \in K
           /\ o = <<o[1], o[2]>>
<1>1. PICK i \in DOMAIN doc.paths : \E k \in DOMAIN doc.paths[i].entries :
         /\ doc.paths[i].path # "number" /\ doc.paths[i].entries[k].key \in K
         /\ o = <<i, k>>
  BY OperationsAre
<1>2. PICK k \in DOMAIN doc.paths[i].entries :
         /\ doc.paths[i].path # "number" /\ doc.paths[i].entries[k].key \in K
         /\ o = <<i, k>>
  BY <1>1
<1>3. DOMAIN doc.paths = 1 .. Len(doc.paths) /\ Len(doc.paths) \in Nat BY DEF Shape
<1>4. /\ DOMAIN doc.paths[i].entries = 1 .. Len(doc.paths[i].entries)
      /\ Len(doc.paths[i].entries) \in Nat
  BY <1>1 DEF Shape
<1> QED BY <1>1, <1>2, <1>3, <1>4 DEF KeyAt

\* At the start of the document nothing has been seen.
LEMMA BeforeAll ==
    ASSUME Shape, NEW K
    PROVE  Before(K, 1, 1) = {}
BY OperationPlace DEF Before

\* At the end of the document, every operation has been seen.
LEMMA AfterAll ==
    ASSUME Shape, NEW K, NEW i \in Nat, NEW e, i > Len(doc.paths)
    PROVE  Before(K, i, e) = Document!Operations(K)
BY OperationPlace DEF Before

\* An item without entries left, or under something else than a string.
LEMMA BeforeNextItem ==
    ASSUME Shape, NEW K, NEW i \in Nat, NEW e \in Nat, i >= 1, i <= Len(doc.paths),
           doc.paths[i].path = "number" \/ e > Len(doc.paths[i].entries)
    PROVE  Before(K, i + 1, 1) = Before(K, i, e)
<1>1. ASSUME NEW o \in Document!Operations(K)
      PROVE  o[1] < i + 1 \/ (o[1] = i + 1 /\ o[2] < 1) <=> o[1] < i \/ (o[1] = i /\ o[2] < e)
  <2>1. /\ o[1] \in 1 .. Len(doc.paths) /\ Len(doc.paths) \in Nat
        /\ o[2] \in 1 .. Len(doc.paths[o[1]].entries) /\ Len(doc.paths[o[1]].entries) \in Nat
        /\ doc.paths[o[1]].path # "number"
    BY OperationPlace
  <2>2. CASE o[1] = i BY <2>1, <2>2
  <2>3. CASE o[1] # i BY <2>1, <2>3
  <2> QED BY <2>2, <2>3
<1> QED BY <1>1 DEF Before

\* One more entry.
LEMMA BeforeNextEntry ==
    ASSUME Shape, item \in Nat, entry \in Nat, item >= 1, entry >= 1, item <= Len(doc.paths),
           doc.paths[item].path # "number", entry <= Len(doc.paths[item].entries), NEW K
    PROVE  /\ <<item, entry>> \notin Before(K, item, entry)
           /\ Before(K, item, entry + 1) =
                 IF doc.paths[item].entries[entry].key \in K
                 THEN Before(K, item, entry) \union {<<item, entry>>} ELSE Before(K, item, entry)
<1>1. item \in DOMAIN doc.paths
  BY DEF Shape
<1>2. entry \in DOMAIN doc.paths[item].entries
  BY <1>1 DEF Shape
<1>3. <<item, entry>> \in Document!Operations(K) <=> doc.paths[item].entries[entry].key \in K
  <2>1. ASSUME <<item, entry>> \in Document!Operations(K)
        PROVE  doc.paths[item].entries[entry].key \in K
    BY <2>1, OperationPlace DEF KeyAt
  <2>2. ASSUME doc.paths[item].entries[entry].key \in K
        PROVE  <<item, entry>> \in Document!Operations(K)
    BY <1>1, <1>2, <2>2, OperationsAre
  <2> QED BY <2>1, <2>2
<1>4. ASSUME NEW o \in Document!Operations(K)
      PROVE  (o[1] < item \/ (o[1] = item /\ o[2] < entry + 1))
             <=> (o[1] < item \/ (o[1] = item /\ o[2] < entry)) \/ o = <<item, entry>>
  <2>1. o[1] \in Nat /\ o[2] \in Nat /\ o = <<o[1], o[2]>> BY OperationPlace
  <2> QED BY <2>1
<1>5. <<item, entry>> \notin Before(K, item, entry) BY DEF Before
<1> QED BY <1>3, <1>4, <1>5 DEF Before

\* One more endpoint.
LEMMA ExpandMore ==
    ASSUME NEW es, NEW ops, NEW o, Expand(es, ops), o \notin ops
    PROVE  Expand(Append(es, ExpandedAt(o)), ops \union {o})
<1> DEFINE x == ExpandedAt(o)
           more == ops \union {o}
<1>1. Expansions(more) = Expansions(ops) \union {x} BY DEF Expansions
<1> HIDE DEF x
<1>2. es \in Seq(Expansions(more)) /\ x \in Expansions(more) /\ Len(es) \in Nat
  <2>1. es \in Seq(Expansions(ops)) BY DEF Expand
  <2>2. Expansions(ops) \subseteq Expansions(more) /\ x \in Expansions(more) BY <1>1
  <2> QED BY <2>1, <2>2, WiderSeq
<1>3. /\ Append(es, x) \in Seq(Expansions(more)) /\ Len(Append(es, x)) = Len(es) + 1
      /\ \A k \in 1 .. Len(es) : Append(es, x)[k] = es[k]
      /\ Append(es, x)[Len(es) + 1] = x
  BY <1>2
<1>4. {Append(es, x)[k] : k \in 1 .. Len(es) + 1} = Expansions(more)
  <2>1. 1 .. Len(es) + 1 = 1 .. Len(es) \union {Len(es) + 1} BY <1>2
  <2>2. {es[k] : k \in 1 .. Len(es)} = Expansions(ops) BY DEF Expand
  <2> QED BY <1>1, <1>3, <2>1, <2>2
<1>5. IsFiniteSet(more) /\ Cardinality(more) = Cardinality(ops) + 1
  BY FS_AddElement DEF Expand
<1> QED BY <1>3, <1>4, <1>5 DEF Expand, x

-----------------------------------------------------------------------------
\* The parts of the invariant that bind while the document is read, after a step.
Reads(i, e, n, es) ==
    /\ i \in Nat /\ e \in Nat /\ i >= 1 /\ e >= 1
    /\ Count(n, Before(Document!OperationKeys, i, e))
    /\ Expand(es, Before(Document!Recordable, i, e))

\* No step changes the document.
LEMMA SameDocument ==
    ASSUME doc' = doc
    PROVE  /\ Shape' <=> Shape
           /\ Walkable' <=> Walkable
           /\ \A K : Document!Operations(K)' = Document!Operations(K)
           /\ \A K, i, e : Before(K, i, e)' = Before(K, i, e)
           /\ \A es, ops : Expand(es, ops)' <=> Expand(es, ops)
           /\ \A es, n : FirstRecorded(es, n)' = FirstRecorded(es, n)
           /\ \A i, e, n, es : Reads(i, e, n, es)' <=> Reads(i, e, n, es)
BY DEF Shape, Walkable, Document!Operations, Before, Expand, Expansions, ExpandedAt, KeyAt,
   FirstRecorded, Reads

\* A document is served.
LEMMA DocStarts == ReadersInit => DocInv
<1>1. ASSUME NoDocument PROVE DocInv
  <2>1. /\ place = "ended" /\ recorded = {} /\ surface = 0
        /\ doc.kind = "unknown" /\ doc.paths = <<>>
    BY <1>1 DEF NoDocument
  <2>2. Shape BY <2>1 DEF Shape
  <2> QED BY <2>1, <2>2 DEF DocInv, Walkable
<1>2. ASSUME Document!Init PROVE DocInv
  <2>1. /\ place = "reading" /\ doc \in Docs /\ item = 1 /\ entry = 1
        /\ endpoints = <<>> /\ operations = 0 /\ recorded = {} /\ surface = 0
    BY <1>2 DEF Document!Init
  <2>2. Shape BY <2>1, ReadersAssumption DEF Shape, IsSequence
  <2>3. \A K : Before(K, 1, 1) = {} BY <2>2, BeforeAll
  <2>4. IsFiniteSet({}) /\ Cardinality({}) = 0 BY FS_EmptySet
  <2>5. Expansions({}) = {} BY DEF Expansions
  <2>6. Expand(<<>>, {}) BY <2>4, <2>5 DEF Expand
  <2>7. Count(0, {}) BY <2>4 DEF Count
  <2> QED BY <2>1, <2>2, <2>3, <2>6, <2>7 DEF DocInv
<1> QED BY <1>1, <1>2 DEF ReadersInit

\* The reader goes on to an entry of an item that is an object under a string.
LEMMA EntryFacts ==
    ASSUME DocInv, Document!AtEntry
    PROVE  /\ Walkable /\ place = "reading" /\ UNCHANGED <<doc, surface, item>> /\ entry' = entry + 1
           /\ item \in Nat /\ entry \in Nat /\ item >= 1 /\ entry >= 1
           /\ Document!Entry.key = KeyAt(<<item, entry>>)
           /\ \A K : /\ <<item, entry>> \notin Before(K, item, entry)
                     /\ Before(K, item, entry + 1) =
                           IF Document!Entry.key \in K THEN Before(K, item, entry) \union {<<item, entry>>}
                           ELSE Before(K, item, entry)
<1>1. /\ Walkable /\ place = "reading" /\ item <= Len(doc.paths)
      /\ UNCHANGED <<doc, surface, item>> /\ entry' = entry + 1
      /\ doc.paths[item].path # "number" /\ entry <= Len(doc.paths[item].entries)
  BY DEF Document!AtEntry, Document!Walking, Walkable
<1>2. Shape /\ item \in Nat /\ entry \in Nat /\ item >= 1 /\ entry >= 1 BY <1>1 DEF DocInv
<1>3. Document!Entry.key = doc.paths[item].entries[entry].key BY DEF Document!Entry
<1>4. \A K : /\ <<item, entry>> \notin Before(K, item, entry)
             /\ Before(K, item, entry + 1) =
                   IF doc.paths[item].entries[entry].key \in K
                   THEN Before(K, item, entry) \union {<<item, entry>>} ELSE Before(K, item, entry)
  BY <1>1, <1>2, BeforeNextEntry
<1>5. KeyAt(<<item, entry>>) = doc.paths[item].entries[entry].key BY DEF KeyAt
<1> QED BY <1>1, <1>2, <1>3, <1>4, <1>5

\* One more of what is counted.
LEMMA CountMore ==
    ASSUME NEW n, NEW ops, NEW o, Count(n, ops), o \notin ops
    PROVE  Count(n + 1, ops \union {o})
BY FS_AddElement DEF Count

\* A step within the document keeps the invariant if it keeps these parts.
LEMMA ReadsKeep ==
    ASSUME DocInv, doc' = doc, place = "reading", place' = "reading", UNCHANGED <<recorded, surface>>,
           Reads(item', entry', operations', endpoints')
    PROVE  DocInv'
<1>1. Reads(item, entry, operations, endpoints)'
  BY SameDocument
<1> QED BY <1>1, SameDocument DEF DocInv, Reads

\* The steps of the reader and of the stage, one by one: the next item.
LEMMA NextItemKeeps ==
    ASSUME DocInv, Document!NextItem
    PROVE  DocInv'
<1>1. /\ Walkable /\ place = "reading" /\ item <= Len(doc.paths)
      /\ UNCHANGED <<doc, surface, place, endpoints, operations, recorded>>
      /\ doc.paths[item].path = "number" \/ entry > Len(doc.paths[item].entries)
      /\ item' = item + 1 /\ entry' = 1
  BY DEF Document!NextItem, Document!Walking, Walkable
<1>2. Shape /\ Reads(item, entry, operations, endpoints) BY <1>1 DEF DocInv, Reads
<1>3. \A K : Before(K, item + 1, 1) = Before(K, item, entry)
  BY <1>1, <1>2, BeforeNextItem DEF Reads
<1>4. Reads(item', entry', operations', endpoints') BY <1>1, <1>2, <1>3 DEF Reads
<1> QED BY <1>1, <1>4, ReadsKeep

\* An entry that is not expanded, though it may be counted.
LEMMA SkipEntryKeeps ==
    ASSUME DocInv, Document!SkipEntry
    PROVE  DocInv'
<1>1. /\ Document!AtEntry /\ UNCHANGED <<place, endpoints, recorded>> /\ Document!Entry.key \notin Document!Recordable
      /\ operations' = IF Document!Entry.key \in Document!OperationKeys THEN operations + 1 ELSE operations
  BY DEF Document!SkipEntry
<1>2. /\ Walkable /\ place = "reading" /\ UNCHANGED <<doc, surface, item>> /\ entry' = entry + 1
      /\ item \in Nat /\ entry \in Nat /\ item >= 1 /\ entry >= 1
  BY <1>1, EntryFacts
<1>3. Reads(item, entry, operations, endpoints) BY <1>2 DEF DocInv, Reads
<1>4. Before(Document!Recordable, item, entry + 1) = Before(Document!Recordable, item, entry)
  BY <1>1, EntryFacts
<1>5. Count(operations', Before(Document!OperationKeys, item, entry + 1))
  <2>1. CASE Document!Entry.key \in Document!OperationKeys
    <3>1. /\ <<item, entry>> \notin Before(Document!OperationKeys, item, entry)
          /\ Before(Document!OperationKeys, item, entry + 1) =
                Before(Document!OperationKeys, item, entry) \union {<<item, entry>>}
      BY <1>1, <2>1, EntryFacts
    <3>2. Count(operations, Before(Document!OperationKeys, item, entry)) BY <1>3 DEF Reads
    <3> QED BY <1>1, <2>1, <3>1, <3>2, CountMore
  <2>2. CASE Document!Entry.key \notin Document!OperationKeys
    BY <1>1, <1>3, <2>2, EntryFacts DEF Reads
  <2> QED BY <2>1, <2>2
<1>6. Reads(item', entry', operations', endpoints') BY <1>1, <1>2, <1>3, <1>4, <1>5 DEF Reads
<1> QED BY <1>1, <1>2, <1>6, ReadsKeep

\* An operation that is expanded.
LEMMA ReadOperationKeeps ==
    ASSUME DocInv, Document!ReadOperation
    PROVE  DocInv'
<1>1. /\ Document!AtEntry /\ UNCHANGED <<place, recorded>> /\ Document!Entry.key \in Document!Recordable
      /\ endpoints' = Append(endpoints, Document!Expanded) /\ operations' = operations + 1
  BY DEF Document!ReadOperation
<1>2. /\ Walkable /\ place = "reading" /\ UNCHANGED <<doc, surface, item>> /\ entry' = entry + 1
      /\ item \in Nat /\ entry \in Nat /\ item >= 1 /\ entry >= 1
  BY <1>1, EntryFacts
<1>3. Reads(item, entry, operations, endpoints) BY <1>2 DEF DocInv, Reads
<1>4. Document!Entry.key \in Document!OperationKeys BY <1>1 DEF Document!Recordable
<1>5. Document!Expanded = ExpandedAt(<<item, entry>>) BY DEF Document!Expanded, Document!Entry, ExpandedAt, KeyAt
<1>6. Count(operations', Before(Document!OperationKeys, item, entry + 1))
  <2>1. /\ <<item, entry>> \notin Before(Document!OperationKeys, item, entry)
        /\ Before(Document!OperationKeys, item, entry + 1) =
              Before(Document!OperationKeys, item, entry) \union {<<item, entry>>}
    BY <1>1, <1>4, EntryFacts
  <2>2. Count(operations, Before(Document!OperationKeys, item, entry)) BY <1>3 DEF Reads
  <2> QED BY <1>1, <2>1, <2>2, CountMore
<1>7. Expand(endpoints', Before(Document!Recordable, item, entry + 1))
  <2>1. /\ <<item, entry>> \notin Before(Document!Recordable, item, entry)
        /\ Before(Document!Recordable, item, entry + 1) =
              Before(Document!Recordable, item, entry) \union {<<item, entry>>}
    BY <1>1, EntryFacts
  <2> QED BY <1>1, <1>3, <1>5, <2>1, ExpandMore DEF Reads
<1>8. Reads(item', entry', operations', endpoints') BY <1>1, <1>2, <1>6, <1>7 DEF Reads
<1> QED BY <1>1, <1>2, <1>8, ReadsKeep

\* A document that is not walked, or that the reader fails on.
LEMMA GiveUpKeeps ==
    ASSUME DocInv, Document!Unrecognised \/ Document!ReadRaises
    PROVE  DocInv'
<1>1. /\ place = "reading" /\ UNCHANGED <<doc, recorded, surface>>
      /\ place' = "raised" \/ (place' = "ended" /\ ~Walkable)
  BY DEF Document!Unrecognised, Document!ReadRaises, Document!AtEntry, Document!Walking, Walkable
<1> QED BY <1>1, SameDocument DEF DocInv

\* The reader ends, and the stage begins.
LEMMA WalkedKeeps ==
    ASSUME DocInv, Document!Walked
    PROVE  DocInv'
<1>1. /\ Walkable /\ place = "reading" /\ item > Len(doc.paths) /\ item' = 1
      /\ UNCHANGED <<doc, entry, endpoints, operations, recorded>> /\ surface' = Len(endpoints)
      /\ place' = IF endpoints = <<>> THEN "ended" ELSE "recording"
  BY DEF Document!Walked, Walkable
<1>2. Shape /\ Reads(item, entry, operations, endpoints) /\ recorded = {}
  BY <1>1 DEF DocInv, Reads
<1>3. \A K : Before(K, item, entry) = Document!Operations(K) BY <1>1, <1>2, AfterAll DEF Reads
<1>4. /\ Count(operations, Document!Operations(Document!OperationKeys))
      /\ Expand(endpoints, Document!Operations(Document!Recordable))
  BY <1>2, <1>3 DEF Reads
<1>5. Count(surface', Document!Operations(Document!Recordable)) BY <1>1, <1>4 DEF Count, Expand
<1>6. FirstRecorded(endpoints, 0) = {} BY DEF FirstRecorded
<1>7. Len(endpoints) \in Nat /\ (endpoints = <<>> => Len(endpoints) = 0) BY <1>4 DEF Expand
<1>8. (doc' = doc) /\ Shape' /\ Walkable' BY <1>1, <1>2, SameDocument
<1>9. /\ Count(operations, Document!Operations(Document!OperationKeys))'
      /\ Count(surface, Document!Operations(Document!Recordable))'
      /\ Expand(endpoints, Document!Operations(Document!Recordable))'
  <2>1. \A K : Document!Operations(K)' = Document!Operations(K) BY <1>1, SameDocument
  <2>2. Expand(endpoints, Document!Operations(Document!Recordable))'
    BY <1>1, <1>4, <2>1, SameDocument
  <2> QED BY <1>1, <1>4, <1>5, <2>1, <2>2 DEF Count
<1>10. /\ FirstRecorded(endpoints, item - 1)' = {}
       /\ endpoints = <<>> => FirstRecorded(endpoints, Len(endpoints))' = {}
  BY <1>1, <1>6, <1>7 DEF FirstRecorded
<1> QED BY <1>1, <1>2, <1>7, <1>8, <1>9, <1>10 DEF DocInv

\* The stage records the next endpoint.
LEMMA RecordKeeps ==
    ASSUME DocInv, Document!Record
    PROVE  DocInv'
<1>1. /\ place = "recording" /\ item <= Len(endpoints) /\ item' = item + 1
      /\ UNCHANGED <<place, doc, entry, endpoints, operations, surface>>
      /\ recorded' = IF endpoints[item].base = "absolute" THEN recorded \union {endpoints[item]}
                     ELSE recorded
  BY DEF Document!Record
<1>2. ASSUME Walkable
      PROVE  /\ item' \in 1 .. Len(endpoints) + 1
             /\ recorded' = FirstRecorded(endpoints, item' - 1)
  <2>1. /\ Expand(endpoints, Document!Operations(Document!Recordable)) /\ item \in 1 .. Len(endpoints) + 1
        /\ recorded = FirstRecorded(endpoints, item - 1)
    BY <1>1, <1>2 DEF DocInv
  <2>2. Len(endpoints) \in Nat BY <2>1 DEF Expand
  <2>3. endpoints[item] \in Expansions(Document!Operations(Document!Recordable))
    BY <1>1, <2>1, <2>2 DEF Expand
  <2>4. endpoints[item].base = Document!Base(doc) BY <2>3 DEF Expansions, ExpandedAt
  <2>5. item' - 1 = item /\ 1 .. item = 1 .. item - 1 \union {item} BY <1>1, <2>1, <2>2
  <2>6. CASE Document!Base(doc) = "absolute"
    <3>1. recorded' = {endpoints[k] : k \in 1 .. item - 1} \union {endpoints[item]}
      BY <1>1, <2>1, <2>4, <2>6 DEF FirstRecorded
    <3>2. recorded' = {endpoints[k] : k \in 1 .. item} BY <2>5, <3>1
    <3>3. FirstRecorded(endpoints, item) = {endpoints[k] : k \in 1 .. item}
      BY <2>6 DEF FirstRecorded
    <3>4. item' \in 1 .. Len(endpoints) + 1 BY <1>1, <2>1, <2>2
    <3> QED BY <2>5, <3>2, <3>3, <3>4
  <2>7. CASE Document!Base(doc) # "absolute"
    BY <1>1, <2>1, <2>2, <2>4, <2>5, <2>7 DEF FirstRecorded
  <2> QED BY <2>6, <2>7
<1>3. /\ Count(operations, Document!Operations(Document!OperationKeys))' <=>
            Count(operations, Document!Operations(Document!OperationKeys))
      /\ Count(surface, Document!Operations(Document!Recordable))' <=> Count(surface, Document!Operations(Document!Recordable))
      /\ Expand(endpoints, Document!Operations(Document!Recordable))' <=>
            Expand(endpoints, Document!Operations(Document!Recordable))
  BY <1>1 DEF Count, Expand, Expansions, ExpandedAt, KeyAt, Document!Operations
<1>4. (recorded = FirstRecorded(endpoints, item - 1))' <=>
         recorded' = FirstRecorded(endpoints, item' - 1)
  BY <1>1 DEF FirstRecorded
<1>5. Shape' /\ (Walkable' <=> Walkable) BY <1>1, SameDocument DEF DocInv
<1> QED BY <1>1, <1>2, <1>3, <1>4, <1>5 DEF DocInv

\* The stage ends, or nothing happens to the document.
LEMMA RestOfDocument ==
    ASSUME DocInv, Document!Recorded \/ UNCHANGED docVars
    PROVE  DocInv'
<1>1. CASE UNCHANGED docVars
  <2>1. UNCHANGED <<place, doc, item, entry, endpoints, operations, recorded, surface>>
    BY <1>1 DEF docVars
  <2>2. Shape' /\ (Walkable' <=> Walkable) BY <2>1, SameDocument DEF DocInv
  <2>3. Reads(item, entry, operations, endpoints)' <=> Reads(item, entry, operations, endpoints)
    BY <2>1 DEF Reads, Before, Count, Expand, Expansions, ExpandedAt, KeyAt, Document!Operations
  <2>4. /\ Count(operations, Document!Operations(Document!OperationKeys))' <=>
              Count(operations, Document!Operations(Document!OperationKeys))
        /\ Count(surface, Document!Operations(Document!Recordable))' <=>
              Count(surface, Document!Operations(Document!Recordable))
        /\ Expand(endpoints, Document!Operations(Document!Recordable))' <=>
              Expand(endpoints, Document!Operations(Document!Recordable))
        /\ (recorded = FirstRecorded(endpoints, Len(endpoints)))' <=>
              recorded = FirstRecorded(endpoints, Len(endpoints))
        /\ (recorded = FirstRecorded(endpoints, item - 1))' <=>
              recorded = FirstRecorded(endpoints, item - 1)
    BY <2>1 DEF Count, Expand, Expansions, ExpandedAt, KeyAt, Document!Operations, FirstRecorded
  <2> QED BY <2>1, <2>2, <2>3, <2>4 DEF DocInv, Reads
<1>2. CASE Document!Recorded
  <2>1. /\ place = "recording" /\ item > Len(endpoints) /\ place' = "ended"
        /\ UNCHANGED <<doc, item, entry, endpoints, operations, recorded, surface>>
    BY <1>2 DEF Document!Recorded
  <2>2. ASSUME Walkable PROVE recorded = FirstRecorded(endpoints, Len(endpoints))
    <3>1. /\ Expand(endpoints, Document!Operations(Document!Recordable)) /\ item \in 1 .. Len(endpoints) + 1
          /\ recorded = FirstRecorded(endpoints, item - 1)
      BY <2>1, <2>2 DEF DocInv
    <3>2. Len(endpoints) \in Nat BY <3>1 DEF Expand
    <3>3. item - 1 = Len(endpoints) BY <2>1, <3>1, <3>2
    <3> QED BY <3>1, <3>3
  <2>3. /\ Count(operations, Document!Operations(Document!OperationKeys))' <=>
              Count(operations, Document!Operations(Document!OperationKeys))
        /\ Count(surface, Document!Operations(Document!Recordable))' <=>
              Count(surface, Document!Operations(Document!Recordable))
        /\ Expand(endpoints, Document!Operations(Document!Recordable))' <=>
              Expand(endpoints, Document!Operations(Document!Recordable))
        /\ (recorded = FirstRecorded(endpoints, Len(endpoints)))' <=>
              recorded = FirstRecorded(endpoints, Len(endpoints))
    BY <2>1 DEF Count, Expand, Expansions, ExpandedAt, KeyAt, Document!Operations, FirstRecorded
  <2>4. Shape' /\ (Walkable' <=> Walkable) BY <2>1, SameDocument DEF DocInv
  <2> QED BY <2>1, <2>2, <2>3, <2>4 DEF DocInv
<1> QED BY <1>1, <1>2

\* What has been read of a document, and recorded, at every step.
THEOREM DocumentInvariant == ReadersSpec => []DocInv
<1>1. ASSUME DocInv, [ReadersNext]_<<rowVars, docVars>> PROVE DocInv'
  <2>1. Document!Next \/ UNCHANGED docVars BY <1>1 DEF ReadersNext
  <2> QED
    BY <1>1, <2>1, NextItemKeeps, SkipEntryKeeps, ReadOperationKeeps, GiveUpKeeps, WalkedKeeps,
       RecordKeeps, RestOfDocument DEF Document!Next
<1> QED BY <1>1, DocStarts, PTL DEF ReadersSpec

\* Whatever documents the targets may serve, of any number of paths and operations:
\* each operation is counted, expanded and, under an absolute server, recorded.
THEOREM DocumentsRecorded == ReadersSpec => []OperationsRecorded
<1>1. ASSUME DocInv PROVE OperationsRecorded
  <2>1. place \in {"reading", "raised"} => recorded = {} /\ surface = 0 BY <1>1 DEF DocInv
  <2>2. ASSUME place = "ended", Walkable
        PROVE  /\ operations = Cardinality(Document!Operations(Document!OperationKeys))
               /\ surface = Cardinality(Document!Operations(Document!Recordable))
               /\ {<<e.path, e.method>> : e \in recorded} =
                  IF Document!Base(doc) = "absolute"
                  THEN {<<doc.paths[o[1]].path, doc.paths[o[1]].entries[o[2]].key>> :
                           o \in Document!Operations(Document!Recordable)}
                  ELSE {}
    <3> DEFINE ops == Document!Operations(Document!Recordable)
    <3>1. /\ Count(operations, Document!Operations(Document!OperationKeys)) /\ Count(surface, ops)
          /\ Expand(endpoints, ops) /\ recorded = FirstRecorded(endpoints, Len(endpoints))
      BY <1>1, <2>2 DEF DocInv
    <3>2. recorded = IF Document!Base(doc) = "absolute" THEN Expansions(ops) ELSE {}
      BY <3>1 DEF Expand, FirstRecorded
    <3> HIDE DEF ops
    <3>3. {<<e.path, e.method>> : e \in Expansions(ops)} =
             {<<doc.paths[o[1]].path, doc.paths[o[1]].entries[o[2]].key>> : o \in ops}
      <4>1. \A o : /\ ExpandedAt(o).path = doc.paths[o[1]].path
                   /\ ExpandedAt(o).method = doc.paths[o[1]].entries[o[2]].key
        BY DEF ExpandedAt, KeyAt
      <4> QED BY <4>1 DEF Expansions
    <3>4. {<<e.path, e.method>> : e \in {}} = {} OBVIOUS
    <3>5. {<<e.path, e.method>> : e \in recorded} =
             IF Document!Base(doc) = "absolute"
             THEN {<<doc.paths[o[1]].path, doc.paths[o[1]].entries[o[2]].key>> : o \in ops}
             ELSE {}
      BY <3>2, <3>3, <3>4
    <3> QED BY <3>1, <3>5 DEF Count, ops
  <2>3. place = "ended" /\ doc.kind \in {"openapi3", "swagger2"} =>
           /\ operations = Cardinality(Document!Operations(Document!OperationKeys))
           /\ surface = Cardinality(Document!Operations(Document!Recordable))
           /\ {<<e.path, e.method>> : e \in recorded} =
              IF Document!Base(doc) = "absolute"
              THEN {<<doc.paths[o[1]].path, doc.paths[o[1]].entries[o[2]].key>> :
                       o \in Document!Operations(Document!Recordable)}
              ELSE {}
    BY <2>2, Zenon DEF Walkable
  <2>4. \A S : Document!Cardinality(S) = Cardinality(S)
    BY Zenon DEF Cardinality, Document!Cardinality
  <2> QED BY <2>1, <2>3, <2>4 DEF OperationsRecorded, Document!OperationsRecorded
<1> QED BY <1>1, DocumentInvariant, PTL

-----------------------------------------------------------------------------
(* The parameters of an operation, a fold over what it declares. *)

\* The parameters of an operation, declaration by declaration.
LEMMA ParamsFold ==
    ASSUME NEW op, NEW N, Document!Declared(op) \in Seq(N)
    PROVE  \E f : /\ f[0] = <<>>
                  /\ \A k \in 1 .. Len(Document!Declared(op)) :
                        f[k] = Document!AddNode(f[k - 1], Document!Declared(op)[k])
                  /\ Document!ParamsOf(op) = f[Len(Document!Declared(op))]
<1> DEFINE nodes == Document!Declared(op)
           n == Len(nodes)
<1>1. n \in Nat /\ DOMAIN nodes = 1 .. n OBVIOUS
<1>2. Document!ParamsOf(op) = Document!FoldLeft(Document!AddNode, <<>>, nodes) BY DEF Document!ParamsOf
<1> HIDE DEF n, nodes
<1> DEFINE AddLast(g, s) == Document!AddNode(g[s \ {Document!Max(s)}], nodes[Document!Max(s)])
           Folds(g, m) == g = [s \in SUBSET (1 .. m) |-> IF s = {} THEN <<>> ELSE AddLast(g, s)]
           G == {m \in Nat : \E g : Folds(g, m)}
<1>3. 0 \in G
  <2>1. SUBSET (1 .. 0) = {{}} OBVIOUS
  <2>2. Folds([s \in SUBSET (1 .. 0) |-> <<>>], 0) BY <2>1
  <2> QED BY <2>2
<1>4. ASSUME NEW m \in Nat, m \in G PROVE m + 1 \in G
  <2>1. PICK g : Folds(g, m) BY <1>4
  <2> DEFINE h == [s \in SUBSET (1 .. m + 1) |->
                      IF m + 1 \in s THEN Document!AddNode(g[s \ {m + 1}], nodes[m + 1]) ELSE g[s]]
  <2>2. ASSUME NEW s \in SUBSET (1 .. m + 1)
        PROVE  h[s] = IF s = {} THEN <<>> ELSE AddLast(h, s)
    <3>1. CASE m + 1 \in s
      <4>1. Document!Max(s) = m + 1
        <5>1. m + 1 \in Nat /\ s # {} /\ s \in SUBSET (1 .. m + 1) BY <3>1
        <5>2. Document!Max(s) \in s /\ \A y \in s : y <= Document!Max(s)
          <6> HIDE DEF h
          <6> QED BY ONLY <5>1, Greatest
        <5>3. Document!Max(s) \in 1 .. m + 1 /\ m + 1 <= Document!Max(s) BY <3>1, <5>2
        <5> QED BY <5>3
      <4>2. s \ {m + 1} \in SUBSET (1 .. m + 1) /\ m + 1 \notin s \ {m + 1} OBVIOUS
      <4>3. h[s \ {m + 1}] = g[s \ {m + 1}] BY <4>2
      <4> QED BY <3>1, <4>1, <4>3
    <3>2. CASE m + 1 \notin s
      <4>1. s \in SUBSET (1 .. m) BY <3>2
      <4>2. h[s] = IF s = {} THEN <<>> ELSE AddLast(g, s) BY <2>1, <3>2, <4>1
      <4>3. h[s \ {Document!Max(s)}] = g[s \ {Document!Max(s)}] BY <3>2
      <4> QED BY <4>2, <4>3
    <3> QED BY <3>1, <3>2
  <2>3. Folds(h, m + 1)
    <3> HIDE DEF AddLast
    <3> QED BY <2>2
  <2> HIDE DEF Folds, h
  <2> QED BY <2>3
<1>5. n \in G
  <2> HIDE DEF G
  <2> QED BY <1>1, <1>3, <1>4, Induction
<1> DEFINE it == CHOOSE g : Folds(g, n)
<1>6. Folds(it, n) BY <1>5
<1>7. Document!ParamsOf(op) = it[1 .. n]
  BY <1>1, <1>2 DEF Document!FoldLeft, Document!MapThenFoldSet
<1> HIDE DEF it
<1> DEFINE f == [k \in 0 .. n |-> it[1 .. k]]
<1>8. \A k \in 1 .. n : k \in Nat /\ k <= n BY <1>1
<1>9. f[0] = <<>> BY <1>1, <1>6
<1>10. ASSUME NEW k \in 1 .. n PROVE f[k] = Document!AddNode(f[k - 1], nodes[k])
  <2>1. 1 .. k \in SUBSET (1 .. n) /\ k \in 1 .. k /\ k \in Nat /\ k - 1 \in 0 .. n BY <1>1, <1>8
  <2>2. Document!Max(1 .. k) = k
    <3>1. Document!Max(1 .. k) \in 1 .. k /\ k <= Document!Max(1 .. k) BY <2>1, Greatest
    <3> QED BY <2>1, <3>1
  <2>3. (1 .. k) \ {k} = 1 .. k - 1 OBVIOUS
  <2>4. it[1 .. k] = AddLast(it, 1 .. k) BY <1>6, <2>1
  <2>5. f[k - 1] = it[1 .. k - 1] /\ f[k] = it[1 .. k] BY <2>1
  <2> HIDE DEF f
  <2> QED BY <2>1, <2>2, <2>3, <2>4, <2>5
<1>11. n \in 0 .. n BY <1>1
<1>12. f[n] = it[1 .. n] BY <1>11
<1> HIDE DEF f
<1> QED BY <1>7, <1>12, <1>9, <1>10 DEF n, nodes

\* ps has one parameter for each name and location that the first k nodes declare.
Own(nodes, k) ==
    {[name |-> nodes[p].name, in |-> nodes[p].in] :
        p \in {p \in 1 .. k : Document!Named(nodes[p]) /\ Document!Located(nodes[p])}}
Gathered(ps, nodes, k, P) ==
    /\ ps \in Seq(P)
    /\ {ps[i] : i \in 1 .. Len(ps)} = Own(nodes, k)
    /\ \A i, j \in 1 .. Len(ps) : ps[i] = ps[j] => i = j

\* One more declaration.
LEMMA GatheredMore ==
    ASSUME NEW nodes, NEW k \in Nat, NEW P, NEW ps, Gathered(ps, nodes, k, P),
           [name |-> nodes[k + 1].name, in |-> nodes[k + 1].in] \in P
    PROVE  Gathered(Document!AddNode(ps, nodes[k + 1]), nodes, k + 1, P)
<1> DEFINE node == nodes[k + 1]
           x == [name |-> node.name, in |-> node.in]
           new == Document!AddNode(ps, node)
           own == Document!Named(node) /\ Document!Located(node)
<1>1. ps \in Seq(P) /\ Len(ps) \in Nat /\ DOMAIN ps = 1 .. Len(ps) BY DEF Gathered
<1>2. Own(nodes, k + 1) = IF own THEN Own(nodes, k) \union {x} ELSE Own(nodes, k)
  <2>1. \A p : p \in 1 .. k + 1 <=> p \in 1 .. k \/ p = k + 1 OBVIOUS
  <2> QED BY <2>1 DEF Own
<1>3. Document!ToSet(ps) = Own(nodes, k) BY <1>1 DEF Document!ToSet, Gathered
<1>4. CASE ~own \/ x \in Own(nodes, k)
  <2>1. new = ps BY <1>3, <1>4 DEF Document!AddNode, Document!AddParam
  <2>2. Own(nodes, k + 1) = Own(nodes, k) BY <1>2, <1>4
  <2> QED BY <2>1, <2>2 DEF Gathered
<1>5. CASE own /\ x \notin Own(nodes, k)
  <2>1. new = Append(ps, x) BY <1>3, <1>5 DEF Document!AddNode, Document!AddParam
  <2>2. Own(nodes, k + 1) = Own(nodes, k) \union {x} BY <1>2, <1>5
  <2>3. x \in P OBVIOUS
  <2> HIDE DEF x, new
  <2>4. /\ new \in Seq(P) /\ Len(new) = Len(ps) + 1 /\ new[Len(ps) + 1] = x
        /\ \A i \in 1 .. Len(ps) : new[i] = ps[i]
    BY <1>1, <2>1, <2>3
  <2>5. \A i : i \in 1 .. Len(new) <=> i \in 1 .. Len(ps) \/ i = Len(ps) + 1 BY <1>1, <2>4
  <2>6. {new[i] : i \in 1 .. Len(new)} = Own(nodes, k) \union {x}
    <3>1. {ps[i] : i \in 1 .. Len(ps)} = Own(nodes, k) BY DEF Gathered
    <3>2. 1 .. Len(new) = 1 .. Len(ps) \union {Len(ps) + 1} BY <2>5
    <3> QED BY <2>4, <3>1, <3>2
  <2>7. \A i \in 1 .. Len(ps) : ps[i] # x
    BY <1>5 DEF Gathered
  <2>8. \A i, j \in 1 .. Len(new) : new[i] = new[j] => i = j
    BY <2>4, <2>5, <2>7 DEF Gathered
  <2>9. Gathered(new, nodes, k + 1, P) BY <2>2, <2>4, <2>6, <2>8 DEF Gathered
  <2> QED BY <2>9 DEF new
<1> QED BY <1>4, <1>5

\* All of them.
LEMMA ParamsGathered ==
    ASSUME NEW op, NEW N, Document!Declared(op) \in Seq(N)
    PROVE  LET nodes == Document!Declared(op) IN
           \E P : Gathered(Document!ParamsOf(op), nodes, Len(nodes), P)
<1> DEFINE nodes == Document!Declared(op)
           n == Len(nodes)
           P == {[name |-> nodes[p].name, in |-> nodes[p].in] : p \in 1 .. n}
<1>1. PICK f : /\ f[0] = <<>>
               /\ \A k \in 1 .. n : f[k] = Document!AddNode(f[k - 1], nodes[k])
               /\ Document!ParamsOf(op) = f[n]
  BY ParamsFold
<1>2. n \in Nat OBVIOUS
<1> HIDE DEF n, nodes
<1> DEFINE G == {k \in Nat : k <= n => Gathered(f[k], nodes, k, P)}
<1>3. 0 \in G
  <2>1. Own(nodes, 0) = {} BY DEF Own
  <2>2. <<>> \in Seq(P) /\ Len(<<>>) = 0 /\ 1 .. 0 = {} OBVIOUS
  <2> QED BY <1>1, <2>1, <2>2 DEF Gathered
<1>4. ASSUME NEW k \in Nat, k \in G PROVE k + 1 \in G
  <2>1. SUFFICES ASSUME k + 1 <= n PROVE Gathered(f[k + 1], nodes, k + 1, P) OBVIOUS
  <2>2. k <= n /\ Gathered(f[k], nodes, k, P) BY <1>2, <1>4, <2>1
  <2>3. k + 1 \in 1 .. n /\ (k + 1) - 1 = k BY <1>2, <2>1
  <2>4. f[k + 1] = Document!AddNode(f[k], nodes[k + 1]) BY <1>1, <2>3
  <2>5. [name |-> nodes[k + 1].name, in |-> nodes[k + 1].in] \in P BY <2>3
  <2> HIDE DEF P
  <2> QED BY <2>2, <2>4, <2>5, GatheredMore
<1>5. Nat \subseteq G
  <2> HIDE DEF G
  <2> QED BY <1>3, <1>4, Induction
<1> HIDE DEF P
<1>6. Gathered(f[n], nodes, n, P) BY <1>2, <1>5
<1> QED BY <1>1, <1>6 DEF n, nodes

\* What an operation declares, as its expansion has it.
DeclaredBy(op) ==
    {[name |-> n.name, in |-> n.in] :
        n \in {n \in Document!ToSet(op.params) : Document!Named(n) /\ Document!Located(n)}}
    \union {[name |-> b, in |-> "body"] : b \in Document!ToSet(op.body) \ {"number"}}

\* The declarations of an operation, one by one.
LEMMA DeclaredIs ==
    ASSUME NEW op, IsSequence(op.params), IsSequence(op.body)
    PROVE  LET nodes == Document!Declared(op) IN
           /\ \E N : nodes \in Seq(N)
           /\ Own(nodes, Len(nodes)) = DeclaredBy(op)
<1> DEFINE a == op.params
           b == op.body
           c == [i \in DOMAIN b |-> [ref |-> "none", name |-> b[i], in |-> "body"]]
           nodes == Document!Declared(op)
           A == {a[i] : i \in DOMAIN a}
           C == {c[i] : i \in DOMAIN b}
           na == Len(a)
           nb == Len(b)
<1>1. /\ a \in Seq(A) /\ na \in Nat /\ DOMAIN a = 1 .. na /\ nb \in Nat /\ DOMAIN b = 1 .. nb
  BY DEF IsSequence
<1>2. nodes = a \o c BY DEF Document!Declared
<1>3. c \in Seq(C) /\ Len(c) = nb BY <1>1
<1>4. a \in Seq(A \union C) /\ c \in Seq(A \union C)
  <2>1. A \subseteq A \union C /\ C \subseteq A \union C OBVIOUS
  <2> HIDE DEF A, C, a, c
  <2> QED BY <1>1, <1>3, <2>1, WiderSeq
<1>5. \A p \in 1 .. nb : /\ c[p].name = b[p] /\ c[p].in = "body"
                         /\ Document!Named(c[p]) <=> b[p] # "number"
                         /\ Document!Located(c[p])
  BY <1>1 DEF Document!Named, Document!Located
<1>6. Document!ToSet(a) = A /\ Document!ToSet(b) = {b[p] : p \in 1 .. nb}
  BY <1>1 DEF Document!ToSet
<1> HIDE DEF a, c, na, nb, C
<1>7. /\ nodes \in Seq(A \union C) /\ Len(nodes) = na + nb
      /\ \A p \in 1 .. na : nodes[p] = a[p]
      /\ \A p \in 1 .. nb : nodes[na + p] = c[p]
  <2>1. na = Len(a) /\ Len(c) = nb BY <1>3 DEF na
  <2> HIDE DEF A, nodes, b, nb
  <2>2. /\ a \o c \in Seq(A \union C) /\ Len(a \o c) = Len(a) + Len(c)
        /\ \A p \in 1 .. Len(a) : (a \o c)[p] = a[p]
        /\ \A p \in 1 .. Len(c) : (a \o c)[Len(a) + p] = c[p]
    BY ONLY <1>4, Joined
  <2>3. a \o c = nodes BY <1>2
  <2> HIDE DEF na
  <2>4. nodes \in Seq(A \union C) /\ Len(nodes) = na + nb BY <2>1, <2>2, <2>3
  <2>5. \A p \in 1 .. na : nodes[p] = a[p] BY <2>1, <2>2, <2>3
  <2>6. \A p \in 1 .. nb : nodes[na + p] = c[p] BY <2>1, <2>2, <2>3
  <2> QED BY <2>4, <2>5, <2>6
<1> HIDE DEF nodes, b
<1>8. ASSUME NEW x
      PROVE  x \in Own(nodes, na + nb) <=>
             \/ \E p \in 1 .. na : /\ Document!Named(a[p]) /\ Document!Located(a[p])
                                   /\ x = [name |-> a[p].name, in |-> a[p].in]
             \/ \E p \in 1 .. nb : b[p] # "number" /\ x = [name |-> b[p], in |-> "body"]
  <2>1. x \in Own(nodes, na + nb) <=>
           \E p \in 1 .. na + nb : /\ Document!Named(nodes[p]) /\ Document!Located(nodes[p])
                                   /\ x = [name |-> nodes[p].name, in |-> nodes[p].in]
    BY DEF Own
  <2>2. \A p \in 1 .. na + nb : p \in 1 .. na \/ (p - na \in 1 .. nb /\ p = na + (p - na)) BY <1>1
  <2>3. (\A p \in 1 .. na : p \in 1 .. na + nb) /\ (\A p \in 1 .. nb : na + p \in 1 .. na + nb) BY <1>1
  <2>4. ASSUME x \in Own(nodes, na + nb)
        PROVE  \/ \E p \in 1 .. na : /\ Document!Named(a[p]) /\ Document!Located(a[p])
                                     /\ x = [name |-> a[p].name, in |-> a[p].in]
               \/ \E p \in 1 .. nb : b[p] # "number" /\ x = [name |-> b[p], in |-> "body"]
    <3>1. PICK p \in 1 .. na + nb : /\ Document!Named(nodes[p]) /\ Document!Located(nodes[p])
                                    /\ x = [name |-> nodes[p].name, in |-> nodes[p].in]
      BY <2>1, <2>4
    <3>2. CASE p \in 1 .. na BY <1>7, <3>1, <3>2
    <3>3. CASE p - na \in 1 .. nb /\ p = na + (p - na)
      <4>1. nodes[p] = c[p - na] BY <1>7, <3>3
      <4> QED BY <1>5, <3>1, <3>3, <4>1
    <3> QED BY <2>2, <3>2, <3>3
  <2>5. ASSUME NEW p \in 1 .. na, Document!Named(a[p]), Document!Located(a[p]),
               x = [name |-> a[p].name, in |-> a[p].in]
        PROVE  x \in Own(nodes, na + nb)
    BY <1>7, <2>1, <2>3, <2>5
  <2>6. ASSUME NEW p \in 1 .. nb, b[p] # "number", x = [name |-> b[p], in |-> "body"]
        PROVE  x \in Own(nodes, na + nb)
    <3>1. nodes[na + p] = c[p] /\ na + p \in 1 .. na + nb BY <1>7, <2>3
    <3> QED BY <1>5, <2>1, <2>6, <3>1
  <2> QED BY <2>4, <2>5, <2>6
<1>9. ASSUME NEW x
      PROVE  x \in DeclaredBy(op) <=>
             \/ \E p \in 1 .. na : /\ Document!Named(a[p]) /\ Document!Located(a[p])
                                   /\ x = [name |-> a[p].name, in |-> a[p].in]
             \/ \E p \in 1 .. nb : b[p] # "number" /\ x = [name |-> b[p], in |-> "body"]
  BY <1>1, <1>6 DEF DeclaredBy, a, b
<1> QED BY <1>7, <1>8, <1>9 DEF nodes

\* What operations declare are sequences, and only a document that is walked is recorded.
Declares ==
    /\ \A i \in DOMAIN doc.paths : \A k \in DOMAIN doc.paths[i].entries :
          IsSequence(doc.paths[i].entries[k].params) /\ IsSequence(doc.paths[i].entries[k].body)
    /\ place = "recording" => Walkable

\* No step changes that.
LEMMA DeclaresKept ==
    /\ ReadersInit => Declares
    /\ Declares /\ [ReadersNext]_<<rowVars, docVars>> => Declares'
<1>1. ASSUME NoDocument PROVE Declares
  <2>1. DOMAIN doc.paths = {} /\ place = "ended" BY <1>1 DEF NoDocument
  <2> QED BY <2>1 DEF Declares
<1>2. ASSUME Document!Init PROVE Declares
  <2>1. doc \in Docs /\ place = "reading" BY <1>2 DEF Document!Init
  <2> QED BY <2>1, ReadersAssumption DEF Declares
<1>3. ASSUME Declares, [ReadersNext]_<<rowVars, docVars>> PROVE Declares'
  <2>1. doc' = doc /\ (place' = "recording" => place = "recording" \/ Walkable)
    BY <1>3
    DEF ReadersNext, docVars, Document!Next, Document!Unrecognised, Document!NextItem, Document!SkipEntry,
        Document!ReadOperation, Document!ReadRaises, Document!Walked, Document!Record, Document!Recorded,
        Document!AtEntry, Document!Walking, Walkable
  <2> QED BY <1>3, <2>1 DEF Declares, Walkable
<1> QED BY <1>1, <1>2, <1>3 DEF ReadersInit

\* The expansion of an operation has the parameters that it declares.
LEMMA OwnExpansion ==
    ASSUME NEW op, IsSequence(op.params), IsSequence(op.body)
    PROVE  /\ Document!IsInjective(Document!ParamsOf(op))
           /\ Document!ToSet(Document!ParamsOf(op)) = DeclaredBy(op)
<1> DEFINE nodes == Document!Declared(op)
           ps == Document!ParamsOf(op)
<1>1. PICK N : nodes \in Seq(N) BY DeclaredIs
<1>2. PICK P : Gathered(ps, nodes, Len(nodes), P) BY <1>1, ParamsGathered
<1>3. Own(nodes, Len(nodes)) = DeclaredBy(op) BY DeclaredIs
<1> HIDE DEF nodes, ps
<1>4. ps \in Seq(P) /\ DOMAIN ps = 1 .. Len(ps) BY <1>2 DEF Gathered
<1>5. Document!ToSet(ps) = DeclaredBy(op) BY <1>2, <1>3, <1>4 DEF Gathered, Document!ToSet
<1>6. Document!IsInjective(ps) BY <1>2, <1>4 DEF Gathered, Document!IsInjective
<1> QED BY <1>5, <1>6 DEF ps

\* Whatever documents the targets may serve, and whatever their operations declare:
\* an operation has each parameter that it declares, once, and no other.
THEOREM ParamsAreOwn == ReadersSpec => []OwnParams
<1>1. ASSUME DocInv, Declares PROVE OwnParams
  <2> SUFFICES ASSUME place = "recording", NEW o \in Document!Operations(Document!Recordable)
               PROVE  LET op == doc.paths[o[1]].entries[o[2]] IN
                      \E e \in Document!ToSet(endpoints) :
                         /\ e.path = doc.paths[o[1]].path /\ e.method = op.key
                         /\ Document!IsInjective(e.params)
                         /\ Document!ToSet(e.params) = DeclaredBy(op)
    BY DEF OwnParams, Document!OwnParams, DeclaredBy
  <2> DEFINE ops == Document!Operations(Document!Recordable)
             op == doc.paths[o[1]].entries[o[2]]
             e == ExpandedAt(o)
  <2>1. Expand(endpoints, ops) BY <1>1 DEF DocInv, Declares
  <2>2. e \in {endpoints[k] : k \in 1 .. Len(endpoints)} BY <2>1 DEF Expand, Expansions
  <2>3. DOMAIN endpoints = 1 .. Len(endpoints) BY <2>1 DEF Expand
  <2>4. e \in Document!ToSet(endpoints) BY <2>2, <2>3 DEF Document!ToSet
  <2>5. IsSequence(op.params) /\ IsSequence(op.body)
    <3>1. \E i \in DOMAIN doc.paths : \E k \in DOMAIN doc.paths[i].entries : o = <<i, k>>
      BY OperationsAre
    <3> QED BY <1>1, <3>1 DEF Declares
  <2>6. Document!IsInjective(Document!ParamsOf(op)) /\ Document!ToSet(Document!ParamsOf(op)) = DeclaredBy(op)
    BY <2>5, OwnExpansion
  <2>7. e.path = doc.paths[o[1]].path /\ e.method = op.key /\ e.params = Document!ParamsOf(op)
    BY DEF ExpandedAt, KeyAt
  <2> HIDE DEF e
  <2> QED BY <2>4, <2>6, <2>7
<1>2. Declares /\ [ReadersNext]_<<rowVars, docVars>> => Declares' BY DeclaresKept
<1>3. ReadersInit => Declares BY DeclaresKept
<1> QED BY <1>1, <1>2, <1>3, DocumentInvariant, PTL DEF ReadersSpec

-----------------------------------------------------------------------------
(* Scope rules: what is kept of a reference. *)

\* The spellings are URLs.
SpellingsOK == base \in Url /\ url \in Url /\ found \in Url

Steps == {"start", "scanning", "found", "resolved", "admitted", "recorded", "seed", "dropped",
          "aborted"}

\* A reference that was met has a route.
RouteOK == step \in {"start", "scanning", "aborted", "dropped"} \/ route \in Routes

\* The base URL is in scope, unless the options put the scope elsewhere.
BaseInScope == step # "start" /\ ScopeHost = NoHost /\ PathPrefix = <<>> => InScope(base)

\* The filter has been passed by the current spelling.
Admitted == step \in {"admitted", "recorded", "seed"} => InScope(url)

\* Which spellings are normal forms, and of which spelling the row was made.
Normal(u) == NormalForm(u) = u
Derived ==
    /\ step = "found" => url = found
    /\ route \in {"reported", "archived", "spec"} /\ step # "seed" => url = found
    /\ route = "references" /\ ~found.space /\ step \in {"resolved", "admitted", "recorded"}
          => Normal(url)
    /\ step \in {"recorded", "seed"} /\ route # "well_known" => row.inScope
    /\ step = "recorded" /\ route # "well_known" =>
          row = RowOf(IF route = "archived" THEN NormalForm(url) ELSE url)

ScopeInv ==
    /\ step \in Steps /\ RouteOK /\ SpellingsOK
    /\ BaseInScope /\ Admitted /\ Derived /\ ParametersStayWithRequest

-----------------------------------------------------------------------------
(* Spellings. *)

\* The URL of no reference.
LEMMA NoUrlIsUrl == NoUrl \in Url
<1>1. <<>> \in Seq(Segments) OBVIOUS
<1>2. 0 \in Ports /\ "http" \in WebSchemes BY DEF Ports, WebSchemes
<1> QED BY <1>1, <1>2 DEF NoUrl, Url

\* The normal form of a URL, field by field.
LEMMA NormalFields ==
    ASSUME NEW u \in Url
    PROVE  /\ NormalForm(u) \in Url
           /\ NormalForm(u).form = u.form /\ NormalForm(u).scheme = u.scheme
           /\ NormalForm(u).caps = "none" /\ NormalForm(u).user = FALSE
           /\ NormalForm(u).host = u.host
           /\ NormalForm(u).port = IF Default(u) THEN 0 ELSE u.port
           /\ NormalForm(u).path = IF u.path = <<>> THEN <<Empty>> ELSE u.path
           /\ NormalForm(u).query = u.query
           /\ NormalForm(u).space = (u.space /\ u.frag)
           /\ NormalForm(u).frag = FALSE
<1>1. <<Empty>> \in Seq(Segments) BY ScopeAssumption
<1>2. (IF u.path = <<>> THEN <<Empty>> ELSE u.path) \in Seq(Segments) BY <1>1 DEF Url
<1>3. (IF Default(u) THEN 0 ELSE u.port) \in Ports BY DEF Url, Ports
<1> QED BY <1>2, <1>3 DEF NormalForm, Url

\* Two URLs that agree in every field are one.
LEMMA SameFields ==
    ASSUME NEW u \in Url, NEW v \in Url,
           u.form = v.form, u.scheme = v.scheme, u.caps = v.caps, u.user = v.user,
           u.host = v.host, u.port = v.port, u.path = v.path, u.query = v.query,
           u.space = v.space, u.frag = v.frag
    PROVE  u = v
BY DEF Url

\* Without white space, the normal form of a normal form is itself.
LEMMA NormalTwice ==
    ASSUME NEW u \in Url, ~(u.space /\ u.frag)
    PROVE  Normal(NormalForm(u))
<1> DEFINE n == NormalForm(u)
<1>1. n \in Url /\ NormalForm(n) \in Url BY NormalFields
<1>2. n.port = IF Default(u) THEN 0 ELSE u.port BY NormalFields
<1>3. NormalForm(n).port = n.port
  <2>1. NormalForm(n).port = IF Default(n) THEN 0 ELSE n.port BY <1>1, NormalFields
  <2>2. n.scheme = u.scheme BY NormalFields
  <2>3. Default(n) => n.port = 0 BY <1>2, <2>2 DEF Default, DefaultPort, WebSchemes
  <2> QED BY <2>1, <2>3
<1>4. NormalForm(n).path = n.path
  <2>1. NormalForm(n).path = IF n.path = <<>> THEN <<Empty>> ELSE n.path BY <1>1, NormalFields
  <2>2. n.path = IF u.path = <<>> THEN <<Empty>> ELSE u.path BY NormalFields
  <2>3. <<Empty>> # <<>> OBVIOUS
  <2> QED BY <2>1, <2>2, <2>3
<1>5. NormalForm(n).space = n.space
  <2>1. n.space = FALSE /\ n.frag = FALSE BY NormalFields DEF Url
  <2>2. NormalForm(n).space = (n.space /\ n.frag) BY <1>1, NormalFields
  <2> QED BY <2>1, <2>2
<1>6. /\ NormalForm(n).form = n.form /\ NormalForm(n).scheme = n.scheme
      /\ NormalForm(n).caps = n.caps /\ NormalForm(n).user = n.user
      /\ NormalForm(n).host = n.host /\ NormalForm(n).query = n.query
      /\ NormalForm(n).frag = n.frag
  <2>1. n.caps = "none" /\ n.user = FALSE /\ n.frag = FALSE BY NormalFields
  <2> HIDE DEF n
  <2> QED BY <1>1, <2>1, NormalFields
<1> HIDE DEF n
<1>7. NormalForm(n) = n BY <1>1, <1>3, <1>4, <1>5, <1>6, SameFields
<1> QED BY <1>7 DEF n, Normal

\* The normal form of a URL is a spelling of the same request.
LEMMA NormalIsSameRequest ==
    ASSUME NEW u \in Url
    PROVE  SameRequest(NormalForm(u), u)
<1> DEFINE n == NormalForm(u)
<1>1. /\ n.scheme = u.scheme /\ n.host = u.host /\ n.query = u.query
      /\ n.port = IF Default(u) THEN 0 ELSE u.port
      /\ n.path = IF u.path = <<>> THEN <<Empty>> ELSE u.path
  BY NormalFields
<1> HIDE DEF n
<1>2. EffectivePort(n) = EffectivePort(u)
  BY <1>1 DEF EffectivePort, Default, DefaultPort, WebSchemes
<1>3. SameRequest(n, u) BY <1>1, <1>2 DEF SameRequest
<1> QED BY <1>3 DEF n

\* Without white space, it has the URL's pattern.
LEMMA PatternOfNormalForm ==
    ASSUME NEW u \in Url, ~u.space
    PROVE  PathPattern(NormalForm(u)) = PathPattern(u)
<1> DEFINE n == NormalForm(u)
<1>1. /\ n.path = IF u.path = <<>> THEN <<Empty>> ELSE u.path
      /\ n.space = (u.space /\ u.frag)
  BY NormalFields
<1> HIDE DEF n
<1>2. SpaceInPath(n) = FALSE /\ SpaceInPath(u) = FALSE BY <1>1 DEF SpaceInPath
<1>3. CASE u.path # <<>> BY <1>1, <1>2, <1>3 DEF PathPattern, n
<1>4. CASE u.path = <<>>
  <2>1. n.path = <<Empty>> /\ <<Empty>> # <<>> BY <1>1, <1>4
  <2>2. Empty \notin VariableSegs BY ScopeAssumption
  <2>3. [i \in DOMAIN <<Empty>> |->
           IF <<Empty>>[i] \in VariableSegs /\ ~(FALSE /\ i = Len(<<Empty>>))
           THEN IdMark ELSE <<Empty>>[i]] = <<Empty>>
    BY <2>2
  <2>4. PathPattern(n) = [segments |-> <<Empty>>, space |-> FALSE]
    BY <1>2, <2>1, <2>3 DEF PathPattern
  <2>5. PathPattern(u) = [segments |-> <<Empty>>, space |-> FALSE] BY <1>2, <1>4 DEF PathPattern
  <2> QED BY <2>4, <2>5 DEF n
<1> QED BY <1>3, <1>4

\* What is in scope is in scope in its normal form.
LEMMA ScopeOfNormalForm ==
    ASSUME NEW u \in Url, InScope(u)
    PROVE  InScope(NormalForm(u))
<1> DEFINE n == NormalForm(u)
<1>1. n \in Url /\ n.host = u.host /\ n.scheme = u.scheme /\ n.user = FALSE BY NormalFields
<1>2. n.port <= 65535
  <2>1. n.port = IF Default(u) THEN 0 ELSE u.port BY NormalFields
  <2> QED BY <2>1 DEF InScope, PortReads
<1>3. NormalForm(n).path = n.path
  <2>1. NormalForm(n).path = IF n.path = <<>> THEN <<Empty>> ELSE n.path BY <1>1, NormalFields
  <2>2. n.path = IF u.path = <<>> THEN <<Empty>> ELSE u.path BY NormalFields
  <2>3. <<Empty>> # <<>> OBVIOUS
  <2> QED BY <2>1, <2>2, <2>3
<1>4. UnderPrefix(n.path) BY DEF InScope
<1> HIDE DEF n
<1>5. InScope(n) BY <1>1, <1>2, <1>3, <1>4 DEF InScope, Splits, HasHostname, PortReads
<1> QED BY <1>5 DEF n

\* What resolving makes of a reference is a URL.
LEMMA AgainstIsUrl ==
    ASSUME NEW page \in Url, NEW ref \in Url
    PROVE  Against(page, ref) \in Url /\ Against(page, ref).space = ref.space
<1>1. CASE ref.form # "path" BY <1>1 DEF Against
<1>2. CASE ref.form = "path" BY <1>2 DEF Against, Url
<1> QED BY <1>1, <1>2

\* The path without its last slashes is a path.
LEMMA WithoutSlashesIsPath ==
    ASSUME NEW path \in Seq(Segments)
    PROVE  WithoutSlashes(path) \in Seq(Segments)
<1> DEFINE kept == {i \in DOMAIN path : \E j \in i .. Len(path) : path[j] # Empty}
<1>1. DOMAIN path = 1 .. Len(path) /\ Len(path) \in Nat OBVIOUS
<1>2. IsFiniteSet(1 .. Len(path)) /\ Cardinality(1 .. Len(path)) = Len(path)
  <2>1. 1 \in Int /\ Len(path) \in Int BY <1>1
  <2>2. IsFiniteSet(1 .. Len(path))
        /\ Cardinality(1 .. Len(path)) = IF 1 > Len(path) THEN 0 ELSE Len(path) - 1 + 1
    BY <2>1, FS_Interval
  <2> QED BY <1>1, <2>2
<1>3. kept \subseteq 1 .. Len(path) BY <1>1
<1>4. Cardinality(kept) \in 0 .. Len(path)
  <2> HIDE DEF kept
  <2>1. IsFiniteSet(kept) /\ Cardinality(kept) <= Cardinality(1 .. Len(path))
    BY <1>2, <1>3, FS_Subset
  <2>2. Cardinality(kept) \in Nat BY <2>1, FS_CardinalityType
  <2> QED BY <1>1, <1>2, <2>1, <2>2
<1>5. WithoutSlashes(path) = SubSeq(path, 1, Cardinality(kept)) BY DEF WithoutSlashes
<1> HIDE DEF kept
<1> QED BY <1>1, <1>4, <1>5

\* What is put below a URL is a URL.
LEMMA BelowIsUrl ==
    ASSUME NEW page \in Url, NEW ref \in Url
    PROVE  Below(page, ref) \in Url
<1>1. [page EXCEPT !.query = "extended"] \in Url BY DEF Url
<1>2. page.path \in Seq(Segments) /\ ref.path \in Seq(Segments) BY DEF Url
<1>3. WithoutSlashes(page.path) \o ref.path \in Seq(Segments)
  <2>1. WithoutSlashes(page.path) \in Seq(Segments) BY <1>2, WithoutSlashesIsPath
  <2> QED BY <1>2, <2>1
<1>4. [page EXCEPT !.path = WithoutSlashes(page.path) \o ref.path, !.query = ref.query] \in Url
  BY <1>3 DEF Url
<1> QED BY <1>1, <1>4, NormalFields DEF Below

-----------------------------------------------------------------------------
(* The invariant. *)

LEMMA ScopeInit == Init => ScopeInv
BY NoUrlIsUrl DEF Init, ScopeInv, Steps, RouteOK, SpellingsOK, BaseInScope, Admitted, Derived, ParametersStayWithRequest

\* The scope is fixed with the target, and no step but Validate changes it.
LEMMA SameScope ==
    ASSUME targetHost' = targetHost, NEW u
    PROVE  InScope(u)' <=> InScope(u)
BY DEF InScope

\* A seed and its row are u or its normal form, each in any combination: the row
\* that arjun's parameters go to is in scope and of u's pattern and request.
LEMMA RowsOfASeed ==
    ASSUME NEW u \in Url, InScope(u), ~u.space,
           NEW k \in {u, NormalForm(u)}, NEW v \in {u, NormalForm(u)}
    PROVE  /\ PathPattern(v) = RowOf(k).pattern /\ ParametersRow(v).pattern = RowOf(k).pattern
           /\ ParametersRow(v).inScope /\ ParametersRow(v).key = NormalForm(u)
           /\ SameRequest(NormalForm(u), RowOf(k).key) /\ RowOf(k).key = k
<1> DEFINE n == NormalForm(u)
<1>1. n \in Url /\ InScope(n) BY NormalFields, ScopeOfNormalForm
<1>2. NormalForm(n) = n BY NormalTwice DEF Normal
<1>3. PathPattern(n) = PathPattern(u) BY PatternOfNormalForm
<1>4. SameRequest(n, u) /\ SameRequest(n, n) BY <1>1, <1>2, NormalIsSameRequest
<1>5. NormalForm(v) = n /\ NormalForm(k) = n BY <1>2
<1>6. v \in {u, n} /\ k \in {u, n} OBVIOUS
<1> HIDE DEF n
<1>7. RowOf(k).key = k /\ RowOf(k).pattern = PathPattern(n) BY <1>5 DEF RowOf
<1>8. ParametersRow(v) = [key |-> n, pattern |-> PathPattern(n), inScope |-> InScope(n)]
  BY <1>2, <1>5 DEF ParametersRow, RowOf
<1>9. ParametersRow(v).inScope /\ ParametersRow(v).key = n
      /\ ParametersRow(v).pattern = PathPattern(n)
  BY <1>1, <1>8
<1>10. PathPattern(v) = PathPattern(n) BY <1>3, <1>6
<1>11. SameRequest(n, k) BY <1>4, <1>6
<1> QED BY <1>7, <1>9, <1>10, <1>11 DEF n

\* The steps keep the invariant, one by one: the target is accepted.
LEMMA ValidateKeeps ==
    ASSUME ScopeInv, NEW u \in Targets, Validate(u)
    PROVE  ScopeInv'
<1>1. u \in Url BY ScopeAssumption
<1>2. /\ step = "start" /\ step' = "scanning" /\ base' = NormalForm(u) /\ ValidTarget(u)
      /\ targetHost' = IF ScopeHost = NoHost THEN u.host ELSE ScopeHost
      /\ UNCHANGED <<route, found, url, row>>
  BY DEF Validate
<1>3. base' \in Url BY <1>1, <1>2, NormalFields
<1>4. ASSUME ScopeHost = NoHost, PathPrefix = <<>> PROVE InScope(base)'
  <2>1. /\ base'.host = u.host /\ base'.user = FALSE /\ base'.scheme = u.scheme
        /\ base'.port = IF Default(u) THEN 0 ELSE u.port
    BY <1>1, <1>2, NormalFields
  <2>2. Splits(base') /\ HasHostname(base') /\ PortReads(base')
    BY <1>2, <2>1 DEF ValidTarget, Splits, HasHostname, PortReads
  <2>3. UnderPrefix(NormalForm(base').path) BY <1>4 DEF UnderPrefix
  <2>4. base'.host = targetHost' BY <1>2, <1>4, <2>1
  <2> QED BY <2>2, <2>3, <2>4 DEF InScope
<1> QED
  BY <1>2, <1>3, <1>4 DEF ScopeInv, Steps, RouteOK, SpellingsOK, BaseInScope, Admitted, Derived, ParametersStayWithRequest

\* A reference is found.
LEMMA FindKeeps ==
    ASSUME ScopeInv, NEW ref \in References, NEW r \in Routes, Find(ref, r)
    PROVE  ScopeInv'
<1>1. ref \in Url BY ScopeAssumption
<1>2. /\ step = "scanning" /\ step' = "found" /\ route' = r /\ found' = ref /\ url' = ref
      /\ UNCHANGED <<base, targetHost, row>>
  BY DEF Find
<1>3. BaseInScope' BY <1>2, SameScope DEF ScopeInv, BaseInScope
<1> QED
  BY <1>1, <1>2, <1>3 DEF ScopeInv, Steps, RouteOK, SpellingsOK, Admitted, Derived, ParametersStayWithRequest

\* It is resolved, against an asset or the base URL, or dropped.
LEMMA ResolveKeeps ==
    ASSUME ScopeInv, Resolve
    PROVE  ScopeInv'
<1>1. step = "found" /\ UNCHANGED <<base, targetHost, route, found, row>> /\ url = found
  BY DEF Resolve, ScopeInv, Derived
<1>2. BaseInScope'
  <2>1. step' # "start" => step # "start" BY <1>1
  <2> QED BY <1>1, <2>1, SameScope DEF ScopeInv, BaseInScope
<1>3. base \in Url /\ url \in Url /\ found \in Url BY DEF ScopeInv, SpellingsOK
<1>4. \/ step' = "dropped" /\ url' = url
      \/ /\ step' = "resolved" /\ url' \in Url
         /\ route = "references" /\ ~found.space => Normal(url')
         /\ route \in {"reported", "archived", "spec"} => url' = found
  <2>1. CASE route = "references"
    <3>1. PICK page \in {a \in Assets : InScope(a)} :
             IF Followed(url) /\ PortReads(Against(page, url))
             THEN url' = NormalForm(Against(page, url)) /\ step' = "resolved"
             ELSE url' = url /\ step' = "dropped"
      BY <2>1 DEF Resolve
    <3>2. page \in Url BY ScopeAssumption
    <3>3. Against(page, url) \in Url /\ Against(page, url).space = found.space
      BY <1>1, <1>3, <3>2, AgainstIsUrl
    <3>4. ~found.space => Normal(NormalForm(Against(page, url))) BY <3>3, NormalTwice
    <3>5. NormalForm(Against(page, url)) \in Url BY <3>3, NormalFields
    <3> QED BY <2>1, <3>1, <3>4, <3>5
  <2>2. CASE route = "well_known"
    <3>1. url' = Below(base, url) /\ step' = "resolved" BY <2>2 DEF Resolve
    <3> QED BY <1>3, <2>2, <3>1, BelowIsUrl
  <2>3. CASE route \in {"reported", "archived", "spec"}
    <3>1. url' = url /\ step' = "resolved" BY <2>3 DEF Resolve
    <3> QED BY <1>1, <1>3, <2>3, <3>1
  <2> QED BY <2>1, <2>2, <2>3 DEF Resolve
<1>5. SpellingsOK' /\ step' \in {"dropped", "resolved"}
  BY <1>1, <1>3, <1>4 DEF SpellingsOK
<1>6. Derived' BY <1>1, <1>4, <1>5 DEF Derived
<1>7. RouteOK' BY <1>1 DEF ScopeInv, RouteOK
<1>8. ParametersStayWithRequest' BY <1>5 DEF ParametersStayWithRequest
<1> QED BY <1>2, <1>5, <1>6, <1>7, <1>8 DEF ScopeInv, Steps, Admitted

\* The filter takes it or drops it, or the scan ends.
LEMMA FilterKeeps ==
    ASSUME ScopeInv, Filter \/ Abort
    PROVE  ScopeInv'
<1>1. /\ step \in {"found", "resolved"} /\ UNCHANGED <<base, targetHost, route, found, url, row>>
      /\ \/ step' = "aborted"
         \/ step = "resolved" /\ step' = IF InScope(url) THEN "admitted" ELSE "dropped"
  BY DEF Filter, Abort
<1>2. BaseInScope' /\ Admitted' BY <1>1, SameScope DEF ScopeInv, BaseInScope, Admitted
<1>3. SpellingsOK' /\ step' \in {"aborted", "admitted", "dropped"}
  BY <1>1 DEF ScopeInv, SpellingsOK
<1>4. Derived' BY <1>1, <1>3 DEF ScopeInv, Derived
<1>5. RouteOK' BY <1>1 DEF ScopeInv, RouteOK
<1>6. ParametersStayWithRequest' BY <1>3 DEF ParametersStayWithRequest
<1> QED BY <1>2, <1>3, <1>4, <1>5, <1>6 DEF ScopeInv, Steps

\* It is recorded, in its own spelling or in normal form.
LEMMA RecordRowKeeps ==
    ASSUME ScopeInv, RecordRow
    PROVE  ScopeInv'
<1>1. /\ step = "admitted" /\ step' = "recorded" /\ UNCHANGED <<base, targetHost, route, found, url>>
      /\ row' = IF route = "well_known" THEN NoRow
                ELSE RowOf(IF route = "archived" THEN NormalForm(url) ELSE url)
  BY DEF RecordRow
<1>2. BaseInScope' /\ Admitted' BY <1>1, SameScope DEF ScopeInv, BaseInScope, Admitted
<1>3. url \in Url /\ InScope(url) BY <1>1 DEF ScopeInv, SpellingsOK, Admitted
<1>4. NormalForm(url) \in Url BY <1>3, NormalFields
<1>5. InScope(NormalForm(url)) BY <1>3, ScopeOfNormalForm
<1>6. InScope(NormalForm(NormalForm(url))) BY <1>4, <1>5, ScopeOfNormalForm
<1>7. route # "well_known" => row'.inScope BY <1>1, <1>5, <1>6 DEF RowOf
<1>8. route # "well_known" => row' = RowOf(IF route = "archived" THEN NormalForm(url) ELSE url)
  BY <1>1
<1>9. Derived'
  <2>1. ASSUME route # "well_known"
        PROVE  row' = RowOf(IF route = "archived" THEN NormalForm(url) ELSE url)'
    <3> DEFINE k == IF route = "archived" THEN NormalForm(url) ELSE url
    <3>1. k' = k BY <1>1
    <3>2. row' = RowOf(k) BY <1>8, <2>1
    <3>3. RowOf(k)' = RowOf(k) BY <1>1, <3>1 DEF RowOf, InScope
    <3> QED BY <3>2, <3>3
  <2> QED BY <1>1, <1>7, <2>1 DEF ScopeInv, Derived
<1>10. RouteOK' BY <1>1 DEF ScopeInv, RouteOK
<1>11. ParametersStayWithRequest' BY <1>1 DEF ParametersStayWithRequest
<1>12. SpellingsOK' BY <1>1 DEF ScopeInv, SpellingsOK
<1> QED BY <1>1, <1>2, <1>9, <1>10, <1>11, <1>12 DEF ScopeInv, Steps

\* It is handed on.
LEMMA SeedKeeps ==
    ASSUME ScopeInv, Seed
    PROVE  ScopeInv'
<1>1. /\ step = "recorded" /\ step' = "seed" /\ UNCHANGED <<base, targetHost, route, found, row>>
      /\ url' = IF route \in {"reported", "archived"} THEN NormalForm(url) ELSE url
  BY DEF Seed
<1>2. BaseInScope' BY <1>1, SameScope DEF ScopeInv, BaseInScope
<1>3. url \in Url /\ InScope(url) BY <1>1 DEF ScopeInv, SpellingsOK, Admitted
<1>4. url' \in Url /\ InScope(url') BY <1>1, <1>3, NormalFields, ScopeOfNormalForm
<1>5. Admitted' BY <1>1, <1>4 DEF InScope, Admitted
<1>6. Derived' BY <1>1 DEF ScopeInv, Derived
<1>7. ASSUME route # "well_known", ~found.space
      PROVE  LET asked == ParametersRow(url') IN
             /\ PathPattern(url') = row.pattern /\ asked.pattern = row.pattern /\ asked.inScope
             /\ SameRequest(asked.key, row.key)
             /\ route \in {"references", "archived"} => asked.key = row.key
  <2> DEFINE n == NormalForm(url)
             k == IF route = "archived" THEN n ELSE url
  <2>1. row = RowOf(k) BY <1>1, <1>7 DEF ScopeInv, Derived
  <2>2. ~url.space /\ (route = "references" => n = url)
    <3>1. CASE route = "references"
      <4>1. n = url BY <1>1, <1>7, <3>1 DEF ScopeInv, Derived, Normal
      <4>2. n.space = (url.space /\ url.frag) /\ n.frag = FALSE BY <1>3, NormalFields
      <4> QED BY <4>1, <4>2
    <3>2. CASE route # "references"
      <4>1. route \in Routes BY <1>1 DEF ScopeInv, RouteOK
      <4>2. url = found BY <1>1, <1>7, <3>2, <4>1 DEF ScopeInv, Derived, Routes
      <4> QED BY <1>7, <3>2, <4>2
    <3> QED BY <3>1, <3>2
  <2>3. k \in {url, n} /\ url' \in {url, n} BY <1>1
  <2>4. /\ PathPattern(url') = RowOf(k).pattern /\ ParametersRow(url').pattern = RowOf(k).pattern
        /\ ParametersRow(url').inScope /\ ParametersRow(url').key = n
        /\ SameRequest(n, RowOf(k).key) /\ RowOf(k).key = k
    BY <1>3, <2>2, <2>3, RowsOfASeed
  <2>5. route \in {"references", "archived"} => k = n BY <2>2
  <2> HIDE DEF n, k
  <2> QED BY <2>1, <2>4, <2>5
<1>8. ParametersStayWithRequest'
  <2>1. ParametersRow(url)' = ParametersRow(url') BY <1>1 DEF ParametersRow, RowOf, InScope
  <2> QED BY <1>1, <1>7, <2>1 DEF ParametersStayWithRequest
<1>9. RouteOK' BY <1>1 DEF ScopeInv, RouteOK
<1>10. SpellingsOK' BY <1>1, <1>4 DEF ScopeInv, SpellingsOK
<1> QED BY <1>1, <1>2, <1>5, <1>6, <1>8, <1>9, <1>10 DEF ScopeInv, Steps

\* The next one.
LEMMA NextKeeps ==
    ASSUME ScopeInv, NextReference \/ UNCHANGED vars
    PROVE  ScopeInv'
<1>1. CASE NextReference
  <2>1. /\ step \in {"seed", "dropped"} /\ step' = "scanning" /\ UNCHANGED <<base, targetHost>>
        /\ route' = "none" /\ found' = NoUrl /\ url' = NoUrl
    BY <1>1 DEF NextReference
  <2>2. BaseInScope' BY <2>1, SameScope DEF ScopeInv, BaseInScope
  <2> QED
    BY <2>1, <2>2, NoUrlIsUrl DEF ScopeInv, Steps, RouteOK, SpellingsOK, Admitted, Derived, ParametersStayWithRequest
<1>2. CASE UNCHANGED vars
  BY <1>2 DEF vars, ScopeInv, RouteOK, SpellingsOK, BaseInScope, Admitted, Derived,
     ParametersStayWithRequest, ParametersRow, InScope, RowOf
<1> QED BY <1>1, <1>2

\* The spelling of a reference and its relation to the row, at every step.
THEOREM ScopeInvariant == Spec => []ScopeInv
<1>1. ScopeInv /\ [Next]_vars => ScopeInv'
  BY ValidateKeeps, FindKeeps, ResolveKeeps, FilterKeeps, RecordRowKeeps, SeedKeeps, NextKeeps DEF Next
<1> QED BY <1>1, ScopeInit, PTL DEF Spec

-----------------------------------------------------------------------------
\* Whatever is targeted and reported, what passed the filter in one spelling is
\* in scope as the key of its row and as the seed.
THEOREM VerdictsAgree == Spec => []VerdictSurvives
<1>1. ScopeInv => VerdictSurvives
  BY DEF ScopeInv, BaseInScope, Admitted, Derived, VerdictSurvives
<1> QED BY <1>1, ScopeInvariant, PTL

\* Under one scheme, two ports have one normal form iff they are effectively one.
LEMMA PortsAgree ==
    ASSUME NEW u \in Url, NEW v \in Url, u.scheme = v.scheme, u.scheme \in WebSchemes
    PROVE  NormalForm(u).port = NormalForm(v).port <=> EffectivePort(u) = EffectivePort(v)
<1>1. /\ NormalForm(u).port = IF Default(u) THEN 0 ELSE u.port
      /\ NormalForm(v).port = IF Default(v) THEN 0 ELSE v.port
  BY NormalFields
<1>2. DefaultPort[u.scheme] # 0 BY DEF DefaultPort, WebSchemes
<1> QED BY <1>1, <1>2 DEF Default, EffectivePort

\* Another spelling has the form, host and query of the URL, and one of three paths.
LEMMA SpellingFields ==
    ASSUME NEW u \in Url, NEW s \in WebSchemes, NEW c \in {"none", "scheme", "host"},
           NEW p \in Ports, NEW q \in Seq(Segments), NEW f \in BOOLEAN, NEW v,
           v = Spelling(u, s, c, p, q, f)
    PROVE  /\ v \in Url /\ v.form = u.form /\ v.host = u.host /\ v.query = u.query
           /\ v.space = u.space /\ v.path = q /\ v.scheme = s
<1>1. v = [u EXCEPT !.scheme = s, !.caps = c, !.port = p, !.path = q, !.frag = f] BY DEF Spelling
<1>2. v.form = u.form /\ v.host = u.host /\ v.query = u.query BY <1>1 DEF Url
<1>3. v.space = u.space BY <1>1 DEF Url
<1>4. v.path = q /\ v.scheme = s BY <1>1 DEF Url
<1>5. v \in Url
  <2> DEFINE w == [u EXCEPT !.scheme = s]
             x == [w EXCEPT !.caps = c]
             y == [x EXCEPT !.port = p]
             z == [y EXCEPT !.path = q]
  <2>1. w \in Url BY DEF Url
  <2>2. v = [z EXCEPT !.frag = f] BY <1>1
  <2> HIDE DEF w
  <2>3. x \in Url BY <2>1 DEF Url
  <2> HIDE DEF x
  <2>4. y \in Url BY <2>3 DEF Url
  <2> HIDE DEF y
  <2>5. z \in Url BY <2>4 DEF Url
  <2> HIDE DEF z
  <2> QED BY <2>2, <2>5 DEF Url
<1> QED BY <1>2, <1>3, <1>4, <1>5

\* The paths of a spelling are paths.
LEMMA EmptyPaths ==
    ASSUME NEW u \in Url, NEW q, q = u.path \/ q = <<>> \/ q = <<Empty>>
    PROVE  q \in Seq(Segments)
<1>1. u.path \in Seq(Segments) BY DEF Url
<1>2. <<Empty>> \in Seq(Segments) /\ <<>> \in Seq(Segments) BY ScopeAssumption
<1> QED BY <1>1, <1>2

\* So has every member of Respelled.
LEMMA RespelledFields ==
    ASSUME NEW u \in Url, NEW v \in Respelled(u)
    PROVE  /\ v \in Url /\ v.form = u.form /\ v.host = u.host /\ v.query = u.query
           /\ v.space = u.space /\ v.path \in {u.path, <<>>, <<Empty>>} /\ v.scheme \in WebSchemes
<1>1. PICK s \in WebSchemes, c \in {"none", "scheme", "host"}, p \in Ports \ {99999},
           q \in {u.path, <<>>, <<Empty>>}, f \in BOOLEAN :
         v = Spelling(u, s, c, p, q, f)
  BY DEF Respelled
<1>2. q = u.path \/ q = <<>> \/ q = <<Empty>> BY <1>1
<1>3. q \in Seq(Segments) BY <1>2, EmptyPaths
<1>4. p \in Ports BY <1>1
<1>5. /\ v \in Url /\ v.form = u.form /\ v.host = u.host /\ v.query = u.query
      /\ v.space = u.space /\ v.path = q /\ v.scheme = s
  BY <1>1, <1>3, <1>4, SpellingFields
<1> QED BY <1>1, <1>2, <1>5

\* For every URL in scope, the spellings of one request have one normal form, and
\* those of two requests have two.
THEOREM KeysAreRequests == Spec => []KeyIsRequest
<1>1. ASSUME ScopeInv PROVE KeyIsRequest
  <2>1. SUFFICES ASSUME step = "admitted", ~url.space, NEW v \in Respelled(url)
                 PROVE  (NormalForm(v) = NormalForm(url)) <=> SameRequest(v, url)
    BY DEF KeyIsRequest
  <2>2. url \in Url /\ InScope(url) BY <1>1, <2>1 DEF ScopeInv, SpellingsOK, Admitted
  <2>5. /\ v \in Url /\ v.form = url.form /\ v.host = url.host /\ v.query = url.query
        /\ v.space = FALSE /\ url.space = FALSE
        /\ v.path \in {url.path, <<>>, <<Empty>>} /\ v.scheme \in WebSchemes
    <3>1. v.space = url.space BY <2>1, <2>2, RespelledFields
    <3>2. url.space = FALSE BY <2>1, <2>2 DEF Url
    <3> QED BY <2>1, <2>2, <3>1, <3>2, RespelledFields
  <2>6. url.scheme \in WebSchemes BY <2>2 DEF InScope, HasHostname
  <2> DEFINE n == NormalForm(url)
             m == NormalForm(v)
  <2>7. /\ n \in Url /\ m \in Url /\ m.form = n.form /\ m.caps = n.caps /\ m.user = n.user
        /\ m.host = n.host /\ m.query = n.query /\ m.frag = n.frag
        /\ m.scheme = v.scheme /\ n.scheme = url.scheme
        /\ m.space = FALSE /\ n.space = FALSE
    BY <2>2, <2>5, NormalFields
  <2>8. m.path = n.path <=> (v.path = url.path \/ {v.path, url.path} = {<<>>, <<Empty>>})
    <3>1. /\ m.path = IF v.path = <<>> THEN <<Empty>> ELSE v.path
          /\ n.path = IF url.path = <<>> THEN <<Empty>> ELSE url.path
      BY <2>2, <2>5, NormalFields
    <3> QED BY <3>1
  <2>9. v.scheme = url.scheme => (m.port = n.port <=> EffectivePort(v) = EffectivePort(url))
    BY <2>2, <2>5, <2>6, PortsAgree
  <2> HIDE DEF n, m
  <2>10. m = n <=> m.scheme = n.scheme /\ m.port = n.port /\ m.path = n.path
    BY <2>7, SameFields
  <2>11. m = n <=> SameRequest(v, url)
    BY <2>5, <2>7, <2>8, <2>9, <2>10 DEF SameRequest
  <2> QED BY <2>11 DEF n, m
<1> QED BY <1>1, ScopeInvariant, PTL

\* Whatever is reported and referred to, what arjun finds for a seed without white
\* space is kept under the pattern the ledger counted, with a row of the request.
THEOREM ParametersStay == Spec => []ParametersStayWithRequest
<1>1. ScopeInv => ParametersStayWithRequest BY DEF ScopeInv
<1> QED BY <1>1, ScopeInvariant, PTL
================================================================================
