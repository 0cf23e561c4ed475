--------------------------- MODULE ScanStoreProofs ---------------------------
(***************************************************************************)
(* The inventory for any number of endpoints, tools and reports.           *)
(*                                                                         *)
(* NothingTwice and RowsTellAll hold each other up.  A merge changes one   *)
(* row, which is right only because no other row has its key; and a row is *)
(* inserted with what its one report says, which is all there is to tell   *)
(* only because every earlier report of the key would have left a row.     *)
(* SignatureOfStatus needs that a signature is never mistaken for a NULL.  *)
(***************************************************************************)
EXTENDS ScanStore, TLAPS

Values == Statuses \union Lengths \union {Unknown} \union (Statuses \X (Lengths \union {Unknown}))
Rows == [key : Keys, sources : Seq(Sources), facts : [Columns -> Values], secrets : Seq(Digests)]

StoreTypes ==
    /\ scan \in {"absent", "open", "finished"}
    /\ endpoints \in Seq(Rows)
    /\ reported \in Seq(Reports)
    /\ parameters \subseteq [endpoint : Nat, param : Params, source : Sources]
    /\ count \in Nat

StoreInv == StoreTypes /\ NothingTwice /\ RowsTellAll /\ SignatureOfStatus

-----------------------------------------------------------------------------
\* What Append makes of a sequence.
LEMMA Appended ==
    ASSUME NEW S, NEW s \in Seq(S), NEW e \in S
    PROVE  /\ Append(s, e) \in Seq(S) /\ Len(Append(s, e)) = Len(s) + 1 /\ Len(s) \in Nat
           /\ \A i \in 1 .. Len(s) : Append(s, e)[i] = s[i]
           /\ Append(s, e)[Len(s) + 1] = e
           /\ DOMAIN Append(s, e) = 1 .. Len(s) + 1 /\ DOMAIN s = 1 .. Len(s)
OBVIOUS

\* Its elements are those of the sequence and the new one.
LEMMA AppendedSet ==
    ASSUME NEW S, NEW s \in Seq(S), NEW e \in S
    PROVE  ToSet(Append(s, e)) = ToSet(s) \union {e}
<1>1. \A i \in DOMAIN s : i \in DOMAIN Append(s, e) /\ Append(s, e)[i] = s[i] BY Appended
<1>2. \A i \in DOMAIN Append(s, e) : i \in DOMAIN s \/ i = Len(s) + 1 BY Appended
<1>3. Len(s) + 1 \in DOMAIN Append(s, e) /\ Append(s, e)[Len(s) + 1] = e BY Appended
<1> QED BY <1>1, <1>2, <1>3 DEF ToSet

\* A list in which nothing occurs twice stays one when something new is appended.
LEMMA AppendedInjective ==
    ASSUME NEW S, NEW s \in Seq(S), NEW e \in S, IsInjective(s), ~Contains(s, e)
    PROVE  IsInjective(Append(s, e))
<1>1. \A i \in DOMAIN s : i \in DOMAIN Append(s, e) /\ Append(s, e)[i] = s[i] /\ s[i] # e
      BY Appended DEF Contains
<1>2. \A i \in DOMAIN Append(s, e) : i \in DOMAIN s \/ i = Len(s) + 1 BY Appended
<1>3. Append(s, e)[Len(s) + 1] = e BY Appended
<1> QED BY <1>1, <1>2, <1>3 DEF IsInjective

\* The columns of a report, one by one.
LEMMA FactsOfReport ==
    ASSUME NEW r \in Reports
    PROVE  /\ Facts(r)["status"] = r.status /\ Facts(r)["length"] = r.length
           /\ Facts(r)["sig"] = Signature(r)
           /\ Facts(r) \in [Columns -> Values]
<1>1. r.status \in Values /\ r.length \in Values /\ Signature(r) \in Values
      BY DEF Reports, Values, Signature
<1> QED BY <1>1 DEF Facts, Columns

\* A report knows a signature exactly if it knows a status, and it is of that status.
LEMMA SignatureKnown ==
    ASSUME NEW r \in Reports
    PROVE  IF r.status = Unknown THEN Signature(r) = Unknown
           ELSE Signature(r) # Unknown /\ Signature(r)[1] = r.status
BY StoreAssumption DEF Reports, Signature

LEMMA FillFacts ==
    ASSUME NEW old \in [Columns -> Values], NEW new \in [Columns -> Values]
    PROVE  /\ Fill(old, new) \in [Columns -> Values]
           /\ \A c \in Columns : Fill(old, new)[c] = IF new[c] = Unknown THEN old[c] ELSE new[c]
BY DEF Fill, Coalesce

\* A merge keeps the key and the secrets, adds the source and fills the columns.
LEMMA MergedFacts ==
    ASSUME NEW row \in Rows, NEW r \in Reports, IsInjective(row.sources)
    PROVE  /\ Merged(row, r) \in Rows
           /\ Merged(row, r).key = row.key /\ Merged(row, r).secrets = row.secrets
           /\ Merged(row, r).facts = Fill(row.facts, Facts(r))
           /\ IsInjective(Merged(row, r).sources)
           /\ ToSet(Merged(row, r).sources) = ToSet(row.sources) \union {r.source}
<1>1. /\ row.sources \in Seq(Sources) /\ r.source \in Sources /\ row.facts \in [Columns -> Values]
      BY DEF Rows, Reports
<1> DEFINE sources == IF Contains(row.sources, r.source) THEN row.sources
                      ELSE Append(row.sources, r.source)
<1>2. sources \in Seq(Sources) /\ IsInjective(sources) BY <1>1, Appended, AppendedInjective
<1>3. ToSet(sources) = ToSet(row.sources) \union {r.source}
  <2>1. CASE Contains(row.sources, r.source)
    <3>1. r.source \in ToSet(row.sources) BY <1>1, <2>1 DEF Contains, ToSet
    <3> QED BY <2>1, <3>1
  <2>2. CASE ~Contains(row.sources, r.source) BY <1>1, <2>2, AppendedSet
  <2> QED BY <2>1, <2>2
<1>4. Fill(row.facts, Facts(r)) \in [Columns -> Values] BY <1>1, FactsOfReport, FillFacts
<1>5. Merged(row, r) = [row EXCEPT !.sources = sources, !.facts = Fill(row.facts, Facts(r))]
      BY DEF Merged
<1> HIDE DEF sources
<1> QED BY <1>2, <1>3, <1>4, <1>5 DEF Rows

-----------------------------------------------------------------------------
\* What one more report adds to what is known of an endpoint.
LEMMA KnowingAppended ==
    ASSUME NEW rs \in Seq(Reports), NEW r \in Reports, NEW key, NEW c \in Columns
    PROVE  /\ Knowing(Append(rs, r), key, c) =
              IF r.key = key /\ Facts(r)[c] # Unknown
              THEN Knowing(rs, key, c) \union {Len(rs) + 1} ELSE Knowing(rs, key, c)
           /\ \A n \in Knowing(rs, key, c) : n \in 1 .. Len(rs) /\ Append(rs, r)[n] = rs[n]
           /\ Append(rs, r)[Len(rs) + 1] = r /\ Len(rs) \in Nat
<1>1. \A n \in DOMAIN rs : n \in DOMAIN Append(rs, r) /\ Append(rs, r)[n] = rs[n] BY Appended
<1>2. \A n \in DOMAIN Append(rs, r) : n \in DOMAIN rs \/ n = Len(rs) + 1 BY Appended
<1>3. /\ Len(rs) + 1 \in DOMAIN Append(rs, r) /\ Append(rs, r)[Len(rs) + 1] = r
      /\ DOMAIN rs = 1 .. Len(rs) /\ Len(rs) \in Nat
      BY Appended
<1> QED BY <1>1, <1>2, <1>3 DEF Knowing

\* A report says nothing of the rows of other endpoints.
LEMMA OthersTell ==
    ASSUME NEW rs \in Seq(Reports), NEW r \in Reports, NEW row \in Rows,
           row.key # r.key, Tells(row, rs)
    PROVE  Tells(row, Append(rs, r))
<1>1. {q \in ToSet(Append(rs, r)) : q.key = row.key} = {q \in ToSet(rs) : q.key = row.key}
      BY AppendedSet
<1>2. SUFFICES ASSUME NEW c \in Columns
               PROVE  LET known == Knowing(Append(rs, r), row.key, c) IN
                      \/ known = {} /\ row.facts[c] = Unknown
                      \/ \E n \in known : /\ \A m \in known : m <= n
                                          /\ row.facts[c] = Facts(Append(rs, r)[n])[c]
      BY <1>1 DEF Tells
<1>3. Knowing(Append(rs, r), row.key, c) = Knowing(rs, row.key, c) BY KnowingAppended
<1>4. \A n \in Knowing(rs, row.key, c) : Append(rs, r)[n] = rs[n] BY KnowingAppended
<1> QED BY <1>3, <1>4 DEF Tells

\* The row that the report is merged into tells what it said.
LEMMA MergedTells ==
    ASSUME NEW rs \in Seq(Reports), NEW r \in Reports, NEW row \in Rows,
           row.key = r.key, IsInjective(row.sources), Tells(row, rs)
    PROVE  Tells(Merged(row, r), Append(rs, r))
<1> DEFINE new == Merged(row, r)
<1>1. /\ new.key = row.key /\ new.facts = Fill(row.facts, Facts(r))
      /\ ToSet(new.sources) = ToSet(row.sources) \union {r.source}
      BY MergedFacts
<1>2. \A c \in Columns : new.facts[c] = IF Facts(r)[c] = Unknown THEN row.facts[c] ELSE Facts(r)[c]
      BY <1>1, FactsOfReport, FillFacts DEF Rows
<1> HIDE DEF new
<1>3. {q \in ToSet(Append(rs, r)) : q.key = row.key} = {q \in ToSet(rs) : q.key = row.key} \union {r}
      BY AppendedSet
<1>4. ToSet(new.sources) = {q.source : q \in {q \in ToSet(Append(rs, r)) : q.key = new.key}}
  <2>1. ToSet(row.sources) = {q.source : q \in {q \in ToSet(rs) : q.key = row.key}} BY DEF Tells
  <2> QED BY <1>1, <1>3, <2>1
<1>5. ASSUME NEW c \in Columns
      PROVE  LET known == Knowing(Append(rs, r), new.key, c) IN
             \/ known = {} /\ new.facts[c] = Unknown
             \/ \E n \in known : /\ \A m \in known : m <= n
                                 /\ new.facts[c] = Facts(Append(rs, r)[n])[c]
  <2>1. \/ Knowing(rs, row.key, c) = {} /\ row.facts[c] = Unknown
        \/ \E n \in Knowing(rs, row.key, c) : /\ \A m \in Knowing(rs, row.key, c) : m <= n
                                              /\ row.facts[c] = Facts(rs[n])[c]
        BY DEF Tells
  <2>2. \A n \in Knowing(rs, row.key, c) : n \in 1 .. Len(rs) /\ Append(rs, r)[n] = rs[n]
        BY KnowingAppended
  <2>3. CASE Facts(r)[c] = Unknown
    <3>1. Knowing(Append(rs, r), new.key, c) = Knowing(rs, row.key, c)
          BY <1>1, <2>3, KnowingAppended
    <3>2. new.facts[c] = row.facts[c] BY <1>2, <2>3
    <3> QED BY <2>1, <2>2, <3>1, <3>2
  <2>4. CASE Facts(r)[c] # Unknown
    <3>1. Knowing(Append(rs, r), new.key, c) = Knowing(rs, row.key, c) \union {Len(rs) + 1}
          BY <1>1, <2>4, KnowingAppended
    <3>2. Append(rs, r)[Len(rs) + 1] = r /\ Len(rs) \in Nat BY KnowingAppended
    <3>3. \A m \in Knowing(Append(rs, r), new.key, c) : m <= Len(rs) + 1 BY <2>2, <3>1, <3>2
    <3>4. new.facts[c] = Facts(Append(rs, r)[Len(rs) + 1])[c] BY <1>2, <2>4, <3>2
    <3>5. Len(rs) + 1 \in Knowing(Append(rs, r), new.key, c) BY <3>1
    <3> QED BY <3>3, <3>4, <3>5
  <2> QED BY <2>3, <2>4
<1> QED BY <1>4, <1>5 DEF Tells, new

\* A new row tells the one report of its endpoint.
LEMMA NewRowFacts ==
    ASSUME NEW r \in Reports
    PROVE  /\ NewRow(r) \in Rows
           /\ NewRow(r).key = r.key /\ NewRow(r).facts = Facts(r)
           /\ IsInjective(NewRow(r).sources) /\ IsInjective(NewRow(r).secrets)
           /\ ToSet(NewRow(r).sources) = {r.source}
<1>1. r.key \in Keys /\ r.source \in Sources /\ Facts(r) \in [Columns -> Values]
      BY FactsOfReport DEF Reports
<1>2. <<r.source>> \in Seq(Sources) /\ <<>> \in Seq(Digests) BY <1>1
<1>3. IsInjective(<<r.source>>) /\ IsInjective(<<>>) /\ ToSet(<<r.source>>) = {r.source}
      BY DEF IsInjective, ToSet
<1> QED BY <1>1, <1>2, <1>3 DEF NewRow, Rows

LEMMA NewRowTells ==
    ASSUME NEW rs \in Seq(Reports), NEW r \in Reports, \A q \in ToSet(rs) : q.key # r.key
    PROVE  Tells(NewRow(r), Append(rs, r))
<1> DEFINE new == NewRow(r)
<1>1. new.key = r.key /\ new.facts = Facts(r) /\ ToSet(new.sources) = {r.source} BY NewRowFacts
<1> HIDE DEF new
<1>2. {q \in ToSet(Append(rs, r)) : q.key = r.key} = {r} BY AppendedSet
<1>3. ToSet(new.sources) = {q.source : q \in {q \in ToSet(Append(rs, r)) : q.key = new.key}}
      BY <1>1, <1>2
<1>4. ASSUME NEW c \in Columns
      PROVE  LET known == Knowing(Append(rs, r), new.key, c) IN
             \/ known = {} /\ new.facts[c] = Unknown
             \/ \E n \in known : /\ \A m \in known : m <= n
                                 /\ new.facts[c] = Facts(Append(rs, r)[n])[c]
  <2>1. Knowing(rs, r.key, c) = {} BY DEF Knowing, ToSet
  <2>2. Append(rs, r)[Len(rs) + 1] = r /\ Len(rs) \in Nat BY KnowingAppended
  <2>3. CASE Facts(r)[c] = Unknown BY <1>1, <2>1, <2>3, KnowingAppended
  <2>4. CASE Facts(r)[c] # Unknown
    <3>1. Knowing(Append(rs, r), new.key, c) = {Len(rs) + 1} BY <1>1, <2>1, <2>4, KnowingAppended
    <3> QED BY <1>1, <2>2, <3>1
  <2> QED BY <2>3, <2>4
<1> QED BY <1>3, <1>4 DEF Tells, new

-----------------------------------------------------------------------------
\* Signatures: of a new row, and of one that is filled.
LEMMA FactsSigned ==
    ASSUME NEW r \in Reports
    PROVE  Signed(Facts(r))
BY FactsOfReport, SignatureKnown DEF Signed

LEMMA FillSigned ==
    ASSUME NEW old \in [Columns -> Values], NEW r \in Reports, Signed(old)
    PROVE  Signed(Fill(old, Facts(r)))
<1> DEFINE new == Fill(old, Facts(r))
<1>1. \A c \in Columns : new[c] = IF Facts(r)[c] = Unknown THEN old[c] ELSE Facts(r)[c]
      BY FactsOfReport, FillFacts
<1>2. /\ new["status"] = IF Facts(r)["status"] = Unknown THEN old["status"] ELSE Facts(r)["status"]
      /\ new["sig"] = IF Facts(r)["sig"] = Unknown THEN old["sig"] ELSE Facts(r)["sig"]
      BY <1>1 DEF Columns
<1> HIDE DEF new
<1> QED BY <1>2, FactsSigned DEF Signed, new

-----------------------------------------------------------------------------
LEMMA InitStoreInv == Init => StoreInv
BY DEF Init, StoreInv, StoreTypes, NothingTwice, RowsTellAll, SignatureOfStatus, ToSet, Knowing

\* Steps that leave the endpoints and the reports alone.
LEMMA QuietStoreSteps ==
    ASSUME StoreInv, CreateScan \/ LogError \/ FinishScan \/ UNCHANGED vars
    PROVE  StoreInv'
<1>1. UNCHANGED <<endpoints, parameters, count, reported>>
      BY DEF CreateScan, LogError, FinishScan, vars
<1>2. scan' \in {"absent", "open", "finished"} /\ (scan' # "finished" => scan # "finished")
      BY DEF CreateScan, LogError, FinishScan, vars, StoreInv, StoreTypes
<1> QED
  BY <1>1, <1>2 DEF StoreInv, StoreTypes, NothingTwice, RowsTellAll, SignatureOfStatus

\* The first report of an endpoint.
LEMMA InsertStep ==
    ASSUME StoreInv, NEW r \in Reports, InsertEndpoint(r)
    PROVE  StoreInv'
<1> USE DEF StoreInv
<1> DEFINE new == NewRow(r)
<1>1. /\ reported' = Append(reported, r) /\ endpoints' = Append(endpoints, new)
      /\ UNCHANGED <<scan, parameters>>
      /\ count' = IF scan = "finished" THEN count ELSE count + 1
      /\ \A i \in DOMAIN endpoints : endpoints[i].key # r.key
      BY DEF InsertEndpoint, Report, Existing
<1>2. /\ new \in Rows /\ new.key = r.key /\ IsInjective(new.sources) /\ IsInjective(new.secrets)
      /\ Signed(new.facts)
      BY NewRowFacts, FactsSigned
<1>3. endpoints \in Seq(Rows) /\ reported \in Seq(Reports) BY DEF StoreTypes
<1>4. \A q \in ToSet(reported) : q.key # r.key BY <1>1 DEF RowsTellAll
<1>5. Tells(new, reported') BY <1>1, <1>3, <1>4, NewRowTells
<1> HIDE DEF new
<1>6. /\ \A i \in DOMAIN endpoints : i \in DOMAIN endpoints' /\ endpoints'[i] = endpoints[i]
      /\ \A i \in DOMAIN endpoints' : i \in DOMAIN endpoints \/ i = Len(endpoints) + 1
      /\ Len(endpoints) + 1 \in DOMAIN endpoints' /\ endpoints'[Len(endpoints) + 1] = new
      /\ endpoints' \in Seq(Rows) /\ Len(endpoints') = Len(endpoints) + 1
      BY <1>1, <1>2, <1>3, Appended
<1>7. StoreTypes' BY <1>1, <1>3, <1>6, Appended DEF StoreTypes
<1>8. NothingTwice'
  <2>1. \A i, j \in DOMAIN endpoints' : endpoints'[i].key = endpoints'[j].key => i = j
        BY <1>1, <1>2, <1>6 DEF NothingTwice
  <2>2. \A i \in DOMAIN endpoints' :
           IsInjective(endpoints'[i].sources) /\ IsInjective(endpoints'[i].secrets)
        BY <1>2, <1>6 DEF NothingTwice
  <2>3. scan' # "finished" => count' = Len(endpoints')
        BY <1>1, <1>6 DEF NothingTwice
  <2> QED BY <1>1, <2>1, <2>2, <2>3 DEF NothingTwice
<1>9. RowsTellAll'
  <2>1. ASSUME NEW i \in DOMAIN endpoints PROVE Tells(endpoints[i], reported')
    <3>1. endpoints[i] \in Rows /\ endpoints[i].key # r.key BY <1>1, <1>3
    <3>2. Tells(endpoints[i], reported) BY DEF RowsTellAll
    <3> QED BY <1>1, <1>3, <3>1, <3>2, OthersTell
  <2>2. \A i \in DOMAIN endpoints' : Tells(endpoints'[i], reported')
        BY <1>5, <1>6, <2>1
  <2>3. ToSet(reported') = ToSet(reported) \union {r} BY <1>1, <1>3, AppendedSet
  <2>4. \A q \in ToSet(reported') : \E i \in DOMAIN endpoints' : endpoints'[i].key = q.key
        BY <1>2, <1>6, <2>3 DEF RowsTellAll
  <2> QED BY <2>2, <2>4 DEF RowsTellAll
<1>10. SignatureOfStatus' BY <1>2, <1>6 DEF SignatureOfStatus
<1> QED BY <1>7, <1>8, <1>9, <1>10

\* A further report: one row changes, and no other has its key.
LEMMA MergeStep ==
    ASSUME StoreInv, NEW r \in Reports, MergeEndpoint(r)
    PROVE  StoreInv'
<1> USE DEF StoreInv
<1>1. reported' = Append(reported, r) /\ UNCHANGED <<scan, parameters, count>>
      BY DEF MergeEndpoint, Report
<1>2. PICK i \in DOMAIN endpoints : /\ endpoints[i].key = r.key
                                    /\ endpoints' = [endpoints EXCEPT ![i] = Merged(@, r)]
      BY DEF MergeEndpoint, Existing
<1>3. endpoints \in Seq(Rows) /\ reported \in Seq(Reports) /\ endpoints[i] \in Rows
      BY DEF StoreTypes
<1> DEFINE new == Merged(endpoints[i], r)
<1>4. IsInjective(endpoints[i].sources) /\ IsInjective(endpoints[i].secrets) BY DEF NothingTwice
<1>5. /\ new \in Rows /\ new.key = r.key /\ new.secrets = endpoints[i].secrets
      /\ new.facts = Fill(endpoints[i].facts, Facts(r)) /\ IsInjective(new.sources)
      BY <1>2, <1>3, <1>4, MergedFacts
<1>6. Tells(new, reported')
  <2>1. Tells(endpoints[i], reported) BY DEF RowsTellAll
  <2> QED BY <1>1, <1>2, <1>3, <1>4, <2>1, MergedTells
<1>7. Signed(new.facts)
  <2>1. Signed(endpoints[i].facts) /\ endpoints[i].facts \in [Columns -> Values]
        BY <1>3 DEF SignatureOfStatus, Rows
  <2> QED BY <1>5, <2>1, FillSigned
<1> HIDE DEF new
<1>8. /\ endpoints' \in Seq(Rows) /\ DOMAIN endpoints' = DOMAIN endpoints
      /\ Len(endpoints') = Len(endpoints)
      /\ endpoints'[i] = new /\ \A k \in DOMAIN endpoints \ {i} : endpoints'[k] = endpoints[k]
      BY <1>2, <1>3, <1>5 DEF new
<1>9. StoreTypes' BY <1>1, <1>3, <1>8, Appended DEF StoreTypes
<1>10. NothingTwice'
  <2>1. \A k \in DOMAIN endpoints : endpoints'[k].key = endpoints[k].key BY <1>2, <1>5, <1>8
  <2>2. \A k \in DOMAIN endpoints :
           IsInjective(endpoints'[k].sources) /\ IsInjective(endpoints'[k].secrets)
        BY <1>4, <1>5, <1>8 DEF NothingTwice
  <2> QED BY <1>1, <1>8, <2>1, <2>2 DEF NothingTwice
<1>11. RowsTellAll'
  <2>1. ASSUME NEW k \in DOMAIN endpoints, k # i PROVE Tells(endpoints[k], reported')
    <3>1. endpoints[k] \in Rows /\ endpoints[k].key # r.key
          BY <1>2, <1>3, <2>1 DEF NothingTwice
    <3>2. Tells(endpoints[k], reported) BY DEF RowsTellAll
    <3> QED BY <1>1, <1>3, <3>1, <3>2, OthersTell
  <2>2. \A k \in DOMAIN endpoints' : Tells(endpoints'[k], reported') BY <1>6, <1>8, <2>1
  <2>3. ToSet(reported') = ToSet(reported) \union {r} BY <1>1, <1>3, AppendedSet
  <2>4. \A k \in DOMAIN endpoints : endpoints'[k].key = endpoints[k].key BY <1>2, <1>5, <1>8
  <2>5. \A q \in ToSet(reported') : \E k \in DOMAIN endpoints' : endpoints'[k].key = q.key
        BY <1>2, <1>8, <2>3, <2>4 DEF RowsTellAll
  <2> QED BY <2>2, <2>5 DEF RowsTellAll
<1>12. SignatureOfStatus' BY <1>7, <1>8 DEF SignatureOfStatus
<1> QED BY <1>9, <1>10, <1>11, <1>12

LEMMA AddParameterStep ==
    ASSUME StoreInv, NEW i \in DOMAIN endpoints, NEW p \in Params, NEW s \in Sources,
           AddParameter(i, p, s)
    PROVE  StoreInv'
<1> USE DEF StoreInv
<1>1. /\ UNCHANGED <<scan, endpoints, reported, count>>
      /\ parameters' = parameters \union {[endpoint |-> i, param |-> p, source |-> s]}
      /\ \A q \in parameters : q.endpoint = i => q.param # p
      BY DEF AddParameter, ParametersOf
<1>2. i \in Nat BY DEF StoreTypes
<1>3. StoreTypes' BY <1>1, <1>2 DEF StoreTypes
<1>4. \A p1, p2 \in parameters' : p1.endpoint = p2.endpoint /\ p1.param = p2.param => p1 = p2
      BY <1>1 DEF NothingTwice
<1>5. NothingTwice' BY <1>1, <1>4 DEF NothingTwice
<1> QED BY <1>1, <1>3, <1>5 DEF RowsTellAll, SignatureOfStatus

\* A secret changes nothing of its row that the reports tell of.
LEMMA AddSecretStep ==
    ASSUME StoreInv, NEW i \in DOMAIN endpoints, NEW d \in Digests, AddSecret(i, d)
    PROVE  StoreInv'
<1> USE DEF StoreInv
<1>1. /\ UNCHANGED <<scan, parameters, reported, count>> /\ ~Contains(endpoints[i].secrets, d)
      /\ endpoints' = [endpoints EXCEPT ![i].secrets = Append(@, d)]
      BY DEF AddSecret
<1>2. endpoints \in Seq(Rows) /\ endpoints[i] \in Rows BY DEF StoreTypes
<1>3. endpoints[i].secrets \in Seq(Digests) /\ IsInjective(endpoints[i].secrets)
      BY <1>2 DEF Rows, NothingTwice
<1> DEFINE secrets == Append(endpoints[i].secrets, d)
           new == [endpoints[i] EXCEPT !.secrets = secrets]
<1>4. secrets \in Seq(Digests) /\ IsInjective(secrets)
      BY <1>1, <1>3, Appended, AppendedInjective
<1>5. endpoints' = [endpoints EXCEPT ![i] = new] BY <1>1, <1>2
<1> HIDE DEF secrets
<1>6. /\ new \in Rows /\ new.key = endpoints[i].key /\ new.sources = endpoints[i].sources
      /\ new.facts = endpoints[i].facts /\ new.secrets = secrets
      BY <1>2, <1>4 DEF Rows
<1> HIDE DEF new
<1>7. /\ endpoints' \in Seq(Rows) /\ DOMAIN endpoints' = DOMAIN endpoints
      /\ Len(endpoints') = Len(endpoints)
      /\ endpoints'[i] = new /\ \A k \in DOMAIN endpoints \ {i} : endpoints'[k] = endpoints[k]
      BY <1>2, <1>5, <1>6
<1>8. \A k \in DOMAIN endpoints : /\ endpoints'[k].key = endpoints[k].key
                                  /\ endpoints'[k].sources = endpoints[k].sources
                                  /\ endpoints'[k].facts = endpoints[k].facts
                                  /\ IsInjective(endpoints'[k].secrets)
      BY <1>4, <1>6, <1>7 DEF NothingTwice
<1>9. StoreTypes' BY <1>1, <1>7 DEF StoreTypes
<1>10. NothingTwice' BY <1>1, <1>7, <1>8 DEF NothingTwice
<1>11. \A k \in DOMAIN endpoints : Tells(endpoints'[k], reported')
  <2> SUFFICES ASSUME NEW k \in DOMAIN endpoints PROVE Tells(endpoints'[k], reported') OBVIOUS
  <2>1. Tells(endpoints[k], reported) BY DEF RowsTellAll
  <2>2. \A old, row : Tells(old, reported) /\ row.key = old.key /\ row.sources = old.sources
                     /\ row.facts = old.facts => Tells(row, reported)
        BY DEF Tells
  <2>3. Tells(endpoints'[k], reported) BY <1>8, <2>1, <2>2
  <2> QED BY <1>1, <2>3
<1>12. RowsTellAll'
  <2>1. \A q \in ToSet(reported') : \E k \in DOMAIN endpoints' : endpoints'[k].key = q.key
        BY <1>1, <1>7, <1>8 DEF RowsTellAll
  <2> QED BY <1>7, <1>11, <2>1 DEF RowsTellAll
<1>13. SignatureOfStatus' BY <1>7, <1>8 DEF SignatureOfStatus
<1> QED BY <1>9, <1>10, <1>12, <1>13

\* Every operation of the store keeps the invariant.
LEMMA NextStoreInv == StoreInv /\ [Next]_vars => StoreInv'
BY QuietStoreSteps, InsertStep, MergeStep, AddParameterStep, AddSecretStep DEF Next

-----------------------------------------------------------------------------
\* The inductive invariant holds of the inventory.
THEOREM StoreInvariant == Spec => []StoreInv
BY InitStoreInv, NextStoreInv, PTL DEF Spec

\* No endpoint, parameter, source or secret is stored twice, and the pipeline's
\* counter is the number of rows (ScanStore.add_*, _record_endpoint).
THEOREM StoredOnce == Spec => []NothingTwice
<1>1. StoreInv => NothingTwice BY DEF StoreInv
<1> QED BY <1>1, StoreInvariant, PTL

\* A row is the sum of its reports, in whatever order they came (add_endpoint).
THEOREM NothingReportedIsLost == Spec => []RowsTellAll
<1>1. StoreInv => RowsTellAll BY DEF StoreInv
<1> QED BY <1>1, StoreInvariant, PTL

\* A row's signature is that of a response with its status (add_endpoint, ResponseSignature).
THEOREM SignatureAgrees == Spec => []SignatureOfStatus
<1>1. StoreInv => SignatureOfStatus BY DEF StoreInv
<1> QED BY <1>1, StoreInvariant, PTL
=============================================================================
