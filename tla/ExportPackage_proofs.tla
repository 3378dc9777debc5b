-------------------------- MODULE ExportPackage_proofs --------------------------
(***************************************************************************)
(* What the formal export promises, for any claims, any number of imports, *)
(* decisions and exports, whatever ids the database hands out again, and   *)
(* deaths of the process at any point.                                     *)
(*                                                                         *)
(* A row id does not tell one claim from another, but the id and the       *)
(* import that inserted the row do.  So a claim a handler has read is the  *)
(* stored one if both agree; an imported row has no record that was        *)
(* written while it bore its id; and every later one is written by a       *)
(* commit that leaves its word on the row, or leaves the row as it was.    *)
(***************************************************************************)
EXTENDS ExportPackage, FiniteSetTheorems, SequenceTheorems, TLAPS

-----------------------------------------------------------------------------
(***************************************************************************)
(* The export in progress: a record that its queries fill step by step.    *)
(* Once it writes, every file of the selection that is not still to be     *)
(* written is the one of its package.                                      *)
(***************************************************************************)
PackageShape(p) ==
  p = [claims |-> p.claims, excluded |-> p.excluded, evidence |-> p.evidence, records |-> p.records]

ExportTypes ==
  /\ export.step \in {"none", "claims", "links", "files"}
  /\ export = [step |-> export.step, package |-> export.package,
               selection |-> export.selection, todo |-> export.todo]
  /\ PackageShape(export.package)
  /\ export.selection \subseteq ToSet(Formats)
  /\ export.step = "none" => export = NoExport
  /\ export.step # "none" => export.selection # {}

Rendered ==
  export.step = "files" =>
    \A f \in export.selection \ export.todo : f \in DOMAIN disk /\ disk[f] = export.package

LEMMA ReadClaimsEffect ==
  ASSUME NEW S, ReadClaims(S)
  PROVE  export' = [step |-> "claims", selection |-> S, todo |-> {},
                    package |-> [claims |-> ClaimRows(Having("approved")),
                                 excluded |-> ClaimRows(DOMAIN claims \ Having("approved")),
                                 evidence |-> {}, records |-> {}]]
BY DEF ReadClaims, NoPackage

LEMMA ReadLinksEffect ==
  ASSUME ExportTypes, ReadLinks
  PROVE  export' = [step |-> "links", selection |-> export.selection, todo |-> export.todo,
                    package |-> [claims |-> WithLinks(export.package.claims),
                                 excluded |-> export.package.excluded,
                                 evidence |-> export.package.evidence,
                                 records |-> export.package.records]]
<1> DEFINE p == export.package
           C == WithLinks(p.claims)
<1>1. export' = [export EXCEPT !.step = "links", !.package.claims = C]
  BY DEF ReadLinks
<1>2. export = [step |-> export.step, package |-> p, selection |-> export.selection, todo |-> export.todo]
  BY DEF ExportTypes
<1>3. p = [claims |-> p.claims, excluded |-> p.excluded, evidence |-> p.evidence, records |-> p.records]
  BY DEF ExportTypes, PackageShape
<1> HIDE DEF p, C
<1>4. [p EXCEPT !.claims = C] =
        [claims |-> C, excluded |-> p.excluded, evidence |-> p.evidence, records |-> p.records]
  BY <1>3
<1>5. export' = [step |-> "links", package |-> [p EXCEPT !.claims = C],
                 selection |-> export.selection, todo |-> export.todo]
  BY <1>1, <1>2 DEF p
<1> QED BY <1>4, <1>5 DEF p, C

LEMMA AssembledIs ==
  ASSUME NEW p, PackageShape(p)
  PROVE  Assembled(p) =
           [claims |-> p.claims, excluded |-> p.excluded,
            evidence |-> {[id |-> e, content |-> evidence[e]] :
                             e \in UNION {c.row.links : c \in p.claims}},
            records |-> RecordsOf({c.id : c \in p.claims \cup p.excluded})]
<1> DEFINE E == {[id |-> e, content |-> evidence[e]] : e \in UNION {c.row.links : c \in p.claims}}
           R == RecordsOf({c.id : c \in p.claims \cup p.excluded})
<1>1. Assembled(p) = [p EXCEPT !.evidence = E, !.records = R]
  BY DEF Assembled
<1> HIDE DEF E, R
<1>2. Assembled(p) = [claims |-> p.claims, excluded |-> p.excluded, evidence |-> E, records |-> R]
  BY <1>1 DEF PackageShape
<1> QED BY <1>2 DEF E, R

LEMMA StartExportEffect ==
  ASSUME ExportTypes, StartExport
  PROVE  export' = [step |-> "files", package |-> Assembled(export.package),
                    selection |-> export.selection, todo |-> export.selection]
BY DEF StartExport, ExportTypes, ToWrite

LEMMA WriteFileEffect ==
  ASSUME ExportTypes, NEW f, WriteFile(f)
  PROVE  export' = [step |-> "files", package |-> export.package,
                    selection |-> export.selection, todo |-> export.todo \ {f}]
BY DEF WriteFile, ExportTypes

LEMMA RenderedInit == ExportInit => Rendered /\ ExportTypes
BY DEF ExportInit, PackageInit, Rendered, ExportTypes, NoExport, NoPackage, PackageShape

LEMMA RenderedStep == Rendered /\ ExportTypes /\ [Next]_vars => Rendered' /\ ExportTypes'
<1> SUFFICES ASSUME Rendered, ExportTypes, [Next]_vars PROVE Rendered' /\ ExportTypes'
  OBVIOUS
<1>1. CASE UNCHANGED <<disk, export>>
  BY <1>1 DEF Rendered, ExportTypes, PackageShape
<1>2. ASSUME NEW S \in (SUBSET ToSet(Formats)) \ {{}}, ReadClaims(S) PROVE Rendered' /\ ExportTypes'
  BY <1>2, ReadClaimsEffect DEF Rendered, ExportTypes, PackageShape
<1>3. CASE ReadLinks
  <2>1. export.step = "claims"
    BY <1>3 DEF ReadLinks
  <2> QED BY <1>3, <2>1, ReadLinksEffect DEF Rendered, ExportTypes, PackageShape
<1>4. CASE StartExport
  <2>1. export.step = "links"
    BY <1>4 DEF StartExport
  <2>2. PackageShape(Assembled(export.package))
    BY AssembledIs DEF ExportTypes, PackageShape
  <2> QED BY <1>4, <2>1, <2>2, StartExportEffect DEF Rendered, ExportTypes
<1>5. ASSUME NEW f \in ToSet(Formats), WriteFile(f) PROVE Rendered' /\ ExportTypes'
  <2>1. export' = [step |-> "files", package |-> export.package,
                   selection |-> export.selection, todo |-> export.todo \ {f}]
    BY <1>5, WriteFileEffect
  <2>2. /\ export.step = "files"
        /\ disk' = [g \in DOMAIN disk \cup {f} |-> IF g = f THEN export.package ELSE disk[g]]
    BY <1>5 DEF WriteFile
  <2>3. ExportTypes'
    BY <2>1, <2>2 DEF ExportTypes
  <2>4. Rendered'
    BY <2>1, <2>2 DEF Rendered
  <2> QED BY <2>3, <2>4
<1>6. CASE export' = NoExport
  BY <1>6 DEF Rendered, ExportTypes, NoExport, NoPackage, PackageShape
<1> QED
  BY <1>1, <1>2, <1>3, <1>4, <1>5, <1>6
  DEF Next, Imports, Decisions, Exports, ReuseExport, WriteManifest, Crash, packageVars, vars

\* Whatever the requests select and whatever crashes leave in the directory, the
\* files a manifest lists are the ones rendered from its package.
THEOREM ManifestTellsTheTruthHolds == Spec => ManifestTellsTheTruth
<1>1. Rendered /\ ExportTypes /\ [Next]_vars =>
        [manifest' # manifest => \A f \in manifest'.selection : disk[f] = manifest'.package]_vars
  <2> SUFFICES ASSUME Rendered, [Next]_vars, manifest' # manifest
               PROVE  \A f \in manifest'.selection : disk[f] = manifest'.package
    OBVIOUS
  <2>1. WriteManifest
    BY DEF Next, Imports, Decisions, Exports, ReadClaims, ReadLinks, StartExport, ReuseExport,
           WriteFile, Crash, packageVars, vars
  <2> QED BY <2>1 DEF WriteManifest, Rendered
<1> QED BY <1>1, RenderedInit, RenderedStep, PTL DEF Spec, ManifestTellsTheTruth

-----------------------------------------------------------------------------
(***************************************************************************)
(* Row types, and the order of a batch.                                    *)
(***************************************************************************)
Records == [target : Nat, decision : {"edit"} \cup DOMAIN StatusAfter, key : Keys,
            status : Reviews, born : Nat, on : Nat]

\* What the importer makes of a claim is a row, approved by machine or pending.
LEMMA RowType ==
  ASSUME NEW c \in Claims, NEW S \in SUBSET EvidenceIds, NEW content, NEW n \in Nat
  PROVE  /\ Row(c, S, content, n) \in Rows
         /\ Row(c, S, content, n).review =
              IF Row(c, S, content, n).machine THEN "approved" ELSE "pending"
<1> DEFINE row == Row(c, S, content, n)
           linked == Linked(c, S)
           ver == VerificationStatus(c, linked)
           review == ReviewStatus(c, ver, NumericStatus(c, linked, content), CitationStatus(c, linked))
<1>1. linked \in SUBSET EvidenceIds
  BY DEF Linked, Claims
<1>2. ver \in Verifications
  BY DEF VerificationStatus, Verifications
<1>3. review \in {"approved", "pending"}
  <2>1. \A v, num, cit : ReviewStatus(c, v, num, cit) \in {"approved", "pending"}
    <3> TAKE v, num, cit
    <3>1. c.critical \in BOOLEAN /\ c.sure \in BOOLEAN
      BY DEF Claims
    <3> QED BY <3>1 DEF ReviewStatus
  <2> QED BY <2>1
<1>4. row = [key |-> c.key, text |-> "generated", ver |-> ver, links |-> linked,
             review |-> review, machine |-> (review = "approved"),
             action |-> "none", born |-> n]
  BY DEF Row
<1>5. c.key \in Keys
  BY DEF Claims
<1> HIDE DEF row, linked, ver, review
<1>6. row \in Rows
  BY <1>1, <1>2, <1>3, <1>4, <1>5 DEF Rows, Reviews
<1>7. row.review = IF row.machine THEN "approved" ELSE "pending"
  BY <1>3, <1>4
<1> QED BY <1>6, <1>7 DEF row

\* A decision changes neither which claim a row is nor who approved it first.
LEMMA DecidedType ==
  ASSUME NEW op \in {"bulk", "edit"} \cup DOMAIN StatusAfter, NEW row \in Rows,
         NEW after \in Decided(op, row)
  PROVE  after \in Rows /\ after.key = row.key /\ after.born = row.born
         /\ after.machine = row.machine
<1> DEFINE Ok(r) == r \in Rows /\ r.key = row.key /\ r.born = row.born /\ r.machine = row.machine
<1>1. ASSUME NEW s \in Reviews, NEW a \in {"bulk", "edit"} \cup DOMAIN StatusAfter
      PROVE  Ok([row EXCEPT !.review = s, !.action = a])
  BY <1>1 DEF Rows
<1>2. Ok([row EXCEPT !.text = "edited", !.action = "edit"])
  BY DEF Rows
<1>3. CASE op \in DOMAIN StatusAfter
  <2>1. /\ after = [row EXCEPT !.review = StatusAfter[op], !.action = op]
        /\ StatusAfter[op] \in Reviews
    BY <1>3 DEF Decided, StatusAfter, Reviews
  <2> HIDE DEF Ok
  <2> QED BY <2>1, <1>1 DEF Ok
<1>4. CASE op = "edit"
  <2>1. \/ after = [row EXCEPT !.text = "edited", !.action = "edit"]
        \/ \E s \in Reviews : after = [row EXCEPT !.review = s, !.action = "edit"]
    BY <1>4 DEF Decided, StatusAfter
  <2> HIDE DEF Ok
  <2>2. ASSUME NEW s \in Reviews, after = [row EXCEPT !.review = s, !.action = "edit"]
        PROVE  Ok(after)
    <3>1. Ok([row EXCEPT !.review = s, !.action = "edit"])
      BY <1>1
    <3> QED BY <3>1, <2>2
  <2>3. Ok(after)
    BY <2>1, <2>2, <1>2, Zenon
  <2> QED BY <2>3 DEF Ok
<1>5. CASE op = "bulk"
  <2>1. after = [row EXCEPT !.review = "approved", !.action = "bulk"] /\ "approved" \in Reviews
    BY <1>5 DEF Decided, StatusAfter, Reviews
  <2> HIDE DEF Ok
  <2> QED BY <2>1, <1>1 DEF Ok
<1> QED BY <1>3, <1>4, <1>5

\* A finite set as a sequence: everything in it, once.
LEMMA AsSequence ==
  ASSUME NEW S, IsFiniteSet(S)
  PROVE  /\ Cardinality(S) \in Nat
         /\ SetToSeq(S) \in [1..Cardinality(S) -> S]
         /\ \A x \in S : \E n \in 1..Cardinality(S) : SetToSeq(S)[n] = x
         /\ \A m, n \in 1..Cardinality(S) : SetToSeq(S)[m] = SetToSeq(S)[n] => m = n
<1> DEFINE c == Cardinality(S)
<1>1. c \in Nat /\ ExistsBijection(1..c, S)
  BY FS_CardinalityType
<1>2. \E f \in [1..c -> S] : IsInjective(f)
  BY <1>1 DEF ExistsBijection, Bijection, Injection
<1>3. SetToSeq(S) \in [1..c -> S] /\ IsInjective(SetToSeq(S))
  BY <1>2 DEF SetToSeq
<1>4. SetToSeq(S) \in Injection(1..c, S)
  BY <1>3 DEF Injection
<1>5. Cardinality(1..c) = c
  BY <1>1, FS_Interval
<1>6. SetToSeq(S) \in Surjection(1..c, S)
  BY <1>4, <1>5, FS_Injection
<1> QED BY <1>1, <1>3, <1>6 DEF Surjection, IsInjective

\* An update sets what the decision changed and nothing else; on the row that was
\* read it leaves the status that was decided.
LEMMA UpdatedType ==
  ASSUME NEW row \in Rows, NEW before, NEW after \in Rows
  PROVE  /\ Updated(row, before, after) \in Rows
         /\ Updated(row, before, after).key = row.key
         /\ Updated(row, before, after).born = row.born
         /\ Updated(row, before, after).machine = row.machine
         /\ Updated(row, before, after).links = row.links
         /\ Updated(row, before, after).review \in {row.review, after.review}
         /\ row = before => Updated(row, before, after).review = after.review
<1>1. Updated(row, before, after) \in Rows
  BY ZenonT(40) DEF Updated, Rows
<1>2. /\ Updated(row, before, after).key = row.key
      /\ Updated(row, before, after).born = row.born
      /\ Updated(row, before, after).machine = row.machine
      /\ Updated(row, before, after).links = row.links
  BY DEF Updated, Rows
<1>3. Updated(row, before, after).review =
        IF after.review # before.review THEN after.review ELSE row.review
  BY DEF Updated, Rows
<1> QED BY <1>1, <1>2, <1>3

-----------------------------------------------------------------------------
(***************************************************************************)
(* The claims and their records.                                           *)
(***************************************************************************)
Stores ==
  /\ lastId \in Nat /\ imports \in Nat
  /\ \A i \in DOMAIN claims : i \in 1..lastId /\ claims[i] \in Rows /\ claims[i].born \in 1..imports
  /\ records \in Seq(Records)
  /\ \A n \in DOMAIN records :
       /\ records[n].target \in 1..lastId
       /\ records[n].born \in 1..imports /\ records[n].on \in 0..imports

\* What a handler has read is typed, and the stored row where that is still the
\* same claim.  A batch is of pending claims, any other decision of one.
OnDesk ==
  /\ desk # Idle => desk.op \in {"bulk", "edit"} \cup DOMAIN StatusAfter
  /\ DOMAIN desk.read \subseteq 1..lastId
  /\ \A i \in DOMAIN desk.read :
       /\ desk.read[i] \in Rows /\ desk.read[i].born \in 1..imports
       /\ i \in DOMAIN claims /\ claims[i].born = desk.read[i].born => claims[i] = desk.read[i]
  /\ desk.op = "bulk" => \A i \in DOMAIN desk.read : desk.read[i].review = "pending"
  /\ desk.op # "bulk" => \A i, j \in DOMAIN desk.read : i = j

\* An approved row was approved by the policy or by a record written on it.
Explained ==
  \A i \in DOMAIN claims :
    claims[i].review = "approved" /\ ~claims[i].machine =>
      \E n \in Said(i) : records[n].status = "approved"

Audited == Stores /\ OnDesk /\ Explained /\ LastWordCounts

LEMMA AuditedInit == ExportInit => Audited
BY DEF ExportInit, Init, Audited, Stores, OnDesk, Explained, LastWordCounts, NoClaims, Idle

\* What an import leaves is rows as the policy makes them, numbered from above
\* the floor.
LEMMA ImportEffect ==
  ASSUME lastId \in Nat, imports \in Nat,
         NEW cs \in ClaimFiles, NEW ev \in EvidenceFiles, NEW floor \in Floors,
         Import(cs, ev, floor)
  PROVE  /\ lastId' \in Nat /\ lastId <= lastId' /\ imports' = imports + 1
         /\ UNCHANGED <<records, desk>>
         /\ \A i \in DOMAIN claims' :
              /\ i \in 1..lastId' /\ claims'[i] \in Rows /\ claims'[i].born = imports + 1
              /\ claims'[i].links \subseteq DOMAIN ev
              /\ claims'[i].review = IF claims'[i].machine THEN "approved" ELSE "pending"
<1>1. cs \in Seq(Claims) /\ Len(cs) \in Nat /\ DOMAIN cs = 1..Len(cs)
  BY ClaimFilesAssumption
<1>2. floor \in Nat
  BY DEF Floors
<1>3. /\ lastId' = IF floor + Len(cs) > lastId THEN floor + Len(cs) ELSE lastId
      /\ imports' = imports + 1 /\ UNCHANGED <<records, desk>>
      /\ claims' = [i \in {floor + n : n \in DOMAIN cs} |->
                      Row(cs[i - floor], DOMAIN ev, ev, imports + 1)]
  BY DEF Import
<1>4. DOMAIN ev \in SUBSET EvidenceIds
  BY EvidenceFilesAssumption
<1>5. ASSUME NEW i \in DOMAIN claims'
      PROVE  /\ i \in 1..lastId' /\ claims'[i] \in Rows /\ claims'[i].born = imports + 1
             /\ claims'[i].links \subseteq DOMAIN ev
             /\ claims'[i].review = IF claims'[i].machine THEN "approved" ELSE "pending"
  <2>1. PICK n \in DOMAIN cs : i = floor + n
    BY <1>3, <1>5
  <2>2. i - floor = n /\ cs[n] \in Claims /\ i \in 1..lastId'
    BY <2>1, <1>1, <1>2, <1>3
  <2>3. claims'[i] = Row(cs[n], DOMAIN ev, ev, imports + 1)
    BY <1>3, <1>5, <2>2
  <2>4. Row(cs[n], DOMAIN ev, ev, imports + 1).born = imports + 1
    BY DEF Row
  <2>5. Row(cs[n], DOMAIN ev, ev, imports + 1).links \subseteq DOMAIN ev
    BY DEF Row, Linked
  <2>6. imports + 1 \in Nat
    OBVIOUS
  <2> QED BY <1>4, <2>2, <2>3, <2>4, <2>5, <2>6, RowType
<1>6. lastId' \in Nat /\ lastId <= lastId'
  BY <1>1, <1>2, <1>3
<1> QED BY ONLY <1>3, <1>5, <1>6

\* No record was written on a row that is new, and no handler has read it.
LEMMA ImportStep ==
  ASSUME Audited, NEW cs \in ClaimFiles, NEW ev \in EvidenceFiles, NEW floor \in Floors,
         Import(cs, ev, floor)
  PROVE  Audited'
<1> USE DEF Audited
<1>1. /\ lastId' \in Nat /\ lastId <= lastId' /\ imports' = imports + 1
      /\ UNCHANGED <<records, desk>>
      /\ \A i \in DOMAIN claims' :
           /\ i \in 1..lastId' /\ claims'[i] \in Rows /\ claims'[i].born = imports + 1
           /\ claims'[i].review = IF claims'[i].machine THEN "approved" ELSE "pending"
  BY ImportEffect DEF Stores
<1>2. imports \in Nat /\ lastId \in Nat
  BY DEF Stores
<1>3. Stores'
  BY <1>1, <1>2 DEF Stores
<1>4. OnDesk'
  <2>1. \A i \in DOMAIN desk.read :
          /\ desk.read[i] \in Rows /\ desk.read[i].born \in 1..imports'
          /\ i \in DOMAIN claims' => claims'[i].born # desk.read[i].born
    BY <1>1, <1>2 DEF OnDesk
  <2> QED BY <1>1, <1>2, <2>1 DEF OnDesk
<1>5. \A i \in DOMAIN claims' : Said(i)' = {}
  BY <1>1, <1>2 DEF Said, Stores
<1>6. Explained'
  BY <1>1 DEF Explained
<1>7. LastWordCounts'
  BY <1>1, <1>5 DEF LastWordCounts
<1> QED BY <1>3, <1>4, <1>6, <1>7

\* The records a commit adds.
NewRecords == DOMAIN records' \ DOMAIN records

\* A commit records every claim it read once, after all earlier records, on the
\* row that bears the id, and leaves that row its status or the recorded one:
\* the latter where it is the row that was read.  It touches no other claim, and
\* finds all it read or none.
LEMMA CommitEffect ==
  ASSUME Audited, Commit
  PROVE  /\ desk' = Idle /\ UNCHANGED <<lastId, imports>>
         /\ records' \in Seq(Records)
         /\ \A n \in DOMAIN records : n \in DOMAIN records' /\ records'[n] = records[n]
         /\ \A n \in NewRecords :
              /\ \A m \in DOMAIN records : m <= n
              /\ records'[n].target \in DOMAIN desk.read
              /\ records'[n].born = desk.read[records'[n].target].born
              /\ records'[n].on = IF records'[n].target \in DOMAIN claims
                                  THEN claims[records'[n].target].born ELSE 0
              /\ records'[n].target \in DOMAIN claims
                   => claims'[records'[n].target].review \in
                        {claims[records'[n].target].review, records'[n].status}
              /\ records'[n].target \in DOMAIN claims
                 /\ claims[records'[n].target].born = records'[n].born
                   => claims'[records'[n].target].review = records'[n].status
         /\ \A i \in DOMAIN desk.read : \E n \in NewRecords :
              records'[n].target = i /\ \A m \in NewRecords : records'[m].target = i => m = n
         /\ DOMAIN claims' = DOMAIN claims
         /\ \A i \in DOMAIN claims :
              /\ claims'[i] \in Rows
              /\ claims'[i].born = claims[i].born /\ claims'[i].machine = claims[i].machine
              /\ claims'[i].links = claims[i].links
              /\ i \notin DOMAIN desk.read => claims'[i] = claims[i]
         /\ DOMAIN desk.read \subseteq DOMAIN claims \/ DOMAIN desk.read \cap DOMAIN claims = {}
<1> USE DEF Audited, Stores, OnDesk
<1> DEFINE D == DOMAIN desk.read
           c == Cardinality(D)
           batch == SetToSeq(D)
<1>1. PICK after \in Outcomes :
        /\ Changed(after) \subseteq DOMAIN claims
        /\ claims' = [i \in DOMAIN claims |->
                        IF i \in Changed(after) THEN Updated(claims[i], desk.read[i], after[i])
                        ELSE claims[i]]
        /\ records' = records \o Recorded(after)
  BY DEF Commit
<1>2. desk # Idle /\ desk' = Idle /\ UNCHANGED <<lastId, imports>>
  BY DEF Commit
<1>3. DOMAIN after = D /\ \A i \in D : after[i] \in Decided(desk.op, desk.read[i])
  BY <1>1 DEF Outcomes
<1>4. ASSUME NEW i \in D
      PROVE  /\ after[i] \in Rows /\ after[i].key = desk.read[i].key
             /\ after[i].born = desk.read[i].born /\ after[i].machine = desk.read[i].machine
  <2>1. desk.op \in {"bulk", "edit"} \cup DOMAIN StatusAfter
    BY <1>2
  <2>2. desk.read[i] \in Rows /\ after[i] \in Decided(desk.op, desk.read[i])
    BY <1>3, <1>4
  <2> QED BY ONLY <2>1, <2>2, DecidedType
<1>5. IsFiniteSet(D)
  <2>1. lastId \in Nat /\ D \subseteq 1..lastId
    OBVIOUS
  <2>2. IsFiniteSet(1..lastId)
    BY <2>1, FS_Interval
  <2> HIDE DEF D
  <2> QED BY ONLY <2>1, <2>2, FS_Subset
<1>6. /\ c \in Nat /\ batch \in [1..c -> D]
      /\ \A i \in D : \E k \in 1..c : batch[k] = i
      /\ \A k, l \in 1..c : batch[k] = batch[l] => k = l
  BY <1>5, AsSequence
<1> HIDE DEF c, batch
<1> DEFINE rec(i) == Record(i, desk.op, desk.read[i], after[i])
<1>7. Recorded(after) = [k \in 1..c |-> rec(batch[k])]
  BY <1>3 DEF Recorded, c, batch
<1>8. ASSUME NEW i \in D
      PROVE  /\ rec(i) \in Records /\ rec(i).target = i
             /\ rec(i).born = desk.read[i].born /\ rec(i).status = after[i].review
             /\ rec(i).on = IF i \in DOMAIN claims THEN claims[i].born ELSE 0
  <2>1. /\ desk.op \in {"bulk", "edit"} \cup DOMAIN StatusAfter
        /\ i \in Nat /\ desk.read[i] \in Rows /\ after[i] \in Rows
        /\ i \in DOMAIN claims => claims[i].born \in Nat
    BY <1>2, <1>4, <1>8
  <2>2. (IF desk.op = "bulk" THEN "approve" ELSE desk.op) \in {"edit"} \cup DOMAIN StatusAfter
    BY ONLY <2>1 DEF StatusAfter
  <2> QED BY ONLY <2>1, <2>2 DEF Record, Records, Rows
<1>9. Recorded(after) \in Seq(Records) /\ Len(Recorded(after)) = c
  <2>1. \A k \in 1..c : batch[k] \in D
    BY <1>6
  <2> HIDE DEF rec
  <2>2. Recorded(after) \in [1..c -> Records]
    BY <2>1, <1>7, <1>8
  <2> QED BY <2>2, <1>6, SeqDef, LenProperties
<1> HIDE DEF rec
<1> DEFINE old == Len(records)
<1>10. /\ old \in Nat /\ DOMAIN records = 1..old
       /\ records' \in Seq(Records) /\ DOMAIN records' = 1..(old + c)
       /\ \A n \in 1..old : records'[n] = records[n]
       /\ \A k \in 1..c : records'[old + k] = rec(batch[k])
  BY <1>1, <1>6, <1>7, <1>9
<1> HIDE DEF old
\* The new records, one per claim read.
<1>11. ASSUME NEW n \in NewRecords
       PROVE  \E k \in 1..c : n = old + k
  <2>1. n \in 1..(old + c) /\ n \notin 1..old
    BY <1>10, <1>11 DEF NewRecords
  <2>2. n - old \in 1..c /\ n = old + (n - old)
    BY <2>1, <1>6, <1>10
  <2> QED BY <2>2
<1>12. ASSUME NEW k \in 1..c
       PROVE  old + k \in NewRecords
  BY <1>6, <1>10, <1>12 DEF NewRecords
<1>13. ASSUME NEW i \in DOMAIN claims
       PROVE  /\ claims'[i] \in Rows
              /\ claims'[i].born = claims[i].born /\ claims'[i].machine = claims[i].machine
              /\ claims'[i].links = claims[i].links
              /\ i \notin D => claims'[i] = claims[i]
              /\ i \in D => claims'[i].review \in {claims[i].review, after[i].review}
              /\ i \in D /\ claims[i].born = desk.read[i].born => claims'[i].review = after[i].review
  <2>1. claims[i] \in Rows
    BY <1>13
  <2>2. CASE i \in Changed(after)
    <3>1. i \in D /\ claims'[i] = Updated(claims[i], desk.read[i], after[i])
      BY <1>1, <1>3, <1>13, <2>2 DEF Changed
    <3>2. after[i] \in Rows
      BY <3>1, <1>4
    <3>3. claims[i].born = desk.read[i].born => claims[i] = desk.read[i]
      BY <3>1, <1>13
    <3> QED BY ONLY <2>1, <3>1, <3>2, <3>3, UpdatedType
  <2>3. CASE i \notin Changed(after)
    <3>1. claims'[i] = claims[i]
      BY <1>1, <1>13, <2>3
    <3>2. i \in D => after[i] = desk.read[i]
      BY <1>3, <2>3 DEF Changed
    <3> QED BY <2>1, <3>1, <3>2, <1>13
  <2> QED BY <2>2, <2>3
<1>14. ASSUME NEW n \in NewRecords
       PROVE  /\ \A m \in DOMAIN records : m <= n
              /\ records'[n].target \in D
              /\ records'[n] = rec(records'[n].target)
  <2>1. PICK k \in 1..c : n = old + k
    BY <1>11, <1>14
  <2>2. \A m \in DOMAIN records : m <= n
    BY <2>1, <1>6, <1>10
  <2>3. records'[n] = rec(batch[k]) /\ batch[k] \in D
    BY <2>1, <1>6, <1>10
  <2> QED BY <2>2, <2>3, <1>8
<1>15. ASSUME NEW i \in D
       PROVE  \E n \in NewRecords :
                records'[n].target = i /\ \A m \in NewRecords : records'[m].target = i => m = n
  <2>1. PICK k \in 1..c : batch[k] = i
    BY <1>6, <1>15
  <2>2. records'[old + k].target = i /\ old + k \in NewRecords
    BY <2>1, <1>8, <1>10, <1>12, <1>15
  <2>3. ASSUME NEW m \in NewRecords, records'[m].target = i PROVE m = old + k
    <3>1. PICK l \in 1..c : m = old + l
      BY <1>11, <2>3
    <3>2. records'[m] = rec(batch[l]) /\ batch[l] \in D
      BY <3>1, <1>6, <1>10
    <3>3. batch[l] = i
      BY <3>2, <2>3, <1>8
    <3> QED BY <3>1, <3>3, <2>1, <1>6
  <2> QED BY <2>2, <2>3
<1>16. D \subseteq DOMAIN claims \/ D \cap DOMAIN claims = {}
  <2>1. CASE desk.op = "bulk"
    <3>1. ASSUME NEW i \in D PROVE i \in Changed(after)
      <4>1. desk.read[i].review = "pending" /\ after[i] \in Decided("bulk", desk.read[i])
        BY <2>1, <3>1, <1>3
      <4>2. after[i] = [desk.read[i] EXCEPT !.review = "approved", !.action = "bulk"]
        BY <4>1 DEF Decided, StatusAfter
      <4>3. after[i].review = "approved"
        BY <4>2, <3>1 DEF Rows
      <4> QED BY <4>1, <4>3, <3>1, <1>3 DEF Changed
    <3> QED BY <3>1, <1>1
  <2>2. CASE desk.op # "bulk"
    BY <2>2
  <2> QED BY <2>1, <2>2
<1>17. DOMAIN claims' = DOMAIN claims
  BY <1>1
<1>18. \A n \in DOMAIN records : n \in DOMAIN records' /\ records'[n] = records[n]
  BY <1>6, <1>10
<1>19. ASSUME NEW n \in NewRecords
       PROVE  /\ \A m \in DOMAIN records : m <= n
              /\ records'[n].target \in D
              /\ records'[n].born = desk.read[records'[n].target].born
              /\ records'[n].on = IF records'[n].target \in DOMAIN claims
                                  THEN claims[records'[n].target].born ELSE 0
              /\ records'[n].target \in DOMAIN claims
                   => claims'[records'[n].target].review \in
                        {claims[records'[n].target].review, records'[n].status}
              /\ records'[n].target \in DOMAIN claims
                 /\ claims[records'[n].target].born = records'[n].born
                   => claims'[records'[n].target].review = records'[n].status
  BY <1>8, <1>13, <1>14, <1>19
<1> QED BY <1>2, <1>10, <1>13, <1>15, <1>16, <1>17, <1>18, <1>19

\* So the last record written on a row tells its status, and an approval its ground.
LEMMA CommitStep ==
  ASSUME Audited, Commit
  PROVE  Audited'
<1> USE DEF Audited
<1> DEFINE D == DOMAIN desk.read
<1>1. /\ desk' = Idle /\ UNCHANGED <<lastId, imports>>
      /\ records' \in Seq(Records) /\ DOMAIN claims' = DOMAIN claims
  BY CommitEffect
<1>2. \A n \in DOMAIN records : n \in DOMAIN records' /\ records'[n] = records[n]
  BY CommitEffect
<1>3. \A n \in NewRecords :
        /\ \A m \in DOMAIN records : m <= n
        /\ records'[n].target \in D
        /\ records'[n].born = desk.read[records'[n].target].born
        /\ records'[n].on = IF records'[n].target \in DOMAIN claims
                            THEN claims[records'[n].target].born ELSE 0
        /\ records'[n].target \in DOMAIN claims
             => claims'[records'[n].target].review \in
                  {claims[records'[n].target].review, records'[n].status}
        /\ records'[n].target \in DOMAIN claims
           /\ claims[records'[n].target].born = records'[n].born
             => claims'[records'[n].target].review = records'[n].status
  BY CommitEffect
<1>4. \A i \in D : \E n \in NewRecords :
        records'[n].target = i /\ \A m \in NewRecords : records'[m].target = i => m = n
  BY CommitEffect
<1>5. \A i \in DOMAIN claims :
        /\ claims'[i] \in Rows
        /\ claims'[i].born = claims[i].born /\ claims'[i].machine = claims[i].machine
        /\ i \notin D => claims'[i] = claims[i]
  BY CommitEffect
<1>6. \A n \in DOMAIN records' : n \in DOMAIN records \/ n \in NewRecords
  BY DEF NewRecords
<1>7. Stores'
  <2>1. ASSUME NEW n \in NewRecords
        PROVE  /\ records'[n].target \in 1..lastId
               /\ records'[n].born \in 1..imports /\ records'[n].on \in 0..imports
    <3>1. records'[n].target \in 1..lastId /\ records'[n].born \in 1..imports
      BY <2>1, <1>3 DEF OnDesk
    <3>2. \A i \in DOMAIN claims : claims[i].born \in 0..imports
      BY DEF Stores
    <3>3. 0 \in 0..imports
      BY DEF Stores
    <3> QED BY <2>1, <3>1, <3>2, <3>3, <1>3
  <2>2. \A n \in DOMAIN records' :
          /\ records'[n].target \in 1..lastId
          /\ records'[n].born \in 1..imports /\ records'[n].on \in 0..imports
    BY <2>1, <1>2, <1>6 DEF Stores
  <2> QED BY <2>2, <1>1, <1>5 DEF Stores
<1>8. OnDesk'
  BY <1>1 DEF OnDesk, Idle, NoClaims
<1>9. \A i \in DOMAIN claims : Said(i)' = Said(i) \cup {n \in NewRecords : records'[n].target = i}
  BY <1>1, <1>2, <1>3, <1>5, <1>6 DEF Said, NewRecords
<1>10. \A i \in DOMAIN claims : \A n \in Said(i) : n \in DOMAIN records /\ records'[n] = records[n]
  BY <1>2 DEF Said
<1>11. ASSUME NEW i \in D, i \in DOMAIN claims
       PROVE  \E n \in NewRecords :
                /\ n \in Said(i)' /\ \A m \in Said(i)' : m <= n
                /\ claims'[i].review \in {claims[i].review, records'[n].status}
                /\ claims[i].born = records'[n].born => claims'[i].review = records'[n].status
  <2>1. PICK n \in NewRecords :
          records'[n].target = i /\ \A m \in NewRecords : records'[m].target = i => m = n
    BY <1>4, <1>11
  <2>2. n \in Nat
    BY <1>1, LenProperties DEF NewRecords
  <2>3. n \in Said(i)'
    BY <2>1, <1>9, <1>11
  <2>4. ASSUME NEW m \in Said(i)' PROVE m <= n
    <3>1. CASE m \in Said(i)
      BY <3>1, <1>3, <1>10, <1>11
    <3>2. CASE m \in NewRecords /\ records'[m].target = i
      BY <3>2, <2>1, <2>2
    <3> QED BY <2>4, <3>1, <3>2, <1>9, <1>11
  <2> QED BY <2>1, <2>3, <2>4, <1>3, <1>11
<1>12. \A i \in DOMAIN claims : i \notin D => Said(i)' = Said(i)
  BY <1>3, <1>9, SMTT(40)
<1>13. Explained'
  <2> SUFFICES ASSUME NEW i \in DOMAIN claims, claims'[i].review = "approved", ~claims'[i].machine
               PROVE  \E n \in Said(i)' : records'[n].status = "approved"
    BY <1>1 DEF Explained
  <2>1. CASE claims[i].review = "approved"
    <3>1. PICK n \in Said(i) : records[n].status = "approved"
      BY <2>1, <1>5 DEF Explained
    <3> QED BY <3>1, <1>9, <1>10
  <2>2. CASE claims[i].review # "approved"
    <3>1. i \in D
      BY <2>2, <1>5
    <3> QED BY <2>2, <3>1, <1>11
  <2> QED BY <2>1, <2>2
<1>14. LastWordCounts'
  <2> SUFFICES ASSUME NEW i \in DOMAIN claims, Undisturbed(i)'
               PROVE  \/ \E n \in Said(i)' : /\ \A m \in Said(i)' : m <= n
                                             /\ claims'[i].review = records'[n].status
                      \/ /\ Said(i)' = {}
                         /\ claims'[i].review = IF claims'[i].machine THEN "approved" ELSE "pending"
    BY <1>1 DEF LastWordCounts
  <2>1. \A n \in Said(i)' : records'[n].born = claims[i].born
    BY <1>5 DEF Undisturbed
  <2>2. CASE i \in D
    <3>1. PICK n \in NewRecords :
            /\ n \in Said(i)' /\ \A m \in Said(i)' : m <= n
            /\ claims[i].born = records'[n].born => claims'[i].review = records'[n].status
      BY <2>2, <1>11
    <3> QED BY <3>1, <2>1
  <2>3. CASE i \notin D
    <3>1. Said(i)' = Said(i) /\ claims'[i] = claims[i]
      BY <2>3, <1>5, <1>12
    <3>2. Undisturbed(i)
      BY <2>1, <3>1, <1>10 DEF Undisturbed
    <3>3. CASE Said(i) = {}
      BY <3>1, <3>2, <3>3 DEF LastWordCounts
    <3>4. CASE Said(i) # {}
      <4>1. PICK n \in Said(i) : (\A m \in Said(i) : m <= n) /\ claims[i].review = records[n].status
        BY <3>2, <3>4 DEF LastWordCounts
      <4>2. records'[n] = records[n]
        BY <4>1, <1>10
      <4> QED BY <4>1, <4>2, <3>1
    <3> QED BY <3>3, <3>4
  <2> QED BY <2>2, <2>3
<1> QED BY <1>7, <1>8, <1>13, <1>14

LEMMA AuditedStep ==
  ASSUME Audited, [Next]_vars
  PROVE  Audited'
<1> USE DEF Audited
<1>1. ASSUME UNCHANGED <<claims, lastId, imports, records>>
      PROVE  Stores' /\ Explained' /\ LastWordCounts'
  <2>1. Stores'
    BY <1>1 DEF Stores
  <2>2. \A i : Said(i)' = Said(i) /\ Undisturbed(i)' = Undisturbed(i)
    BY <1>1 DEF Said, Undisturbed
  <2>3. Explained'
    BY <1>1, <2>2 DEF Explained
  <2>4. LastWordCounts'
    BY <1>1, <2>2 DEF LastWordCounts
  <2> QED BY <2>1, <2>3, <2>4
<1>2. ASSUME UNCHANGED <<claims, lastId, imports, records>>, UNCHANGED desk \/ desk' = Idle
      PROVE  Audited'
  <2>1. OnDesk'
    BY <1>2 DEF OnDesk, Idle, NoClaims
  <2> QED BY <1>1, <1>2, <2>1
<1>3. CASE Imports
  <2>1. ASSUME NEW cs \in ClaimFiles, NEW ev \in EvidenceFiles, NEW floor \in Floors,
               Import(cs, ev, floor)
        PROVE  Audited'
    BY <2>1, ImportStep
  <2>2. ASSUME NEW e \in EvidenceIds, NEW c \in Contents, ImportElsewhere(e, c) PROVE Audited'
    BY <2>2, <1>2 DEF ImportElsewhere
  <2> QED BY <1>3, <2>1, <2>2 DEF Imports
<1>4. CASE Decisions
  <2>1. ASSUME NEW op \in {"approve", "reject", "regenerate", "edit"}, NEW i \in DOMAIN claims, Read(op, i)
        PROVE  Audited'
    <3>1. /\ desk' = [op |-> op, read |-> Taken({i})]
          /\ UNCHANGED <<claims, lastId, imports, records>>
      BY <2>1 DEF Read, rowVars
    <3>2. OnDesk'
      BY <3>1 DEF OnDesk, Stores, Taken, StatusAfter
    <3> QED BY <1>1, <3>1, <3>2
  <2>2. CASE ReadSupported
    <3>1. /\ desk' = [op |-> "bulk", read |-> Taken(Supported)]
          /\ UNCHANGED <<claims, lastId, imports, records>>
      BY <2>2 DEF ReadSupported, rowVars
    <3>2. OnDesk'
      BY <3>1 DEF OnDesk, Stores, Taken, Supported
    <3> QED BY <1>1, <3>1, <3>2
  <2>3. CASE Commit
    BY <2>3, CommitStep
  <2>4. CASE CommitStale
    BY <2>4, <1>2 DEF CommitStale, rowVars
  <2> QED BY <1>4, <2>1, <2>2, <2>3, <2>4 DEF Decisions
<1>5. CASE Exports
  <2>1. UNCHANGED deskVars
    BY <1>5 DEF Exports, ReadClaims, ReadLinks, StartExport, ReuseExport, WriteFile, WriteManifest
  <2> QED BY <2>1, <1>2 DEF deskVars, rowVars
<1>6. CASE Crash
  BY <1>6, <1>2 DEF Crash, rowVars
<1>7. CASE UNCHANGED vars
  BY <1>7, <1>2 DEF vars, deskVars, rowVars
<1> QED BY <1>3, <1>4, <1>5, <1>6, <1>7 DEF Next

LEMMA AuditedAlways == Spec => []Audited
<1>1. Audited /\ [Next]_vars => Audited'
  BY AuditedStep
<1> QED BY <1>1, AuditedInit, PTL DEF Spec

\* The status of a claim is what its last record says, or the policy where there
\* is none, unless its id changed hands under a decision that was being taken.
THEOREM LastWordCountsHolds == Spec => []LastWordCounts
BY AuditedAlways, PTL DEF Audited

-----------------------------------------------------------------------------
(***************************************************************************)
(* The types.  A link of a claim leads to stored evidence, because a row   *)
(* links only what came with it in one import, no decision changes links,  *)
(* and evidence is overwritten but never deleted.                          *)
(***************************************************************************)
Linking ==
  /\ \A i \in DOMAIN claims : claims[i].links \subseteq DOMAIN evidence
  /\ \A e \in DOMAIN evidence : e \in EvidenceIds /\ evidence[e] \in Contents

LEMMA LinkingInit == ExportInit => Linking
BY DEF ExportInit, Init, Linking, NoClaims

LEMMA LinkingStep ==
  ASSUME Audited, Linking, [Next]_vars
  PROVE  Linking'
<1> USE DEF Linking
<1>1. CASE UNCHANGED <<claims, evidence>>
  BY <1>1
<1>2. ASSUME NEW cs \in ClaimFiles, NEW ev \in EvidenceFiles, NEW floor \in Floors,
             Import(cs, ev, floor)
      PROVE  Linking'
  <2>1. evidence' = [e \in DOMAIN evidence \cup DOMAIN ev |->
                       IF e \in DOMAIN ev THEN ev[e] ELSE evidence[e]]
    BY <1>2 DEF Import
  <2>2. \A i \in DOMAIN claims' : claims'[i].links \subseteq DOMAIN ev
    BY <1>2, ImportEffect DEF Audited, Stores
  <2>3. \A e \in DOMAIN evidence' : e \in EvidenceIds /\ evidence'[e] \in Contents
    BY <2>1, EvidenceFilesAssumption
  <2> QED BY <2>1, <2>2, <2>3
<1>3. ASSUME NEW e \in EvidenceIds, NEW c \in Contents, ImportElsewhere(e, c)
      PROVE  Linking'
  BY <1>3 DEF ImportElsewhere
<1>4. CASE Commit
  <2>1. /\ DOMAIN claims' = DOMAIN claims
        /\ \A i \in DOMAIN claims : claims'[i].links = claims[i].links
    BY <1>4, CommitEffect
  <2>2. UNCHANGED evidence
    BY <1>4 DEF Commit
  <2> QED BY <2>1, <2>2
<1> QED
  BY <1>1, <1>2, <1>3, <1>4
  DEF Next, Imports, Decisions, Exports, Read, ReadSupported, CommitStale, Crash, ReadClaims,
      ReadLinks, StartExport, ReuseExport, WriteFile, WriteManifest, deskVars, rowVars, vars

\* The directory holds files of known formats, all that the manifest lists are
\* there, and the event loop runs one handler at a time.
Directory ==
  /\ DOMAIN disk \subseteq ToSet(Formats)
  /\ manifest.selection \subseteq DOMAIN disk
  /\ desk = Idle \/ export = NoExport

LEMMA DirectoryInit == ExportInit => Directory
BY DEF ExportInit, Init, PackageInit, Directory, NoClaims

LEMMA DirectoryStep ==
  ASSUME Rendered, ExportTypes, Directory, [Next]_vars
  PROVE  Directory'
<1> USE DEF Directory
<1>1. CASE UNCHANGED <<disk, manifest, desk, export>>
  BY <1>1
<1>2. CASE Imports
  BY <1>1, <1>2 DEF Imports, Import, ImportElsewhere, packageVars
<1>3. CASE Decisions
  BY <1>3 DEF Decisions, packageVars
<1>4. ASSUME NEW S, ReadClaims(S) PROVE Directory'
  BY <1>4 DEF ReadClaims, LoopFree, deskVars
<1>5. CASE ReadLinks \/ StartExport
  BY <1>5 DEF ReadLinks, StartExport, deskVars, NoExport
<1>6. ASSUME NEW f \in ToSet(Formats), WriteFile(f) PROVE Directory'
  <2>1. export # NoExport
    BY <1>6 DEF WriteFile, NoExport
  <2>2. desk' = Idle /\ UNCHANGED manifest
    BY <1>6, <2>1 DEF WriteFile, deskVars
  <2>3. DOMAIN disk' = DOMAIN disk \cup {f}
    BY <1>6 DEF WriteFile
  <2> QED BY <2>2, <2>3
<1>7. CASE WriteManifest
  <2>1. UNCHANGED <<disk, desk>> /\ export' = NoExport
    BY <1>7 DEF WriteManifest, deskVars
  <2>2. manifest'.selection \subseteq DOMAIN disk
    BY <1>7 DEF WriteManifest, Rendered
  <2> QED BY <2>1, <2>2
<1>8. CASE Crash \/ ReuseExport
  BY <1>8 DEF Crash, ReuseExport, deskVars
<1> QED
  BY <1>1, <1>2, <1>3, <1>4, <1>5, <1>6, <1>7, <1>8
  DEF Next, Exports, deskVars, packageVars, vars

\* Every stored row is one that the columns can hold, its links lead to stored
\* evidence, and a manifest lists no file that is missing.
THEOREM TypeCorrect == Spec => []TypeOK
<1> DEFINE I == Audited /\ Linking /\ Rendered /\ ExportTypes /\ Directory
<1>1. ExportInit => I
  BY AuditedInit, LinkingInit, RenderedInit, DirectoryInit
<1>2. I /\ [Next]_vars => I'
  BY AuditedStep, LinkingStep, RenderedStep, DirectoryStep
<1>3. I => TypeOK
  BY DEF Audited, Stores, Linking, Directory, TypeOK
<1> HIDE DEF I
<1> QED BY <1>1, <1>2, <1>3, PTL DEF Spec

-----------------------------------------------------------------------------
(***************************************************************************)
(* The packages.  Readiness is decided on the claims that were read, and   *)
(* what explains an approval then is on the trail for good; no record is   *)
(* added while an export is in progress, and no evidence is ever deleted,  *)
(* so what the later queries find completes what the first one read.       *)
(***************************************************************************)
Ids(p) == {c.id : c \in p.claims}
Sound(p) == Whole(p) /\ Grounded(p)

InHand ==
  export.step # "none" =>
    /\ export.package.excluded = {}
    /\ \A c \in export.package.claims :
         /\ c = [id |-> c.id, row |-> c.row] /\ c.row \in Rows /\ c.row.ver # "failed"
         /\ c.row.machine \/ \E n \in DOMAIN records : /\ records[n].target = c.id
                                                       /\ records[n].on = c.row.born
                                                       /\ records[n].status = "approved"
         /\ export.step = "links" => c.row.links \subseteq DOMAIN evidence

Complete ==
  export.step = "files" =>
    Sound(export.package) /\ export.package.records = RecordsOf(Ids(export.package))

\* Nothing is left to review when a task is ready.
LEMMA ReadyIsWhole ==
  ASSUME Stores, Ready
  PROVE  \A i \in DOMAIN claims : claims[i].review = "approved" /\ claims[i].ver # "failed"
<1>1. Blockers("generation_completed", "ready", "pass", Marks, TRUE) = {}
  BY DEF Ready, CanDeliver
<1>2. "rejected" \notin Marks /\ "pending" \notin Marks /\ "unsupported" \notin Marks
  BY <1>1 DEF Blockers
<1>3. /\ Having("rejected") = {} /\ Having("pending") = {} /\ Having("regenerate_requested") = {}
      /\ \A i \in DOMAIN claims : claims[i].ver # "failed"
  BY <1>2 DEF Marks
<1> QED
  <2> TAKE i \in DOMAIN claims
  <2>1. claims[i].review \in Reviews
    BY DEF Stores, Rows
  <2> QED BY <2>1, <1>3 DEF Having, Reviews

\* The claims that a ready task puts into its package.
LEMMA ClaimsReadEffect ==
  ASSUME Stores, NEW S, ReadClaims(S)
  PROVE  /\ export'.step = "claims" /\ export'.package.excluded = {}
         /\ Ids(export'.package) = DOMAIN claims
         /\ \A c \in export'.package.claims : \E i \in DOMAIN claims :
              /\ c = [id |-> i, row |-> [claims[i] EXCEPT !.links = {}]]
              /\ claims[i].review = "approved" /\ claims[i].ver # "failed"
<1>1. \A i \in DOMAIN claims : claims[i].review = "approved" /\ claims[i].ver # "failed"
  BY ReadyIsWhole DEF ReadClaims
<1>2. Having("approved") = DOMAIN claims
  BY <1>1 DEF Having
<1>3. /\ export'.step = "claims"
      /\ export'.package.claims = ClaimRows(DOMAIN claims)
      /\ export'.package.excluded = {}
  BY <1>2, ReadClaimsEffect DEF ClaimRows
<1>4. \A i : [id |-> i, row |-> [claims[i] EXCEPT !.links = {}]].id = i
  OBVIOUS
<1>5. Ids(export'.package) = DOMAIN claims
  <2>1. \A i \in DOMAIN claims : i \in Ids(export'.package)
    <3> TAKE i \in DOMAIN claims
    <3>1. [id |-> i, row |-> [claims[i] EXCEPT !.links = {}]] \in export'.package.claims
      BY <1>3 DEF ClaimRows
    <3> QED BY <3>1, <1>4, Zenon DEF Ids
  <2>2. ASSUME NEW x \in Ids(export'.package) PROVE x \in DOMAIN claims
    <3>1. PICK c \in export'.package.claims : x = c.id
      BY <2>2, Zenon DEF Ids
    <3>2. PICK i \in DOMAIN claims : c = [id |-> i, row |-> [claims[i] EXCEPT !.links = {}]]
      BY <1>3, <3>1, Zenon DEF ClaimRows
    <3> QED BY <3>1, <3>2, <1>4
  <2> QED BY <2>1, <2>2
<1> QED BY <1>1, <1>3, <1>5 DEF ClaimRows

\* The query of the links changes nothing else of a claim.
LEMMA LinksReadEffect ==
  ASSUME Stores, ExportTypes, InHand, ReadLinks
  PROVE  /\ export.step = "claims" /\ export'.step = "links"
         /\ export'.package.excluded = {}
         /\ \A d \in export'.package.claims : \E c \in export.package.claims :
              /\ d = [id |-> c.id, row |-> d.row] /\ d.row \in Rows
              /\ d.row.born = c.row.born /\ d.row.machine = c.row.machine /\ d.row.ver = c.row.ver
              /\ d.row.links = IF c.id \in DOMAIN claims THEN claims[c.id].links ELSE {}
         /\ \A c \in export.package.claims : \E d \in export'.package.claims :
              d.id = c.id /\ d.row.born = c.row.born
<1>1. /\ export.step = "claims" /\ export'.step = "links"
      /\ export'.package.claims = WithLinks(export.package.claims)
      /\ export'.package.excluded = {}
  <2>1. export.step = "claims"
    BY DEF ReadLinks
  <2>2. export.package.excluded = {}
    BY <2>1 DEF InHand
  <2>3. export' = [step |-> "links", selection |-> export.selection, todo |-> export.todo,
                   package |-> [claims |-> WithLinks(export.package.claims),
                                excluded |-> export.package.excluded,
                                evidence |-> export.package.evidence,
                                records |-> export.package.records]]
    BY ReadLinksEffect
  <2> QED BY ONLY <2>1, <2>2, <2>3
<1> DEFINE L(c) == IF c.id \in DOMAIN claims THEN claims[c.id].links ELSE {}
           W(c) == [c EXCEPT !.row.links = L(c)]
<1>2. ASSUME NEW c \in export.package.claims
      PROVE  /\ W(c) = [id |-> c.id, row |-> W(c).row]
             /\ W(c).row.born = c.row.born /\ W(c).row.machine = c.row.machine
             /\ W(c).row.ver = c.row.ver /\ W(c).row.links = L(c)
             /\ L(c) \in SUBSET EvidenceIds => W(c).row \in Rows
  <2>1. c = [id |-> c.id, row |-> c.row] /\ c.row \in Rows
    BY <1>1, <1>2 DEF InHand
  <2> DEFINE l == L(c)
             row == c.row
  <2>2. W(c) = [id |-> c.id, row |-> [row EXCEPT !.links = l]]
    BY <2>1
  <2> HIDE DEF l, row, W
  <2>3. W(c).row = [row EXCEPT !.links = l] /\ W(c) = [id |-> c.id, row |-> W(c).row]
    BY <2>2
  <2>4. row \in Rows
    BY <2>1 DEF row
  <2>5. /\ [row EXCEPT !.links = l].born = row.born /\ [row EXCEPT !.links = l].machine = row.machine
        /\ [row EXCEPT !.links = l].ver = row.ver /\ [row EXCEPT !.links = l].links = l
        /\ l \in SUBSET EvidenceIds => [row EXCEPT !.links = l] \in Rows
    BY <2>4 DEF Rows
  <2> QED BY <2>3, <2>5 DEF l, row
<1>3. \A c \in export.package.claims : L(c) \in SUBSET EvidenceIds
  BY DEF Stores, Rows
<1>4. export'.package.claims = {W(c) : c \in export.package.claims}
  BY <1>1 DEF WithLinks
<1> HIDE DEF W
<1>5. \A d \in export'.package.claims : \E c \in export.package.claims : d = W(c)
  BY <1>4, Zenon
<1>6. \A c \in export.package.claims : W(c) \in export'.package.claims /\ W(c).id = c.id
  BY <1>2, <1>4
<1>7. ASSUME NEW d \in export'.package.claims
      PROVE  \E c \in export.package.claims :
               /\ d = [id |-> c.id, row |-> d.row] /\ d.row \in Rows
               /\ d.row.born = c.row.born /\ d.row.machine = c.row.machine /\ d.row.ver = c.row.ver
               /\ d.row.links = L(c)
  BY <1>2, <1>3, <1>5
<1> QED BY <1>1, <1>2, <1>6, <1>7

\* The finished package: the claims as they are, each with its ground on the
\* trail, and all the evidence they cite.
LEMMA AssembledIsSound ==
  ASSUME ExportTypes, InHand, export.step = "links"
  PROVE  /\ Sound(Assembled(export.package))
         /\ Assembled(export.package).claims = export.package.claims
         /\ Assembled(export.package).records = RecordsOf(Ids(export.package))
<1> DEFINE p == export.package
           q == Assembled(export.package)
<1>1. /\ q.claims = p.claims /\ q.excluded = {}
      /\ q.evidence = {[id |-> e, content |-> evidence[e]] : e \in UNION {c.row.links : c \in p.claims}}
      /\ q.records = RecordsOf(Ids(p))
  <2> DEFINE E == {[id |-> e, content |-> evidence[e]] : e \in UNION {c.row.links : c \in p.claims}}
             R == RecordsOf({c.id : c \in p.claims \cup p.excluded})
  <2>1. p.excluded = {}
    BY DEF InHand
  <2>2. R = RecordsOf(Ids(p))
    BY <2>1 DEF Ids
  <2>3. PackageShape(p)
    BY DEF ExportTypes
  <2> HIDE DEF p
  <2>4. q = [claims |-> p.claims, excluded |-> p.excluded, evidence |-> E, records |-> R]
    BY <2>3, AssembledIs DEF p
  <2> HIDE DEF q, E, R
  <2>5. q.claims = p.claims /\ q.excluded = p.excluded /\ q.evidence = E /\ q.records = R
    BY <2>4
  <2> QED BY <2>1, <2>2, <2>5 DEF E
<1> HIDE DEF p, q
<1>2. ASSUME NEW c \in q.claims
      PROVE  c.row.ver # "failed" /\ c.row.links \subseteq {e.id : e \in q.evidence}
  <2>1. c.row.ver # "failed" /\ c \in p.claims
    BY <1>1, <1>2 DEF InHand, p
  <2>2. ASSUME NEW x \in c.row.links PROVE x \in {e.id : e \in q.evidence}
    <3>1. [id |-> x, content |-> evidence[x]] \in q.evidence
      <4>1. x \in UNION {b.row.links : b \in p.claims}
        BY <2>1, <2>2
      <4> QED BY <4>1, <1>1
    <3>2. [id |-> x, content |-> evidence[x]].id = x
      OBVIOUS
    <3> QED BY <3>1, <3>2, Zenon
  <2> QED BY <2>1, <2>2
<1>3. Whole(q)
  BY <1>1, <1>2 DEF Whole
<1>4. ASSUME NEW c \in q.claims, ~c.row.machine
      PROVE  \E r \in q.records : /\ r.record.target = c.id /\ r.record.on = c.row.born
                                 /\ r.record.status = "approved"
  <2>1. c \in p.claims
    BY <1>1, <1>4
  <2>2. PICK n \in DOMAIN records : /\ records[n].target = c.id /\ records[n].on = c.row.born
                                    /\ records[n].status = "approved"
    BY <2>1, <1>4 DEF InHand, p
  <2>3. [id |-> n, record |-> records[n]] \in q.records
    <3>1. c.id \in Ids(p)
      BY <2>1 DEF Ids
    <3> QED BY <3>1, <2>2, <1>1 DEF RecordsOf
  <2> QED BY <2>2, <2>3
<1>5. Grounded(q)
  BY <1>4 DEF Grounded
<1> QED BY <1>1, <1>3, <1>5 DEF Sound, p, q

LEMMA InHandInit == ExportInit => InHand /\ Complete
BY DEF ExportInit, PackageInit, InHand, Complete, NoExport

LEMMA InHandStep ==
  ASSUME Audited, Linking, ExportTypes, Directory, InHand, Complete, [Next]_vars
  PROVE  InHand' /\ Complete'
<1>1. ASSUME UNCHANGED <<export, records>>, DOMAIN evidence \subseteq DOMAIN evidence'
      PROVE  InHand' /\ Complete'
  <2>1. InHand'
    BY <1>1 DEF InHand
  <2>2. RecordsOf(Ids(export.package))' = RecordsOf(Ids(export.package))
    BY <1>1 DEF RecordsOf, Ids
  <2>3. Complete'
    BY <1>1, <2>2 DEF Complete, Sound, Whole, Grounded
  <2> QED BY <2>1, <2>3
<1>2. CASE export' = NoExport
  BY <1>2 DEF InHand, Complete, NoExport
<1>3. CASE Imports
  BY <1>1, <1>3 DEF Imports, Import, ImportElsewhere, packageVars
<1>4. CASE Decisions
  BY <1>2, <1>4 DEF Decisions, packageVars
<1>5. ASSUME NEW S, ReadClaims(S) PROVE InHand' /\ Complete'
  <2>1. /\ export'.step = "claims" /\ export'.package.excluded = {}
        /\ \A c \in export'.package.claims : \E i \in DOMAIN claims :
             /\ c = [id |-> i, row |-> [claims[i] EXCEPT !.links = {}]]
             /\ claims[i].review = "approved" /\ claims[i].ver # "failed"
    BY <1>5, ClaimsReadEffect DEF Audited
  <2>2. UNCHANGED records
    BY <1>5 DEF ReadClaims, deskVars
  <2>3. ASSUME NEW c \in export'.package.claims
        PROVE  /\ c = [id |-> c.id, row |-> c.row] /\ c.row \in Rows /\ c.row.ver # "failed"
               /\ c.row.machine \/ \E n \in DOMAIN records : /\ records[n].target = c.id
                                                             /\ records[n].on = c.row.born
                                                             /\ records[n].status = "approved"
    <3>1. PICK i \in DOMAIN claims :
            /\ c = [id |-> i, row |-> [claims[i] EXCEPT !.links = {}]]
            /\ claims[i].review = "approved" /\ claims[i].ver # "failed"
      BY <2>1
    <3> DEFINE row == claims[i]
               read == [claims[i] EXCEPT !.links = {}]
    <3>2. row \in Rows
      BY DEF Audited, Stores
    <3>3. read \in Rows /\ read.ver = row.ver /\ read.machine = row.machine /\ read.born = row.born
      <4> HIDE DEF row
      <4>1. read = [row EXCEPT !.links = {}]
        BY DEF row
      <4> QED BY <3>2, <4>1 DEF Rows
    <3>4. c = [id |-> i, row |-> read]
      BY <3>1
    <3>5. row.machine \/ \E n \in DOMAIN records : /\ records[n].target = i
                                                  /\ records[n].on = row.born
                                                  /\ records[n].status = "approved"
      BY <3>1 DEF Audited, Explained, Said
    <3>6. row.ver # "failed"
      BY <3>1
    <3> HIDE DEF row, read
    <3>7. c.id = i /\ c.row = read
      BY <3>4
    <3> QED BY <3>3, <3>4, <3>5, <3>6, <3>7
  <2> QED BY <2>1, <2>2, <2>3 DEF InHand, Complete
<1>6. CASE ReadLinks
  <2>1. /\ export.step = "claims" /\ export'.step = "links"
        /\ export'.package.excluded = {}
        /\ \A d \in export'.package.claims : \E c \in export.package.claims :
             /\ d = [id |-> c.id, row |-> d.row] /\ d.row \in Rows
             /\ d.row.born = c.row.born /\ d.row.machine = c.row.machine /\ d.row.ver = c.row.ver
             /\ d.row.links = IF c.id \in DOMAIN claims THEN claims[c.id].links ELSE {}
    BY <1>6, LinksReadEffect DEF Audited
  <2>2. UNCHANGED <<records, evidence>>
    BY <1>6 DEF ReadLinks, deskVars, rowVars
  <2>3. ASSUME NEW d \in export'.package.claims
        PROVE  /\ d = [id |-> d.id, row |-> d.row] /\ d.row \in Rows /\ d.row.ver # "failed"
               /\ d.row.machine \/ \E n \in DOMAIN records : /\ records[n].target = d.id
                                                             /\ records[n].on = d.row.born
                                                             /\ records[n].status = "approved"
               /\ d.row.links \subseteq DOMAIN evidence
    <3>1. PICK c \in export.package.claims :
            /\ d = [id |-> c.id, row |-> d.row] /\ d.row \in Rows
            /\ d.row.born = c.row.born /\ d.row.machine = c.row.machine /\ d.row.ver = c.row.ver
            /\ d.row.links = IF c.id \in DOMAIN claims THEN claims[c.id].links ELSE {}
      BY <2>1
    <3>2. d.id = c.id
      BY <3>1
    <3>3. /\ c.row.ver # "failed"
          /\ c.row.machine \/ \E n \in DOMAIN records : /\ records[n].target = c.id
                                                        /\ records[n].on = c.row.born
                                                        /\ records[n].status = "approved"
      BY <2>1 DEF InHand
    <3> QED BY <3>1, <3>2, <3>3 DEF Linking
  <2> QED BY <2>1, <2>2, <2>3 DEF InHand, Complete
<1>7. CASE StartExport
  <2>1. export' = [step |-> "files", package |-> Assembled(export.package),
                   selection |-> export.selection, todo |-> export.selection]
    BY <1>7, StartExportEffect
  <2>2. export.step = "links" /\ UNCHANGED <<records, evidence>>
    BY <1>7 DEF StartExport, deskVars, rowVars
  <2> DEFINE q == Assembled(export.package)
  <2>3. Sound(q) /\ q.claims = export.package.claims /\ q.records = RecordsOf(Ids(export.package))
    BY <2>2, AssembledIsSound
  <2>4. q.excluded = {}
    BY <2>3 DEF Sound, Whole
  <2> HIDE DEF q
  <2>5. export'.package = q /\ export'.step = "files"
    BY <2>1 DEF q
  <2>6. InHand'
    BY <2>2, <2>3, <2>4, <2>5 DEF InHand
  <2>7. RecordsOf(Ids(export.package))' = RecordsOf(Ids(export.package))
    BY <2>2, <2>3, <2>5 DEF RecordsOf, Ids
  <2> QED BY <2>3, <2>5, <2>6, <2>7 DEF Complete, Sound, Whole, Grounded
<1>8. ASSUME NEW f, WriteFile(f) PROVE InHand' /\ Complete'
  <2>1. /\ export.step = "files" /\ export'.step = "files" /\ export'.package = export.package
        /\ UNCHANGED <<records, evidence>>
    BY <1>8, WriteFileEffect DEF WriteFile, deskVars, rowVars
  <2>2. RecordsOf(Ids(export.package))' = RecordsOf(Ids(export.package))
    BY <2>1 DEF RecordsOf, Ids
  <2>3. InHand'
    BY <2>1 DEF InHand
  <2> QED BY <2>1, <2>2, <2>3 DEF Complete, Sound, Whole, Grounded
<1> QED
  BY <1>1, <1>2, <1>3, <1>4, <1>5, <1>6, <1>7, <1>8
  DEF Next, Exports, ReuseExport, WriteManifest, Crash, deskVars, rowVars, packageVars, vars

PackagesSound == \A p \in {manifest.package, returned.package} : Sound(p)

LEMMA PackagesSoundStep ==
  ASSUME ExportTypes, InHand, Complete, PackagesSound, [Next]_vars
  PROVE  PackagesSound'
<1> USE DEF PackagesSound
<1>1. CASE UNCHANGED <<manifest, returned>>
  BY <1>1
<1>2. CASE WriteManifest
  BY <1>2 DEF WriteManifest, Complete
<1>3. CASE ReuseExport
  <2>1. export.step = "links" /\ returned'.package = Assembled(export.package) /\ UNCHANGED manifest
    BY <1>3 DEF ReuseExport
  <2> QED BY <2>1, AssembledIsSound
<1> QED
  BY <1>1, <1>2, <1>3
  DEF Next, Imports, Decisions, Exports, ReadClaims, ReadLinks, StartExport, WriteFile, Crash,
      packageVars, vars

Delivering ==
  /\ Audited /\ Linking /\ Rendered /\ ExportTypes /\ Directory
  /\ InHand /\ Complete /\ PackagesSound

LEMMA DeliveringAlways == Spec => []Delivering
<1>1. ExportInit => PackagesSound
  BY DEF ExportInit, PackageInit, PackagesSound, Sound, Whole, Grounded, NoPackage
<1>2. Delivering /\ [Next]_vars => Delivering'
  BY AuditedStep, LinkingStep, RenderedStep, DirectoryStep, InHandStep, PackagesSoundStep
  DEF Delivering
<1>3. ExportInit => Delivering
  BY <1>1, AuditedInit, LinkingInit, RenderedInit, DirectoryInit, InHandInit DEF Delivering
<1> QED BY <1>2, <1>3, PTL DEF Spec

\* No package that is written, stored or answered lacks a claim among those it
\* read, holds one still open, approves one that failed verification, or cites
\* evidence it does not hold.
THEOREM PackageIsWholeHolds == Spec => []PackageIsWhole
<1>1. Delivering => PackageIsWhole
  BY DEF Delivering, Complete, PackagesSound, Sound, PackageIsWhole, Packages
<1> QED BY <1>1, DeliveringAlways, PTL

\* Each approved claim of a package is there with the machine's approval or with
\* the record that approved the very row that was read.
THEOREM GroundsTravelHolds == Spec => []GroundsTravel
<1>1. Delivering => GroundsTravel
  BY DEF Delivering, Complete, PackagesSound, Sound, GroundsTravel, Packages
<1> QED BY <1>1, DeliveringAlways, PTL

-----------------------------------------------------------------------------
(***************************************************************************)
(* The register: one step of it for each import, commit, first query of an *)
(* export and answer, none for the steps in between.                       *)
(***************************************************************************)
Pairs(p) == {[claim |-> c.id, of |-> c.row.born] : c \in p.claims}
NamedRecords(ids) == {Named(r.record) : r \in RecordsOf(ids)}

LEMMA PreparedIs ==
  PackageShape(export.package)
    => Prepared = [claims |-> Pairs(export.package), records |-> NamedRecords(Ids(export.package))]
<1> SUFFICES ASSUME PackageShape(export.package)
             PROVE  Prepared = [claims |-> Pairs(export.package),
                                records |-> NamedRecords(Ids(export.package))]
  OBVIOUS
<1> DEFINE p == export.package
           R == RecordsOf(Ids(p))
           q == [p EXCEPT !.records = R]
<1>1. Prepared = Content(q)
  BY DEF Prepared, Ids
<1>2. q.claims = p.claims /\ q.records = R
  <2> HIDE DEF R
  <2> QED BY DEF PackageShape
<1> HIDE DEF q
<1> QED BY <1>1, <1>2 DEF Content, Pairs, NamedRecords

\* What is answered as a finished package is what was in preparation.
LEMMA FinishedIsPrepared ==
  ASSUME PackageShape(export.package), NEW p, p.claims = export.package.claims,
         p.records = RecordsOf(Ids(export.package))
  PROVE  Content(p) = Prepared
BY PreparedIs DEF Content, Pairs, NamedRecords

\* A step that takes each claim of the package to one of the same id and row keeps
\* the names in it.
LEMMA SameNames ==
  ASSUME \A d \in export'.package.claims : \E c \in export.package.claims :
           d.id = c.id /\ d.row.born = c.row.born,
         \A c \in export.package.claims : \E d \in export'.package.claims :
           d.id = c.id /\ d.row.born = c.row.born
  PROVE  Pairs(export.package)' = Pairs(export.package) /\ Ids(export.package)' = Ids(export.package)
<1> DEFINE old == export.package
           new == export'.package
<1>1. ASSUME NEW p, NEW q,
             \A d \in p.claims : \E c \in q.claims : d.id = c.id /\ d.row.born = c.row.born
      PROVE  Pairs(p) \subseteq Pairs(q) /\ Ids(p) \subseteq Ids(q)
  <2>1. ASSUME NEW x \in Pairs(p) PROVE x \in Pairs(q)
    <3>1. PICK d \in p.claims : x = [claim |-> d.id, of |-> d.row.born]
      BY <2>1, Zenon DEF Pairs
    <3>2. PICK c \in q.claims : d.id = c.id /\ d.row.born = c.row.born
      BY <1>1
    <3>3. x = [claim |-> c.id, of |-> c.row.born]
      BY <3>1, <3>2
    <3> QED BY <3>3, Zenon DEF Pairs
  <2>2. ASSUME NEW x \in Ids(p) PROVE x \in Ids(q)
    <3>1. PICK d \in p.claims : x = d.id
      BY <2>2, Zenon DEF Ids
    <3>2. PICK c \in q.claims : d.id = c.id /\ d.row.born = c.row.born
      BY <1>1
    <3> QED BY <3>1, <3>2, Zenon DEF Ids
  <2> QED BY <2>1, <2>2
<1>2. /\ \A d \in new.claims : \E c \in old.claims : d.id = c.id /\ d.row.born = c.row.born
      /\ \A c \in old.claims : \E d \in new.claims : c.id = d.id /\ c.row.born = d.row.born
  OBVIOUS
<1>3. Pairs(export.package)' = Pairs(new) /\ Ids(export.package)' = Ids(new)
  BY DEF Pairs, Ids
<1> HIDE DEF old, new
<1>4. Pairs(new) \subseteq Pairs(old) /\ Ids(new) \subseteq Ids(old)
  BY <1>1, <1>2, Zenon
<1>5. Pairs(old) \subseteq Pairs(new) /\ Ids(old) \subseteq Ids(new)
  BY <1>1, <1>2, Zenon
<1>6. Pairs(new) = Pairs(old) /\ Ids(new) = Ids(old)
  BY <1>4, <1>5
<1> QED BY <1>3, <1>6 DEF old

LEMMA PreparedStays ==
  ASSUME PackageShape(export.package), PackageShape(export.package)', UNCHANGED records,
         Pairs(export.package)' = Pairs(export.package), Ids(export.package)' = Ids(export.package)
  PROVE  Prepared' = Prepared
<1>1. NamedRecords(Ids(export.package))' = NamedRecords(Ids(export.package))
  BY DEF NamedRecords, RecordsOf
<1>2. (Prepared = [claims |-> Pairs(export.package), records |-> NamedRecords(Ids(export.package))])'
  BY ONLY PackageShape(export.package)', PreparedIs, PTL
<1> QED BY <1>1, <1>2, PreparedIs

\* The claims a ready task puts into its package, with what the trail says of
\* their slots, are its register.
LEMMA PreparedIsSnapshot ==
  ASSUME Stores, ExportTypes', NEW S, ReadClaims(S)
  PROVE  Prepared' = Register!Snapshot /\ Register!AllApproved
<1> DEFINE trail == [n \in DOMAIN records |-> Named(records[n])]
           register == [i \in DOMAIN claims |-> [of |-> claims[i].born, status |-> claims[i].review]]
<1>1. /\ Ids(export'.package) = DOMAIN claims
      /\ \A c \in export'.package.claims : \E i \in DOMAIN claims :
           /\ c = [id |-> i, row |-> [claims[i] EXCEPT !.links = {}]]
           /\ claims[i].review = "approved"
  BY ClaimsReadEffect
<1>2. UNCHANGED records /\ \A i \in DOMAIN claims : claims[i] \in Rows
  BY DEF ReadClaims, deskVars, Stores
<1>3. ASSUME NEW c \in export'.package.claims
      PROVE  \E i \in DOMAIN claims : c.id = i /\ c.row.born = claims[i].born
  <2>1. PICK i \in DOMAIN claims : c = [id |-> i, row |-> [claims[i] EXCEPT !.links = {}]]
    BY <1>1
  <2>2. [claims[i] EXCEPT !.links = {}].born = claims[i].born
    BY <1>2 DEF Rows
  <2>3. c.id = i /\ c.row = [claims[i] EXCEPT !.links = {}]
    BY <2>1
  <2> QED BY <2>2, <2>3
<1>4. Pairs(export'.package) = {[claim |-> i, of |-> register[i].of] : i \in DOMAIN register}
  <2>1. \A i \in DOMAIN claims : register[i].of = claims[i].born
    OBVIOUS
  <2> HIDE DEF register
  <2>2. DOMAIN register = DOMAIN claims
    BY DEF register
  <2>3. ASSUME NEW x \in Pairs(export'.package)
        PROVE  x \in {[claim |-> i, of |-> register[i].of] : i \in DOMAIN register}
    <3>1. PICK c \in export'.package.claims : x = [claim |-> c.id, of |-> c.row.born]
      BY <2>3 DEF Pairs
    <3>2. PICK i \in DOMAIN claims : c.id = i /\ c.row.born = claims[i].born
      BY <1>3
    <3> QED BY <3>1, <3>2, <2>1, <2>2
  <2>4. ASSUME NEW i \in DOMAIN claims PROVE [claim |-> i, of |-> register[i].of] \in Pairs(export'.package)
    <3>1. i \in Ids(export'.package)
      BY <1>1, <2>4
    <3>2. PICK c \in export'.package.claims : i = c.id
      BY <3>1, Zenon DEF Ids
    <3>3. c.row.born = claims[i].born
      BY <1>3, <3>2
    <3>4. [claim |-> c.id, of |-> c.row.born] = [claim |-> i, of |-> register[i].of]
      BY <3>2, <3>3, <2>1
    <3>5. [claim |-> c.id, of |-> c.row.born] \in Pairs(export'.package)
      BY Zenon DEF Pairs
    <3> QED BY <3>4, <3>5
  <2> QED BY <2>2, <2>3, <2>4
<1>5. NamedRecords(DOMAIN claims) =
        {s \in {trail[n] : n \in DOMAIN trail} : s.claim \in DOMAIN claims}
  <2>1. \A n \in DOMAIN records : trail[n] = Named(records[n]) /\ Named(records[n]).claim = records[n].target
    BY DEF Named
  <2>2. DOMAIN trail = DOMAIN records
    OBVIOUS
  <2> HIDE DEF trail
  <2>3. ASSUME NEW s \in NamedRecords(DOMAIN claims)
        PROVE  s \in {trail[n] : n \in DOMAIN trail} /\ s.claim \in DOMAIN claims
    <3>1. PICK r \in RecordsOf(DOMAIN claims) : s = Named(r.record)
      BY <2>3, Zenon DEF NamedRecords
    <3>2. PICK n \in DOMAIN records :
            records[n].target \in DOMAIN claims /\ r = [id |-> n, record |-> records[n]]
      BY <3>1 DEF RecordsOf
    <3> QED BY <3>1, <3>2, <2>1, <2>2
  <2>4. ASSUME NEW n \in DOMAIN records, records[n].target \in DOMAIN claims
        PROVE  Named(records[n]) \in NamedRecords(DOMAIN claims)
    <3>1. [id |-> n, record |-> records[n]] \in RecordsOf(DOMAIN claims)
      BY <2>4 DEF RecordsOf
    <3>2. [id |-> n, record |-> records[n]].record = records[n]
      OBVIOUS
    <3> QED BY <3>1, <3>2, Zenon DEF NamedRecords
  <2>5. ASSUME NEW s \in {trail[n] : n \in DOMAIN trail}, s.claim \in DOMAIN claims
        PROVE  s \in NamedRecords(DOMAIN claims)
    <3>1. PICK n \in DOMAIN records : s = Named(records[n])
      BY <2>1, <2>2, <2>5
    <3> QED BY <3>1, <2>1, <2>4, <2>5
  <2> QED BY <2>3, <2>5
<1>6. NamedRecords(DOMAIN claims)' = {Named(r.record) : r \in RecordsOf(DOMAIN claims)'}
  BY DEF NamedRecords
<1>7. Prepared' = [claims |-> Pairs(export'.package),
                   records |-> {Named(r.record) : r \in RecordsOf(Ids(export'.package))}]
  <2>1. PackageShape(export.package)'
    BY DEF ExportTypes
  <2> HIDE DEF trail, register
  <2>2. (Prepared = [claims |-> Pairs(export.package), records |-> NamedRecords(Ids(export.package))])'
    BY ONLY <2>1, PreparedIs, PTL
  <2>3. RecordsOf(Ids(export.package))' = RecordsOf(Ids(export'.package))
    BY <1>2 DEF RecordsOf, Ids
  <2> QED BY <2>2, <2>3 DEF Pairs, NamedRecords
<1>8. Register!Snapshot =
        [claims |-> {[claim |-> i, of |-> register[i].of] : i \in DOMAIN register},
         records |-> {s \in {trail[n] : n \in DOMAIN trail} : s.claim \in DOMAIN register}]
  BY DEF Register!Snapshot, Register!Range
<1>9. Register!AllApproved
  BY ReadyIsWhole DEF Register!AllApproved, ReadClaims
<1>10. DOMAIN register = DOMAIN claims
  OBVIOUS
<1> HIDE DEF trail, register
<1> QED BY <1>1, <1>4, <1>5, <1>7, <1>8, <1>9, <1>10 DEF NamedRecords

LEMMA RegisterInit == ExportInit => Register!Init
<1> SUFFICES ASSUME ExportInit PROVE Register!Init
  OBVIOUS
<1>1. claims = NoClaims /\ imports = 0 /\ records = <<>>
  BY DEF ExportInit, Init
<1>2. export = NoExport /\ returned.selection = {}
  BY DEF ExportInit, PackageInit
<1>3. DOMAIN claims = {} /\ DOMAIN records = {} /\ 1..imports = {}
  BY <1>1 DEF NoClaims
<1>4. [n \in DOMAIN records |-> Named(records[n])] = <<>>
  BY <1>3
<1>5. [i \in DOMAIN claims |-> [of |-> claims[i].born, status |-> claims[i].review]] =
        [i \in {} |-> "empty"]
  BY <1>3
<1> QED BY <1>2, <1>3, <1>4, <1>5 DEF Register!Init

LEMMA ImportRefines ==
  ASSUME Audited, NEW cs \in ClaimFiles, NEW ev \in EvidenceFiles, NEW floor \in Floors,
         Import(cs, ev, floor), UNCHANGED packageVars
  PROVE  Register!Import
<1> DEFINE register == [i \in DOMAIN claims |-> [of |-> claims[i].born, status |-> claims[i].review]]
<1>1. /\ imports \in Nat /\ imports' = imports + 1
      /\ UNCHANGED <<records, desk>>
      /\ \A i \in DOMAIN claims' : /\ claims'[i].review \in {"pending", "approved"}
                                   /\ claims'[i].born = imports + 1
  BY ImportEffect DEF Audited, Stores
<1>2. 1..imports \subseteq 1..imports' /\ imports + 1 \in (1..imports') \ (1..imports)
  BY <1>1
<1>3. \A i \in DOMAIN register' : /\ register'[i].of \in (1..imports') \ (1..imports)
                                  /\ register'[i].status \in {"pending", "approved"}
  BY <1>1, <1>2
<1>4. Prepared' = Prepared
  BY <1>1 DEF Prepared, RecordsOf, Content, packageVars
<1> QED BY <1>1, <1>2, <1>3, <1>4 DEF Register!Import, packageVars

LEMMA CommitRefines ==
  ASSUME Audited, Commit, export = NoExport, UNCHANGED packageVars
  PROVE  Register!Decide \/ Register!DecideTooLate
<1> DEFINE D == DOMAIN desk.read
           trail == [n \in DOMAIN records |-> Named(records[n])]
           register == [i \in DOMAIN claims |-> [of |-> claims[i].born, status |-> claims[i].review]]
<1>1. /\ UNCHANGED imports /\ DOMAIN claims' = DOMAIN claims
      /\ \A i \in DOMAIN claims : /\ claims'[i].born = claims[i].born
                                  /\ i \notin D => claims'[i] = claims[i]
      /\ D \subseteq DOMAIN claims \/ D \cap DOMAIN claims = {}
  BY CommitEffect
<1>2. /\ \A n \in DOMAIN records : n \in DOMAIN records' /\ records'[n] = records[n]
      /\ \A n \in NewRecords :
           /\ records'[n].target \in D
           /\ records'[n].born = desk.read[records'[n].target].born
           /\ records'[n].target \in DOMAIN claims
                => claims'[records'[n].target].review \in
                     {claims[records'[n].target].review, records'[n].status}
           /\ records'[n].target \in DOMAIN claims
              /\ claims[records'[n].target].born = records'[n].born
                => claims'[records'[n].target].review = records'[n].status
  BY CommitEffect
<1>3. \A i \in D : \E n \in NewRecords :
        records'[n].target = i /\ \A m \in NewRecords : records'[m].target = i => m = n
  BY CommitEffect
<1>4. Register!Added = NewRecords
  BY DEF Register!Added, NewRecords
<1>5. \A n \in DOMAIN trail : n \in DOMAIN trail' /\ trail'[n] = trail[n]
  BY <1>2
<1>6. \A n \in NewRecords : /\ n \in DOMAIN records'
                            /\ trail'[n].claim = records'[n].target
                            /\ trail'[n].of = records'[n].born
                            /\ trail'[n].status = records'[n].status
  BY DEF NewRecords, Named
<1> HIDE DEF trail
<1>7. Register!Audit
  <2>1. \A n \in NewRecords : trail'[n].of \in 1..imports
    BY <1>2, <1>6 DEF Audited, OnDesk
  <2>2. ASSUME NEW m \in NewRecords, NEW n \in NewRecords, trail'[m].claim = trail'[n].claim
        PROVE  m = n
    <3>1. records'[m].target = records'[n].target /\ records'[n].target \in D
      BY <2>2, <1>2, <1>6
    <3> QED BY <3>1, <1>3
  <2>3. \A n \in Register!Added : trail'[n].of \in 1..imports
    BY <1>4, <2>1
  <2>4. \A m, n \in Register!Added : trail'[m].claim = trail'[n].claim => m = n
    BY <1>4, <2>2
  <2> QED BY <1>5, <2>3, <2>4, Zenon DEF Register!Audit, trail
<1>8. Register!Decided = D
  <2>1. Register!Decided = {trail'[n].claim : n \in Register!Added}
    BY Zenon DEF Register!Decided, trail
  <2>2. \A i \in D : \E n \in NewRecords : trail'[n].claim = i
    BY <1>3, <1>6
  <2>3. \A n \in NewRecords : trail'[n].claim \in D
    BY <1>2, <1>6
  <2> QED BY <1>4, <2>1, <2>2, <2>3
<1>9. CASE D \subseteq DOMAIN claims
  <2>1. DOMAIN register' = DOMAIN register /\ DOMAIN register = DOMAIN claims
    BY <1>1
  <2>2. ASSUME NEW n \in NewRecords
        PROVE  LET i == trail'[n].claim IN register'[i] \in Register!Marked(register[i], trail'[n])
    <3> DEFINE i == trail'[n].claim
    <3>1. /\ i \in DOMAIN claims /\ i = records'[n].target
          /\ trail'[n].of = records'[n].born /\ trail'[n].status = records'[n].status
      BY <1>2, <1>6, <1>9, <2>2
    <3> HIDE DEF i
    <3>2. /\ register[i] = [of |-> claims[i].born, status |-> claims[i].review]
          /\ register'[i] = [of |-> claims[i].born, status |-> claims'[i].review]
      BY <3>1, <1>1
    <3>3. /\ claims'[i].review \in {claims[i].review, records'[n].status}
          /\ claims[i].born = records'[n].born => claims'[i].review = records'[n].status
      BY <3>1, <1>2, <2>2
    <3> HIDE DEF register
    <3>4. register'[i] \in Register!Marked(register[i], trail'[n])
      BY <3>1, <3>2, <3>3 DEF Register!Marked
    <3> QED BY <3>4 DEF i
  <2>3. \A i \in DOMAIN register \ D : register'[i] = register[i]
    BY <1>1
  <2> HIDE DEF register
  <2>4. \A n \in Register!Added :
          LET i == trail'[n].claim IN register'[i] \in Register!Marked(register[i], trail'[n])
    BY <1>4, <2>2
  <2>5. Register!Decided \subseteq DOMAIN register
    BY <1>8, <1>9, <2>1
  <2>6. \A i \in DOMAIN register \ Register!Decided : register'[i] = register[i]
    BY <1>8, <2>3
  <2>7. UNCHANGED <<imports, export, returned>> /\ export = NoExport
    BY <1>1 DEF packageVars
  <2> HIDE DEF D
  <2>8. Register!Decide
    BY <1>7, <2>1, <2>4, <2>5, <2>6, <2>7 DEF Register!Decide, register, trail
  <2> QED BY <2>8
<1>10. CASE D \cap DOMAIN claims = {}
  <2>1. register' = register /\ DOMAIN register = DOMAIN claims
    BY <1>1, <1>10
  <2> QED BY <1>1, <1>7, <1>8, <1>10, <2>1 DEF Register!DecideTooLate, packageVars
<1> QED BY <1>1, <1>9, <1>10

LEMMA ExportRefines ==
  ASSUME Delivering, ExportTypes', Exports
  PROVE  [Register!Next]_(Register!vars)
<1> DEFINE preparing == IF export = NoExport THEN {} ELSE {Prepared}
           delivered == IF returned.selection = {} THEN {} ELSE {Content(returned.package)}
<1>1. UNCHANGED <<claims, imports, records>>
  BY DEF Exports, ReadClaims, ReadLinks, StartExport, ReuseExport, WriteFile, WriteManifest,
         deskVars, rowVars
<1>2. /\ PackageShape(export.package) /\ PackageShape(export.package)'
      /\ export.step # "none" => export # NoExport /\ export.selection # {}
      /\ export'.step # "none" => export' # NoExport
  BY DEF Delivering, ExportTypes, NoExport
\* A step that keeps the claims of the package keeps what is in preparation.
<1>3. ASSUME export.step # "none", export'.step # "none", UNCHANGED returned, Prepared' = Prepared
      PROVE  UNCHANGED Register!vars
  BY <1>1, <1>2, <1>3 DEF Register!vars
<1>4. ASSUME NEW S \in (SUBSET ToSet(Formats)) \ {{}}, ReadClaims(S) PROVE Register!Prepare
  <2>1. Prepared' = Register!Snapshot /\ Register!AllApproved
    BY <1>4, PreparedIsSnapshot DEF Delivering, Audited
  <2>2. export = NoExport /\ export' # NoExport /\ UNCHANGED returned
    BY <1>2, <1>4, ReadClaimsEffect DEF ReadClaims, LoopFree
  <2>3. preparing = {} /\ preparing' = {Register!Snapshot} /\ delivered' = delivered
    BY <2>1, <2>2
  <2> QED BY <1>1, <2>1, <2>2, <2>3 DEF Register!Prepare
<1>5. CASE ReadLinks
  <2>1. /\ export.step = "claims" /\ export'.step = "links"
        /\ \A d \in export'.package.claims : \E c \in export.package.claims :
             d = [id |-> c.id, row |-> d.row] /\ d.row.born = c.row.born
        /\ \A c \in export.package.claims : \E d \in export'.package.claims :
             d.id = c.id /\ d.row.born = c.row.born
    BY <1>5, LinksReadEffect DEF Delivering, Audited
  <2>2. \A d \in export'.package.claims : \E c \in export.package.claims :
          d.id = c.id /\ d.row.born = c.row.born
    BY <2>1
  <2>3. Pairs(export.package)' = Pairs(export.package) /\ Ids(export.package)' = Ids(export.package)
    BY <2>1, <2>2, SameNames
  <2>4. Prepared' = Prepared
    BY <1>1, <1>2, <2>3, PreparedStays
  <2> QED BY <1>3, <1>5, <2>1, <2>4 DEF ReadLinks
<1>6. CASE StartExport
  <2>1. /\ export.step = "links" /\ export'.step = "files"
        /\ export'.package.claims = export.package.claims
    BY <1>6, StartExportEffect, AssembledIsSound DEF Delivering, StartExport
  <2>2. Prepared' = Prepared
    BY <1>1, <1>2, <2>1, PreparedStays DEF Pairs, Ids
  <2> QED BY <1>3, <1>6, <2>1, <2>2 DEF StartExport
<1>7. ASSUME NEW f, WriteFile(f) PROVE UNCHANGED Register!vars
  <2>1. /\ export.step = "files" /\ export'.step = "files" /\ export'.package = export.package
        /\ UNCHANGED returned
    BY <1>7, WriteFileEffect DEF Delivering, WriteFile
  <2>2. Prepared' = Prepared
    BY <1>1, <1>2, <2>1, PreparedStays DEF Pairs, Ids
  <2> QED BY <1>3, <2>1, <2>2
\* Both answers are of the package that was in preparation.
<1>8. ASSUME NEW p, export.step # "none", export' = NoExport, Content(p) = Prepared,
             returned' = [package |-> p, selection |-> export.selection]
      PROVE  Register!Deliver
  <2>1. preparing = {Content(p)} /\ preparing' = {} /\ delivered' = preparing
    BY <1>2, <1>8
  <2> QED BY <1>1, <2>1 DEF Register!Deliver
<1>9. CASE WriteManifest
  <2>1. /\ export.step = "files" /\ export' = NoExport
        /\ returned' = [package |-> export.package, selection |-> export.selection]
    BY <1>9 DEF WriteManifest
  <2>2. Content(export.package) = Prepared
    BY <1>2, <2>1, FinishedIsPrepared DEF Delivering, Complete
  <2> QED BY <1>8, <2>1, <2>2 DEF Register!Next
<1>10. CASE ReuseExport
  <2>1. /\ export.step = "links" /\ export' = NoExport
        /\ returned' = [package |-> Assembled(export.package), selection |-> export.selection]
    BY <1>10 DEF ReuseExport
  <2>2. Content(Assembled(export.package)) = Prepared
    BY <1>2, <2>1, AssembledIsSound, FinishedIsPrepared DEF Delivering
  <2> QED BY <1>8, <2>1, <2>2 DEF Register!Next
<1> QED BY <1>4, <1>5, <1>6, <1>7, <1>9, <1>10 DEF Exports, Register!Next

LEMMA CrashRefines == Crash => Register!Abandon
BY DEF Crash, Register!Abandon, rowVars

LEMMA StepRefines ==
  ASSUME Delivering, Delivering', [Next]_vars
  PROVE  [Register!Next]_(Register!vars)
<1>1. CASE UNCHANGED <<claims, imports, records, export, returned>>
  <2>1. Prepared' = Prepared
    BY <1>1 DEF Prepared, RecordsOf, Content
  <2> QED BY <1>1, <2>1 DEF Register!vars
<1>2. CASE Imports
  <2>1. ASSUME NEW cs \in ClaimFiles, NEW ev \in EvidenceFiles, NEW floor \in Floors,
               Import(cs, ev, floor), UNCHANGED packageVars
        PROVE  Register!Next
    BY <2>1, ImportRefines DEF Register!Next, Delivering
  <2>2. ASSUME NEW e, NEW c, ImportElsewhere(e, c), UNCHANGED packageVars
        PROVE  UNCHANGED <<claims, imports, records, export, returned>>
    BY <2>2 DEF ImportElsewhere, packageVars
  <2> QED BY <1>1, <1>2, <2>1, <2>2 DEF Imports
<1>3. CASE Decisions
  <2>1. CASE Commit
    BY <1>3, <2>1, CommitRefines DEF Decisions, Register!Next, Delivering
  <2>2. CASE ~Commit
    <3>1. UNCHANGED <<claims, imports, records, export, returned>>
      BY <1>3, <2>2 DEF Decisions, Read, ReadSupported, CommitStale, rowVars, packageVars
    <3> QED BY <3>1, <1>1
  <2> QED BY <2>1, <2>2
<1>4. CASE Exports
  BY <1>4, ExportRefines DEF Delivering
<1>5. CASE Crash
  BY <1>5, CrashRefines DEF Register!Next
<1>6. CASE UNCHANGED vars
  BY <1>1, <1>6 DEF vars, deskVars, rowVars, packageVars
<1> QED BY <1>2, <1>3, <1>4, <1>5, <1>6 DEF Next

\* The review desk and the export implement the register: whatever falls between
\* the read and the commit of a decision, or between the queries and the files of
\* a package, and whichever ids a database hands out again, each is one step of
\* it, or none.
THEOREM RegisterIsImplemented == Spec => ImplementsRegister
<1>1. ExportInit => Register!Init
  BY RegisterInit
<1>2. Delivering /\ Delivering' /\ [Next]_vars => [Register!Next]_(Register!vars)
  BY StepRefines
<1> QED BY <1>1, <1>2, DeliveringAlways, PTL DEF Spec, ImplementsRegister, Register!Spec
=============================================================================
