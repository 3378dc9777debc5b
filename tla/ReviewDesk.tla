------------------------------ MODULE ReviewDesk ------------------------------
(***************************************************************************)
(* The claim rows of one task between the two parties that write them:     *)
(*                                                                         *)
(*   the importer  (src/services/artifact_importer.py) replaces all of     *)
(*     them, in one transaction of a pool thread, after every run          *)
(*   the reviewers (src/services/claim_review_service.py) decide on one,   *)
(*     or on all supported ones; the handlers are async functions that     *)
(*     never await, so decisions are serialised with each other, but each  *)
(*     reads its claim and commits later, and an import may fall between.  *)
(*                                                                         *)
(* A review record names its claim by row id alone, with no foreign key,   *)
(* and report_claims.id is a plain integer key: SQLite, the default, gives *)
(* a new row one more than the largest id present, so the ids of the rows  *)
(* an import has just deleted may be handed out again to other claims.     *)
(* PostgreSQL counts on.  The model allows both.                           *)
(***************************************************************************)
EXTENDS ClaimPolicy, Naturals, Sequences, FiniteSets, SequencesExt, Functions

CONSTANTS
  Keys,          \* claim_id values
  EvidenceIds,   \* evidence_id values, unique over all tasks
  Contents,      \* what an evidence item may say
  ClaimFiles,    \* what runs may leave in claims.json: sequences of claims
  EvidenceFiles, \* what runs may leave in evidence.json: id -> content
  MaxImports,    \* bound: imports of the task
  MaxRecords,    \* bound: review records
  MaxForeign     \* bound: imports of other tasks

Claims ==
  [key : Keys, critical : BOOLEAN, summary : Summaries,
   number : Contents \cup {NoNumber}, cites : SUBSET EvidenceIds, sure : BOOLEAN]

ASSUME ClaimFilesAssumption == ClaimFiles \subseteq Seq(Claims)
ASSUME EvidenceFilesAssumption ==
  \A ev \in EvidenceFiles : /\ DOMAIN ev \subseteq EvidenceIds
                            /\ \A e \in DOMAIN ev : ev[e] \in Contents

VARIABLES
  evidence,  \* evidence_items: id -> content, shared by all tasks
  claims,    \* report_claims of the task: row id -> row
  lastId,    \* the largest row id a claim of the task ever had
  records,   \* review_records, oldest first
  desk,      \* the decision in progress on the event loop
  imports,   \* imports of the task so far
  foreign    \* imports of other tasks so far

rowVars == <<evidence, claims, lastId, imports, foreign>>
deskVars == <<rowVars, records, desk>>

NoClaims == [i \in {} |-> 0]
Idle == [op |-> "idle", read |-> NoClaims]

\* The columns of one report_claims row.  Two are not columns but history, for
\* the properties: born, the import that inserted it, tells two rows with one id
\* apart, and machine says that the policy approved it.
Row(c, imported, content, n) ==
  LET linked == Linked(c, imported)
      ver == VerificationStatus(c, linked)
      num == NumericStatus(c, linked, content)
      cit == CitationStatus(c, linked)
  IN [key |-> c.key, text |-> "generated", ver |-> ver, links |-> linked,
      review |-> ReviewStatus(c, ver, num, cit),
      machine |-> ReviewStatus(c, ver, num, cit) = "approved",
      action |-> "none", born |-> n]

Init ==
  /\ evidence = NoClaims
  /\ claims = NoClaims /\ lastId = 0 /\ imports = 0 /\ foreign = 0
  /\ records = <<>>
  /\ desk = Idle

-----------------------------------------------------------------------------
(***************************************************************************)
(* The importer                                                            *)
(***************************************************************************)
\* The largest row id present once the claims of the task are deleted: none, one
\* of another task, or what a database that counts on has reached.
Floors == {lastId} \cup (0..lastId \ DOMAIN claims)

\* One import: evidence rows are overwritten by id, the task's claims are
\* deleted and those of the file inserted above floor, with the statuses of the
\* policy.
Import(cs, ev, floor) ==
  /\ imports < MaxImports
  /\ evidence' = [e \in DOMAIN evidence \cup DOMAIN ev |->
                    IF e \in DOMAIN ev THEN ev[e] ELSE evidence[e]]
  /\ claims' = [i \in {floor + n : n \in DOMAIN cs} |->
                  Row(cs[i - floor], DOMAIN ev, ev, imports + 1)]
  /\ lastId' = IF floor + Len(cs) > lastId THEN floor + Len(cs) ELSE lastId
  /\ imports' = imports + 1
  /\ UNCHANGED <<foreign, records, desk>>

\* Another task imports an evidence item of the same id.
ImportElsewhere(e, c) ==
  /\ foreign < MaxForeign
  /\ e \in DOMAIN evidence
  /\ evidence' = [evidence EXCEPT ![e] = c]
  /\ foreign' = foreign + 1
  /\ UNCHANGED <<claims, lastId, imports, records, desk>>

-----------------------------------------------------------------------------
(***************************************************************************)
(* The reviewers                                                           *)
(***************************************************************************)
StatusAfter == [approve |-> "approved", reject |-> "rejected", regenerate |-> "regenerate_requested"]

\* What the handler of op leaves of the row it read.  An edit may set the text,
\* or any review status, and keeps the check statuses of the old text.
Decided(op, row) ==
  CASE op \in DOMAIN StatusAfter -> {[row EXCEPT !.review = StatusAfter[op], !.action = op]}
    [] op = "edit" -> {[row EXCEPT !.text = "edited", !.action = op]}
                      \cup {[row EXCEPT !.review = s, !.action = op] : s \in Reviews}
    [] op = "bulk" -> {[row EXCEPT !.review = "approved", !.action = op]}

Supported == {i \in DOMAIN claims : /\ claims[i].review = "pending"
                                    /\ claims[i].ver = "supported"
                                    /\ claims[i].links # {}}

Taken(S) == [i \in S |-> claims[i]]

\* _get_claim: the handler has read its claim.
Read(op, i) ==
  /\ desk = Idle
  /\ i \in DOMAIN claims
  /\ desk' = [op |-> op, read |-> Taken({i})]
  /\ UNCHANGED <<rowVars, records>>

ReadSupported ==
  /\ desk = Idle
  /\ Supported # {}
  /\ desk' = [op |-> "bulk", read |-> Taken(Supported)]
  /\ UNCHANGED <<rowVars, records>>

\* The UPDATE of a row names the columns that changed, on the row that bears the
\* id now; last_review_action travels with metadata_json.
Updated(row, before, after) ==
  [row EXCEPT !.review = IF after.review # before.review THEN after.review ELSE @,
              !.text = IF after.text # before.text THEN after.text ELSE @,
              !.action = IF after.action # before.action THEN after.action ELSE @]

\* A record names the row id and quotes the claim as read.  on is history: born of
\* the row that bears the id as the record is written, or 0.
Record(i, op, before, after) ==
  [target |-> i, decision |-> IF op = "bulk" THEN "approve" ELSE op, key |-> before.key,
   status |-> after.review, born |-> before.born,
   on |-> IF i \in DOMAIN claims THEN claims[i].born ELSE 0]

\* The rows one commit updates: an UPDATE is issued only where something
\* changed, and one that matches no row raises StaleDataError.
Changed(after) == {i \in DOMAIN after : after[i] # desk.read[i]}

\* What the transaction may turn the claims it read into.
Outcomes ==
  {after \in [DOMAIN desk.read -> UNION {Decided(desk.op, desk.read[i]) : i \in DOMAIN desk.read}] :
     \A i \in DOMAIN after : after[i] \in Decided(desk.op, desk.read[i])}

\* A bug: a batch leaves a record for its first claim only.
RecordedFirst(after) ==
  LET i == SetToSeq(DOMAIN after)[1]
  IN <<Record(i, desk.op, desk.read[i], after[i])>>

\* The batch is recorded in the order its query returned it, whatever that is.
Recorded(after) ==
  [n \in 1..Cardinality(DOMAIN after) |->
     LET i == SetToSeq(DOMAIN after)[n] IN Record(i, desk.op, desk.read[i], after[i])]

\* The transaction commits: a record for every claim read, the updates for those
\* that changed.
Commit ==
  /\ desk # Idle
  /\ Len(records) + Cardinality(DOMAIN desk.read) <= MaxRecords
  /\ \E after \in Outcomes :
       /\ Changed(after) \subseteq DOMAIN claims
       /\ claims' = [i \in DOMAIN claims |->
                       IF i \in Changed(after) THEN Updated(claims[i], desk.read[i], after[i])
                       ELSE claims[i]]
       /\ records' = records \o Recorded(after)
  /\ desk' = Idle
  /\ UNCHANGED <<evidence, lastId, imports, foreign>>

\* A row that changed is gone: the flush raises and nothing of the transaction stays.
CommitStale ==
  /\ desk # Idle
  /\ \E after \in Outcomes : ~(Changed(after) \subseteq DOMAIN claims)
  /\ desk' = Idle
  /\ UNCHANGED <<rowVars, records>>
=============================================================================
