----------------------------- MODULE ExportPackage -----------------------------
(***************************************************************************)
(* The formal export package of one task (src/services/export_service.py)  *)
(* beside the review desk that feeds it: the package is built from the     *)
(* claim rows, written to the task's directory one file after the other,   *)
(* and its manifest last.  The export handler runs on the event loop, as   *)
(* the decisions do; imports run in pool threads and may fall between two  *)
(* of its steps, of its queries too, and the process may die between any   *)
(* two.                                                                    *)
(***************************************************************************)
EXTENDS ReviewDesk, ReportLifecycle

CONSTANTS
  Formats,     \* the formats a request may select, in the order they are written
  MaxExports,  \* bound: export requests that write
  MaxCrashes   \* bound: deaths of the process

ASSUME FormatsAssumption == IsInjective(Formats)

VARIABLES
  disk,      \* the package directory: file -> the package it was rendered from
  manifest,  \* export_manifest.json: the package and the selection it is for
  export,    \* the export in progress: package, selection, files still to write
  returned,  \* what the last request answered
  exports, crashes

packageVars == <<disk, manifest, export, returned, exports, crashes>>
vars == <<deskVars, packageVars>>

NoPackage == [claims |-> {}, excluded |-> {}, evidence |-> {}, records |-> {}]
NoExport == [step |-> "none", package |-> NoPackage, selection |-> {}, todo |-> {}]

PackageInit ==
  /\ disk = NoClaims
  /\ manifest = [package |-> NoPackage, selection |-> {}]
  /\ export = NoExport
  /\ returned = [package |-> NoPackage, selection |-> {}]
  /\ exports = 0 /\ crashes = 0

-----------------------------------------------------------------------------
(***************************************************************************)
(* build_export_package: one query after the other, each on the rows of    *)
(* its moment.  SQLite opens no transaction for a SELECT, and PostgreSQL   *)
(* shows each statement what is committed by then.                         *)
(***************************************************************************)
Having(status) == {i \in DOMAIN claims : claims[i].review = status}

\* A bug: a claim waiting for its regeneration no longer counts as open.
MarksNoRegenerate ==
     {m \in {"approved", "rejected"} : Having(m) # {}}
  \cup {m \in {"pending"} : Having("pending") # {}}
  \cup {m \in {"unsupported"} : \E i \in DOMAIN claims : claims[i].ver = "failed"}

\* The marks of the claims that the readiness decision looks at.
Marks ==
     {m \in {"approved", "rejected"} : Having(m) # {}}
  \cup {m \in {"pending"} : Having("pending") \cup Having("regenerate_requested") # {}}
  \cup {m \in {"unsupported"} : \E i \in DOMAIN claims : claims[i].ver = "failed"}

\* can_export_formal_package, for a task whose run passed both gates.
Ready == CanDeliver(Blockers("generation_completed", "ready", "pass", Marks, TRUE))

\* The event loop runs one handler at a time.
LoopFree == desk = Idle /\ export = NoExport

\* The rows of the claims, their links not loaded yet.
ClaimRows(I) == {[id |-> i, row |-> [claims[i] EXCEPT !.links = {}]] : i \in I}

\* The claims are read, the approved ones and the others, and the readiness of
\* the task is decided on them.
ReadClaims(S) ==
  /\ LoopFree /\ Ready
  /\ export' = [step |-> "claims", selection |-> S, todo |-> {},
                package |-> [NoPackage EXCEPT
                               !.claims = ClaimRows(Having("approved")),
                               !.excluded = ClaimRows(DOMAIN claims \ Having("approved"))]]
  /\ UNCHANGED <<deskVars, disk, manifest, returned, exports, crashes>>

\* A bug: the claims themselves are queried again with their links.
WithLinksReread(C) == {[id |-> i, row |-> claims[i]] : i \in Having("approved")}

\* Each with the links that bear its id by now.
WithLinks(C) ==
  {[c EXCEPT !.row.links = IF c.id \in DOMAIN claims THEN claims[c.id].links ELSE {}] : c \in C}

ReadLinks ==
  /\ export.step = "claims"
  /\ export' = [export EXCEPT !.step = "links", !.package.claims = WithLinks(@)]
  /\ UNCHANGED <<deskVars, disk, manifest, returned, exports, crashes>>

\* A bug: the package carries the records of explicit approvals only.
ApprovalsOf(ids) ==
  {[id |-> n, record |-> records[n]] :
     n \in {m \in DOMAIN records : records[m].target \in ids /\ records[m].decision = "approve"}}

\* The review records that name one of these ids.
RecordsOf(ids) ==
  {[id |-> n, record |-> records[n]] : n \in {m \in DOMAIN records : records[m].target \in ids}}

\* The package with the evidence linked to its approved claims and the review
\* records of all its claims, as they are by now.
Assembled(p) ==
  [p EXCEPT !.evidence = {[id |-> e, content |-> evidence[e]] :
                             e \in UNION {c.row.links : c \in p.claims}},
            !.records = RecordsOf({c.id : c \in p.claims \cup p.excluded})]

-----------------------------------------------------------------------------
(***************************************************************************)
(* write_export_package                                                    *)
(***************************************************************************)
\* The manifest is of this package and selection, and its files are all there.
\* (The digest covers artifact rows that every import makes anew with their
\* times, so packages of different imports differ, as their rows do in born.)
Reusable(p) ==
  /\ manifest = [package |-> p, selection |-> export.selection]
  /\ export.selection \subseteq DOMAIN disk

ReuseExport ==
  /\ export.step = "links"
  /\ Reusable(Assembled(export.package))
  /\ returned' = [package |-> Assembled(export.package), selection |-> export.selection]
  /\ export' = NoExport
  /\ UNCHANGED <<deskVars, disk, manifest, exports, crashes>>

\* A bug: files that are there already are not written again.
ToWriteMissing == export.selection \ DOMAIN disk

ToWrite == export.selection

StartExport ==
  /\ export.step = "links"
  /\ ~Reusable(Assembled(export.package))
  /\ exports < MaxExports
  /\ export' = [export EXCEPT !.step = "files", !.package = Assembled(@), !.todo = ToWrite]
  /\ exports' = exports + 1
  /\ UNCHANGED <<deskVars, disk, manifest, returned, crashes>>

\* The files are written in the order of the formats.
WriteFile(f) ==
  /\ export.step = "files" /\ f \in export.todo
  /\ \A m, n \in DOMAIN Formats : m < n /\ Formats[n] = f => Formats[m] \notin export.todo
  /\ disk' = [g \in DOMAIN disk \cup {f} |-> IF g = f THEN export.package ELSE disk[g]]
  /\ export' = [export EXCEPT !.todo = @ \ {f}]
  /\ UNCHANGED <<deskVars, manifest, returned, exports, crashes>>

\* Files of formats not selected, left by an earlier export, stay.
WriteManifest ==
  /\ export.step = "files" /\ export.todo = {}
  /\ manifest' = [package |-> export.package, selection |-> export.selection]
  /\ returned' = manifest'
  /\ export' = NoExport
  /\ UNCHANGED <<deskVars, disk, exports, crashes>>

\* The process dies: what the handlers held is gone, rows and files stay.
Crash ==
  /\ crashes < MaxCrashes
  /\ ~LoopFree
  /\ desk' = Idle /\ export' = NoExport
  /\ crashes' = crashes + 1
  /\ UNCHANGED <<rowVars, records, disk, manifest, returned, exports>>

ExportInit == Init /\ PackageInit

\* Imports run beside the event loop; the decisions and the export share it.
Imports ==
  /\ \/ \E cs \in ClaimFiles, ev \in EvidenceFiles, floor \in Floors : Import(cs, ev, floor)
     \/ \E e \in EvidenceIds, c \in Contents : ImportElsewhere(e, c)
  /\ UNCHANGED packageVars

Decisions ==
  /\ export = NoExport
  /\ \/ \E op \in {"approve", "reject", "regenerate", "edit"}, i \in DOMAIN claims : Read(op, i)
     \/ ReadSupported
     \/ Commit
     \/ CommitStale
  /\ UNCHANGED packageVars

Exports ==
  \/ \E S \in (SUBSET ToSet(Formats)) \ {{}} : ReadClaims(S)
  \/ ReadLinks
  \/ ReuseExport
  \/ StartExport
  \/ \E f \in ToSet(Formats) : WriteFile(f)
  \/ WriteManifest

Next == Imports \/ Decisions \/ Exports \/ Crash

Spec == ExportInit /\ [][Next]_vars

-----------------------------------------------------------------------------
(***************************************************************************)
(* Properties                                                              *)
(***************************************************************************)
Rows == [key : Keys, text : {"generated", "edited"}, ver : Verifications,
         links : SUBSET EvidenceIds, review : Reviews, machine : BOOLEAN,
         action : {"none", "bulk", "edit"} \cup DOMAIN StatusAfter, born : Nat]

\* The stores hold what their columns and files can hold, and every link of a
\* claim leads to a stored evidence item.
TypeOK ==
  /\ \A i \in DOMAIN claims : i \in 1..lastId /\ claims[i] \in Rows
  /\ \A i \in DOMAIN claims : claims[i].links \subseteq DOMAIN evidence
  /\ \A e \in DOMAIN evidence : e \in EvidenceIds /\ evidence[e] \in Contents
  /\ DOMAIN disk \subseteq ToSet(Formats)
  /\ manifest.selection \subseteq DOMAIN disk
  /\ desk = Idle \/ export = NoExport

\* claim_review_service.py:20 promises audited review decisions: the history of a
\* claim (get_claim lists the records that bear its id) shows decisions that were
\* taken on this claim, not on one an import has deleted since.
RecordsNameTheirClaim ==
  \A n \in DOMAIN records :
    records[n].target \in DOMAIN claims => records[n].born = claims[records[n].target].born

\* The records written while this row bore its id; no decision caught by an import
\* between its read and its commit is among them when they are all about it.
Said(i) == {n \in DOMAIN records : records[n].target = i /\ records[n].on = claims[i].born}
Undisturbed(i) == \A n \in Said(i) : records[n].born = claims[i].born

\* The review status of a claim is what its last audited decision made it, and
\* what the import policy made it where nobody decided: no status is set without
\* a record, none is inherited from an earlier bearer of the row id, and no
\* recorded decision is lost.  The exception is a row whose id changed hands
\* between the read and the commit of a decision.
LastWordCounts ==
  \A i \in DOMAIN claims : Undisturbed(i) =>
    \/ \E n \in Said(i) : (\A m \in Said(i) : m <= n) /\ claims[i].review = records[n].status
    \/ Said(i) = {} /\ claims[i].review = IF claims[i].machine THEN "approved" ELSE "pending"

\* What is written, on record or answered as the package of the task.
Packages ==
  {manifest.package, returned.package} \cup {p \in {export.package} : export.step = "files"}

\* Whatever is exported as approved carries its ground in the same package: the
\* policy's machine approval, or a reviewer's record that approved this very row,
\* not an earlier one with its id.
Grounded(p) ==
  \A c \in p.claims :
    \/ c.row.machine
    \/ \E r \in p.records : /\ r.record.target = c.id /\ r.record.on = c.row.born
                           /\ r.record.status = "approved"

GroundsTravel == \A p \in Packages : Grounded(p)

\* A package names no claim among the approved that failed verification, leaves
\* none out, pending or rejected, and holds every evidence item its claims cite.
Whole(p) ==
  /\ p.excluded = {}
  /\ \A c \in p.claims : /\ c.row.ver # "failed"
                         /\ c.row.links \subseteq {e.id : e \in p.evidence}

PackageIsWhole == \A p \in Packages : Whole(p)

\* When an export writes its manifest, every file the manifest lists is the one
\* rendered from the manifest's package, whatever earlier exports or a crash in
\* the middle of one have left in the directory.
ManifestTellsTheTruth ==
  [][manifest' # manifest =>
       \A f \in manifest'.selection : disk[f] = manifest'.package]_vars

\* README.md:39 promises a SHA-256 manifest and one version of everything: the
\* files an export answers with, reused ones included, are those of its package.
AnswersItsFiles ==
  [][export # NoExport /\ export' = NoExport /\ UNCHANGED crashes =>
       \A f \in returned'.selection : disk[f] = returned'.package]_vars

\* README.md:39 promises the citations and the verification results as one
\* version: a claim delivered as supported cites what supports it.
CitedAsVerified ==
  \A c \in returned.package.claims : c.row.ver = "supported" => c.row.links # {}
-----------------------------------------------------------------------------
(***************************************************************************)
(* The register that readers of the claims see.                            *)
(***************************************************************************)
Named(r) == [claim |-> r.target, of |-> r.born, status |-> r.status]
Content(p) == [claims |-> {[claim |-> c.id, of |-> c.row.born] : c \in p.claims},
               records |-> {Named(r.record) : r \in p.records}]

\* What an export in progress will deliver: no record is added while it runs.
Prepared == Content([export.package EXCEPT !.records = RecordsOf({c.id : c \in export.package.claims})])

Register == INSTANCE ClaimRegister WITH
  register  <- [i \in DOMAIN claims |-> [of |-> claims[i].born, status |-> claims[i].review]],
  issued    <- 1..imports,
  trail     <- [n \in DOMAIN records |-> Named(records[n])],
  preparing <- IF export = NoExport THEN {} ELSE {Prepared},
  delivered <- IF returned.selection = {} THEN {} ELSE {Content(returned.package)}

\* Decisions that read and commit apart, imports in between and exports that read
\* and write one thing after the other look to every reader like single steps on
\* one register: no decision is half applied, and the claims that are delivered,
\* with the records that name them, are the register of one moment.
ImplementsRegister == Register!Spec
=============================================================================
