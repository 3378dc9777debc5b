-------------------------- MODULE CanonicalMetrics --------------------------
(***************************************************************************)
(* The figures of a report: rows found in filings, tables and market data  *)
(* compete for each metric, and the winner is the canonical metric         *)
(* (src/data/canonical_metrics.py).  The arbitration is repeated along a   *)
(* run - by the analysis, by the node that owns canonical_metrics.json, by *)
(* the preparation of the writing - and each repetition reads files that   *)
(* the one before wrote.                                                   *)
(*                                                                         *)
(* A row is a metric, a value, the priority of its source, whether it      *)
(* names a source at all, how it fits the period of the report ("no" is a  *)
(* row of another period) and the confidence of its extraction, 0 to 9.    *)
(* Units, currencies and dates are left out, and so are all derived        *)
(* metrics but the net margin.                                             *)
(***************************************************************************)
EXTENDS Integers, Sequences, FiniteSets, SequencesExt

CONSTANTS
  Figures,       \* the rows that sources may offer
  Found,         \* what an analysis may find: [raw, tables: rows]
  MarketRows     \* rows in the metadata of evidence records

IsRow(r) == r \in [name : {r.name}, value : {r.value}, priority : Nat, sourced : BOOLEAN,
                   fit : {"yes", "open", "no"}, confidence : 0..9]

\* Whatever is extracted names its table, if not its evidence, and no extraction
\* yields a net margin (build_financial_metric_lineage, _structured_evidence_candidates).
ASSUME FiguresAssumption ==
  /\ \A r \in Figures : IsRow(r) /\ r.sourced /\ r.name # "net_margin"
  /\ Found \subseteq [raw : Seq(Figures), tables : Seq(Figures)]
  /\ MarketRows \subseteq Figures /\ IsFiniteSet(MarketRows)

VARIABLES
  evidence,      \* evidence.json: the market rows that its records carry
  raw,           \* raw_financial_metrics in analysis_artifacts.json
  tables,        \* tables.json, also in analysis_artifacts.json
  metrics,       \* financial_metrics.json
  canon,         \* canonical_metrics of canonical_metrics.json, by metric
  written,       \* the figures the contracts of the writer hold, by metric
  node,          \* where the run is
  analysed,      \* analyze_phase.json exists
  \* history
  given,         \* what the last analysis found
  judged,        \* the evidence of the last arbitration of canon
  seen           \* the rows that took part in the arbitrations since then

vars == <<evidence, raw, tables, metrics, canon, written, node, analysed, given, judged, seen>>

\* The static run goes phase by phase; the dynamic one is one node.
StaticNodes == {"analyze", "build", "prepare", "write"}
DynamicNodes == {"generate", "refresh"}

-----------------------------------------------------------------------------
(* The arbitration. *)

\* Rows of another period are rejected before anything else.
Candidates(rows) == {r \in Range(rows) : r.fit # "no"}
Competing(rows, name) == {i \in DOMAIN rows : rows[i] \in Candidates(rows) /\ rows[i].name = name}

\* The sort key as one number: priority with a penalty for a row that names
\* no source, then the fit of the period, then the confidence.
Key(r) == (r.priority + (IF r.sourced THEN 0 ELSE 10)) * 100
            + (IF r.fit = "yes" THEN 0 ELSE 10) + (9 - r.confidence)

\* The winner of each metric: the first of those with the smallest key.
\* A bug: the confidence decides before the source does.
WinnersByConfidence(rows) ==
  [n \in {r.name : r \in Candidates(rows)} |->
     rows[CHOOSE i \in Competing(rows, n) : \A j \in Competing(rows, n) :
            \/ rows[i].confidence > rows[j].confidence
            \/ rows[i].confidence = rows[j].confidence /\ i <= j]]

Winners(rows) ==
  [n \in {r.name : r \in Candidates(rows)} |->
     rows[CHOOSE i \in Competing(rows, n) : \A j \in Competing(rows, n) :
            \/ Key(rows[i]) < Key(rows[j])
            \/ Key(rows[i]) = Key(rows[j]) /\ i <= j]]

\* The net margin of these winners.  It names its inputs, not a source of its
\* own, and its source type has no priority.
Ratio(c) == <<c["net_income"].value, c["revenue"].value>>
Derived(c) ==
  IF {"net_income", "revenue"} \subseteq DOMAIN c
  THEN <<[name |-> "net_margin", value |-> Ratio(c), priority |-> 99,
          sourced |-> FALSE, fit |-> c["net_income"].fit, confidence |-> 0]>>
  ELSE <<>>

\* financial_metrics.json is the winners and what is derived from them.
AsFinancialMetrics(c) == SetToSeq({c[n] : n \in DOMAIN c}) \o Derived(c)

\* The statements the winners are projected on; other names are in none.
Statements == {{"revenue", "net_income"}, {"total_assets", "total_equity"}}

\* The projection: a row per winner, in statements of at least two.  A row
\* carries its source but no confidence, and it is in a table that has a name.
Shown(c) == UNION {s \cap DOMAIN c : s \in {t \in Statements : Cardinality(t \cap DOMAIN c) > 1}}
InTable(r) == [r EXCEPT !.confidence = 0, !.sourced = TRUE]
Projected(c) == SetToSeq({InTable(c[n]) : n \in Shown(c)})

-----------------------------------------------------------------------------
Init ==
  /\ evidence \in {SetToSeq(S) : S \in SUBSET MarketRows}
  /\ raw = <<>> /\ tables = <<>> /\ metrics = <<>>
  /\ canon = <<>> /\ written = <<>>
  /\ node \in {"analyze", "generate"}
  /\ analysed = FALSE
  /\ given = [raw |-> <<>>, tables |-> <<>>] /\ judged = <<>> /\ seen = {}

\* A node is left, or repeated because its checkpoint was not written.
From(here) == node = here
To(next) == node' \in {node, next}

\* Canon is arbitrated between these rows.
Arbitrate(rows, before) ==
  /\ canon' = Winners(rows)
  /\ metrics' = AsFinancialMetrics(Winners(rows))
  /\ judged' = evidence
  /\ seen' = before \cup Candidates(rows)

\* The analysis of the static run, when there is no phase file of it.
Analyze ==
  /\ From("analyze") /\ ~analysed
  /\ \E found \in Found :
       /\ given' = found /\ raw' = found.raw /\ tables' = found.tables
       /\ Arbitrate(found.raw \o found.tables \o evidence, {})
  /\ analysed' = TRUE
  /\ To("build")
  /\ UNCHANGED <<evidence, written>>

\* Every later phase passes through the analysis and takes its results from
\* the files: the metrics are written again from the persisted winners.
TakeAnalysis ==
  /\ analysed
  /\ metrics' = (IF canon = <<>> THEN AsFinancialMetrics(Winners(raw \o tables \o evidence))
                                 ELSE AsFinancialMetrics(canon))
  /\ UNCHANGED <<evidence, raw, tables, canon, analysed, given, judged, seen>>

AnalyzeAgain == From("analyze") /\ TakeAnalysis /\ To("build") /\ UNCHANGED written

\* _refresh_canonical_metrics: the winners compete again with the tables and
\* the evidence, and the tables become the projection of who wins.
\* A bug: the metrics of the last arbitration are not among the candidates.
RefreshedWithoutMetrics(from) ==
  LET c == Winners(tables \o from)
  IN /\ canon' = c
     /\ tables' = (IF Projected(c) = <<>> THEN tables ELSE Projected(c))
     /\ judged' = from
     /\ seen' = seen \cup Candidates(metrics \o tables \o from)
Refreshed(from) ==
  LET c == Winners(metrics \o tables \o from)
  IN /\ canon' = c
     /\ tables' = (IF Projected(c) = <<>> THEN tables ELSE Projected(c))
     /\ judged' = from
     /\ seen' = seen \cup Candidates(metrics \o tables \o from)

\* The node build_canonical_metrics, which fails without any metric.
BuildCanonicalMetrics ==
  /\ From("build")
  /\ Refreshed(evidence)
  /\ IF canon' = <<>> THEN UNCHANGED node ELSE To("prepare")
  /\ UNCHANGED <<evidence, raw, metrics, written, analysed, given>>

\* prepare_write arbitrates once more, in memory and between the rows of the
\* analysis and the tables as they are now: the contracts are built from that.
PrepareWrite ==
  /\ From("prepare") /\ TakeAnalysis
  /\ written' = Winners(raw \o tables \o evidence)
  /\ To("write")

WriteReport == From("write") /\ TakeAnalysis /\ To("analyze") /\ UNCHANGED written

\* The dynamic run: its contracts and, at its end, the files are arbitrated from
\* one state.
Generate ==
  /\ From("generate")
  /\ \E found \in Found :
       /\ given' = found /\ raw' = found.raw /\ tables' = found.tables
       /\ written' = Winners(found.raw \o found.tables \o evidence)
       /\ Arbitrate(found.raw \o found.tables \o evidence, {})
  /\ To("refresh")
  /\ UNCHANGED <<evidence, analysed>>

\* When the report is written, the evidence of the task is attached and the
\* metrics are refreshed.
AttachAndRefresh ==
  /\ From("refresh")
  /\ \E more \in SUBSET MarketRows :
       LET grown == evidence \o SetToSeq(more \ Range(evidence))
       IN evidence' = grown /\ Refreshed(grown)
  /\ To("generate")
  /\ UNCHANGED <<raw, metrics, written, analysed, given>>

Next ==
  \/ Analyze \/ AnalyzeAgain \/ BuildCanonicalMetrics \/ PrepareWrite \/ WriteReport
  \/ Generate \/ AttachAndRefresh

Spec == Init /\ [][Next]_vars

-----------------------------------------------------------------------------
TypeOK ==
  /\ node \in StaticNodes \cup DynamicNodes /\ (analysed => node \in StaticNodes)
  /\ \A n \in DOMAIN canon : canon[n].name = n /\ canon[n] \in seen
  /\ \A n \in DOMAIN written : written[n].name = n

\* No repetition loses the best row: a canonical metric ranks at least as high
\* as every row that took part since the analysis, though the tables are
\* replaced by a projection and the metrics file by the winners.
NothingBetterLost ==
  \A r \in seen : r.name \in DOMAIN canon /\ Key(canon[r.name]) <= Key(r)

\* Repeating the arbitration on the same findings and the same evidence does
\* not change a figure: not a retried node, and not a phase that passes by.
FiguresSettle ==
  [][given' = given /\ judged' = judged =>
       \A n \in DOMAIN canon \cap DOMAIN canon' : canon'[n].value = canon[n].value]_vars

\* What a document promises: the canonical metrics own the values used by
\* writing.  It does not hold: the preparation arbitrates for itself, and the
\* tables it reads are a projection that has lost rows which won before.
WriterUsesCanonical ==
  node = "write" => \A n \in DOMAIN written \cap DOMAIN canon : written[n].value = canon[n].value

\* The net margin among the canonical metrics is that of the canonical net
\* income and revenue.  It does not hold once an arbitration after the first
\* changes one of them: the derived row of before competes like any other.
RatiosAgree ==
  "net_margin" \in DOMAIN canon => canon["net_margin"].value = Ratio(canon)
=============================================================================
