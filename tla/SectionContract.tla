--------------------------- MODULE SectionContract ---------------------------
(***************************************************************************)
(* What the sections of a report are held to, and how a failure is named.  *)
(*                                                                         *)
(* Three vocabularies meet here: the core sections of the contracts        *)
(* (src/evaluation/section_verification.py), the section names of the      *)
(* remediation plan (src/evaluation/quality_remediation.py), and the       *)
(* titles of the report, through which the repair                          *)
(* (src/evaluation/section_repair.py) turns either into a section.  The    *)
(* plan is read back out of the wording of the issues of the gate          *)
(* (src/evaluation/delivery_gate.py): the wording is modelled by the       *)
(* names found in it.                                                      *)
(***************************************************************************)
EXTENDS FiniteSets

CONSTANTS
  Sections,  \* the core sections in play
  Evidence   \* evidence ids of the section packs

CoreSections ==
  {"executive_summary", "business_overview", "financial_analysis", "valuation", "risks", "conclusion"}

PlanNames ==
  {"executive_summary", "business_profile", "financial_analysis", "three_statement_analysis",
   "peer_comparison", "valuation", "sensitivity", "risk", "investment_conclusion"}

\* The sections of the contracts: the last two core sections go by other names.
ContractKeys ==
  {"executive_summary", "business_overview", "ownership_governance", "strategy_business",
   "three_statement_summary", "financial_analysis", "peer_compare", "valuation", "valuation_sensitivity",
   "risk_factors", "investment_conclusion", "period_note", "currency_data_quality"}

ASSUME SectionsAssumption == Sections \subseteq CoreSections

\* The text of a section: long, finished and free of placeholders, or not; and
\* the evidence it cites.
Body == [sound : BOOLEAN, cites : SUBSET Evidence]
Absent == [sound |-> FALSE, cites |-> {}, absent |-> TRUE]
Bodies == Body \cup {Absent}

\* The evidence pack of a section: the evidence it must use, whether its claims
\* are supported, and whether that evidence is of one period and of authority.
PackOf == [must : SUBSET Evidence, supported : BOOLEAN, fit : BOOLEAN]

\* A reason or flag that counts against a contract: whether it only discloses a
\* boundary, and the plan names found in its wording.
Blocker == [key : ContractKeys, boundary : BOOLEAN, names : SUBSET PlanNames]

\* report_section_contracts.json: the blockers, and the contracts with status
\* "gap" or a flag that counts for the verification alone.
ContractsOf == [blockers : SUBSET Blocker, gaps : SUBSET ContractKeys]

\* A review of the report: the verifier, the objective checks, the model with
\* its score; the plan names that its blocking and other remarks are about.
Review ==
  {r \in [verifier : BOOLEAN, objective : BOOLEAN, llm : BOOLEAN, score : {"high", "middling", "low"},
          blockers : SUBSET PlanNames, remarks : SUBSET PlanNames] :
     r.blockers # {} => ~(r.objective /\ r.llm)}

-----------------------------------------------------------------------------
(***************************************************************************)
(* Verification                                                            *)
(***************************************************************************)
Barred(contracts) == contracts.gaps \cup {b.key : b \in contracts.blockers}

\* A section is looked up under its core name: the contracts of the risks and of
\* the conclusion are never found.
Passes(s, body, pack, contracts) ==
  /\ body.sound /\ pack.must \subseteq body.cites
  /\ pack.supported /\ pack.fit
  /\ s \notin Barred(contracts)

\* section_verification.json: the sections that fail, those that use some of
\* their evidence, and the names a plan still holds against the report.
Verified(report, pack, contracts, names) ==
  [failing |-> {s \in Sections : ~Passes(s, report[s], pack[s], contracts)},
   using |-> {s \in Sections : pack[s].must \cap report[s].cites # {}},
   pending |-> names]

-----------------------------------------------------------------------------
(***************************************************************************)
(* The issues of the gate                                                  *)
(***************************************************************************)
Issue(kind, names) == {[kind |-> kind, of |-> n] : n \in names}

Kinds ==
  {"contract", "pending", "support", "consumption", "repair", "review", "remark", "terms", "disclosed",
   "requirement"}
Blocking(issues) == {i \in issues : i.kind \notin {"remark", "disclosed"}}

\* The contracts, of all sections together, are one issue: a warning if there is
\* one blocker, or if all disclose a boundary and the objective checks pass.  (It
\* stands here once for every name in its wording, and once for itself.)
ContractIssue(contracts, objective) ==
  LET disclosed == \/ \A a, b \in contracts.blockers : a = b
                   \/ objective /\ \A b \in contracts.blockers : b.boundary
  IN IF contracts.blockers = {} THEN {}
     ELSE Issue(IF disclosed THEN "disclosed" ELSE "terms",
                {"report"} \cup UNION {b.names : b \in contracts.blockers})

\* What the files say.
Collected(verification, pack, contracts, unrepaired, review) ==
  Issue("contract", verification.failing) \cup Issue("pending", verification.pending)
    \cup Issue("support", {s \in Sections : ~pack[s].supported})
    \cup Issue("consumption", {s \in Sections : pack[s].must # {}} \ verification.using)
    \cup Issue("repair", IF unrepaired # {} THEN {"report"} ELSE {})
    \cup Issue("review", review.blockers) \cup Issue("remark", review.remarks)
    \cup ContractIssue(contracts, review.objective)

\* A high score suffices; a middling one only if nothing else blocks.
LlmPasses(review, issues) ==
  /\ review.llm
  /\ \/ review.score = "high"
     \/ review.score = "middling" /\ Blocking(issues) = {} /\ review.verifier /\ review.objective

\* Requirements that failed with no review blocker to say so.  (The blockers of
\* a review explain all three: they are content issues.)
Unexplained(review, issues) ==
  IF review.blockers # {} THEN {}
  ELSE {r \in {"verifier", "objective_quality", "llm_review"} :
          CASE r = "verifier" -> ~review.verifier
            [] r = "objective_quality" -> ~review.objective
            [] OTHER -> ~LlmPasses(review, issues)}

\* A bug: a failed requirement is not written down.
GateSilent(verification, pack, contracts, unrepaired, review) ==
  LET collected == Collected(verification, pack, contracts, unrepaired, review)
  IN [pass |-> review.verifier /\ review.objective /\ LlmPasses(review, collected) /\ Blocking(collected) = {},
      issues |-> collected]

\* A bug: the score of the model overrules the other requirements.
GateByScore(verification, pack, contracts, unrepaired, review) ==
  LET collected == Collected(verification, pack, contracts, unrepaired, review)
  IN [pass |-> LlmPasses(review, collected) /\ Blocking(collected) = {},
      issues |-> collected \cup Issue("requirement", Unexplained(review, collected))]

\* delivery_gate.json.
Gate(verification, pack, contracts, unrepaired, review) ==
  LET collected == Collected(verification, pack, contracts, unrepaired, review)
      issues == collected \cup Issue("requirement", Unexplained(review, collected))
  IN [pass |-> review.verifier /\ review.objective /\ LlmPasses(review, collected) /\ Blocking(issues) = {},
      issues |-> issues]

-----------------------------------------------------------------------------
(***************************************************************************)
(* The plan, and what the repair makes of names                            *)
(***************************************************************************)
\* The plan names found in the wording of an issue.  A contract issue carries
\* the Chinese title of its section, which for the financial analysis names
\* nothing; a pending issue carries the name as the plan spells it.
NamesIn(issue) ==
  CASE issue.kind \in {"review", "remark"} -> {issue.of}
    [] issue.kind \in {"terms", "disclosed"} -> {issue.of} \cap PlanNames
    [] issue.kind = "contract" ->
         CASE issue.of = "business_overview" -> {"business_profile"}
           [] issue.of = "risks" -> {"risk"}
           [] issue.of = "conclusion" -> {"investment_conclusion"}
           [] issue.of = "financial_analysis" -> {}
           [] OTHER -> {issue.of}
    [] issue.kind = "pending" ->
         CASE issue.of \in {"investment_conclusion", "three_statement_analysis"} -> {}
           [] issue.of = "financial_analysis" -> {"three_statement_analysis"}
           [] OTHER -> {issue.of}
    [] OTHER -> {}

\* A bug: only what the reviews said is planned for.
PlanReviews(gate) ==
  UNION {NamesIn(i) : i \in {j \in gate.issues : j.kind \in {"review", "remark"}}}

\* failed_sections of quality_remediation_plan.json: of a failed gate all issues
\* count, of a passed one the blocking ones.
Plan(gate) == UNION {NamesIn(i) : i \in IF gate.pass THEN Blocking(gate.issues) ELSE gate.issues}

\* The core sections that names stand for; some stand for none.
SectionsOf(names) ==
  Sections \cap
    ((names \cap CoreSections)
       \cup {IF n = "business_profile" THEN "business_overview"
             ELSE IF n = "risk" THEN "risks" ELSE "conclusion" :
               n \in names \cap {"business_profile", "risk", "investment_conclusion"}})

\* What the review and gate files of an earlier run ask to be repaired: the
\* conclusion, the peers or the sensitivity, of which the last two are not core
\* sections.  The names of the plan and of the contracts are spelt otherwise,
\* but for the peers.
Asked(issue) ==
  NamesIn(issue) \cap
    (IF issue.kind \in {"pending", "terms", "disclosed"} THEN {"peer_comparison"}
     ELSE {"investment_conclusion", "peer_comparison", "sensitivity"})

Feedback(review, gate) ==
  UNION {Asked(i) : i \in Issue("review", review.blockers) \cup Issue("remark", review.remarks) \cup gate.issues}
=============================================================================
