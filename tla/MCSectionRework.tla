--------------------------- MODULE MCSectionRework ---------------------------
(***************************************************************************)
(* Instance of SectionRework for TLC: one section of each kind the plan    *)
(* tells apart (named for ever, never named, named once); the summary must *)
(* use two pieces of evidence; drafts that are good, or fail in one place. *)
(***************************************************************************)
EXTENDS SectionRework

MCSections == {"executive_summary", "financial_analysis", "conclusion"}
MCEvidence == {"e1", "e2"}

B(sound, cites) == [sound |-> sound, cites |-> cites]
Good == [s \in MCSections |-> B(TRUE, IF s = "executive_summary" THEN MCEvidence ELSE {})]

MCDrafts ==
  {Good, [Good EXCEPT !["executive_summary"].cites = {}],
   [Good EXCEPT !["financial_analysis"].sound = FALSE], [Good EXCEPT !["conclusion"] = Absent]}

Free == [must |-> {}, supported |-> TRUE, fit |-> TRUE]
Needs == [s \in MCSections |-> IF s = "executive_summary" THEN [Free EXCEPT !.must = MCEvidence] ELSE Free]

\* Blockers as contract_builder.py words them.
NoConclusion == [key |-> "investment_conclusion", boundary |-> FALSE, names |-> {}]
NoPeers == [key |-> "peer_compare", boundary |-> TRUE, names |-> {"peer_comparison"}]
NoGovernance == [key |-> "ownership_governance", boundary |-> TRUE, names |-> {}]
File(blockers) == [blockers |-> blockers, gaps |-> {}]
MCDemands ==
  {[pack |-> [Needs EXCEPT !["conclusion"].supported = FALSE, !["financial_analysis"].fit = FALSE],
    contracts |-> File({})]}
    \cup [pack : {Needs},
          contracts : {File({}), File({NoConclusion}), File({NoPeers, NoGovernance}),
                       [File({}) EXCEPT !.gaps = {"executive_summary"}]}]

MCRewrites == {B(TRUE, MCEvidence), B(TRUE, {}), B(FALSE, MCEvidence)}

Fine ==
  [verifier |-> TRUE, objective |-> TRUE, llm |-> TRUE, score |-> "high", blockers |-> {}, remarks |-> {}]
MCReviews ==
  {Fine, [Fine EXCEPT !.score = "middling", !.remarks = {"investment_conclusion"}],
   [Fine EXCEPT !.objective = FALSE], [Fine EXCEPT !.llm = FALSE, !.blockers = {"peer_comparison"}]}
=============================================================================
