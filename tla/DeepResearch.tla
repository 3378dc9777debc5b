----------------------------- MODULE DeepResearch -----------------------------
(***************************************************************************)
(* One task of the researcher (src/agents/deep_researcher_agent.py,        *)
(* execute_task): a tool-calling round with the model, if the profile asks *)
(* for one, and the standard search, unless the round found something and  *)
(* is not to be merged with it.  The evidence candidates go to the         *)
(* analyst.                                                                *)
(*                                                                         *)
(* A round that failed still hands over what it observed.                  *)
(***************************************************************************)
EXTENDS ReactLoop, SearchRound

\* One company and one kind of row for both parts.
ASSUME ResearchAssumption == Own = Company /\ Rows = Hits

VARIABLES
  plan,        \* react: use_react; merge: merge_standard_search_after_react
  phase,       \* "react", "search", "done" or "failed"
  found,       \* the evidence rows of the round
  candidates   \* evidence_candidates, the result

researchVars == <<reactVars, searchVars, plan, phase, found, candidates>>

\* The profiles fast, balanced and deep, and deep without the merge.
Plans == {[react |-> FALSE, merge |-> TRUE], [react |-> TRUE, merge |-> TRUE],
          [react |-> TRUE, merge |-> FALSE]}

Init ==
  /\ ReactInit /\ SearchInit
  /\ plan \in Plans
  /\ phase = IF plan.react THEN "react" ELSE "search"
  /\ found = <<>> /\ candidates = <<>>

-----------------------------------------------------------------------------
(***************************************************************************)
(* Selecting the candidates                                                *)
(***************************************************************************)
\* What is at these positions, in order.
At(s, I) ==
  LET taken[n \in 0..Len(s)] ==
        IF n = 0 THEN <<>>
        ELSE IF n \in I THEN Append(taken[n - 1], s[n]) ELSE taken[n - 1]
  IN taken[Len(s)]

\* The first row of every id, in order.
Unique[s \in Seq(Rows)] == At(s, {i \in DOMAIN s : \A j \in 1..i - 1 : s[j].id # s[i].id})

\* Evidence rows of the observations, those of a round that failed included.
Observed == Unique[FlattenSeq([i \in DOMAIN observations |-> observations[i].rows])]

Merge(primary, secondary) == Unique[primary \o secondary]

OfRole(s, role) == At(s, {i \in DOMAIN s : s[i].role = role})
Without(s, kept) == At(s, {i \in DOMAIN s : s[i] \notin Range(kept)})

\* The first row of each required role.
Required(s) ==
  FirstN(OfRole(s, "period_matched_financial_supplement"), 1)
    \o FirstN(OfRole(s, "current_market_snapshot"), 1)

Select[s \in Seq(Rows)] ==
  IF Len(s) <= Topk THEN s
  ELSE FirstN(Required(s) \o Without(s, Required(s)), Topk)

-----------------------------------------------------------------------------
(***************************************************************************)
(* The task                                                                *)
(***************************************************************************)
React ==
  /\ phase = "react"
  /\ ReactNext
  /\ UNCHANGED <<searchVars, plan, phase, found, candidates>>

\* The model raises instead of answering: the task fails, observations are lost.
ModelRaises ==
  /\ phase = "react" /\ Thinking /\ step < MaxSteps
  /\ phase' = "failed"
  /\ UNCHANGED <<reactVars, searchVars, plan, found, candidates>>

\* The round has ended, in whatever way; the loop's own state is gone.
AfterReact ==
  /\ phase = "react" /\ status # "running"
  /\ found' = Observed
  /\ IF found' # <<>> /\ ~plan.merge
     THEN phase' = "done" /\ candidates' = Select[found']
     ELSE phase' = "search" /\ UNCHANGED candidates
  /\ ReactReturned
  /\ UNCHANGED <<searchVars, plan>>

Search ==
  /\ phase = "search"
  /\ SearchNext
  /\ UNCHANGED <<reactVars, plan, phase, found, candidates>>

AfterSearch ==
  /\ phase = "search" /\ ~Searching
  /\ phase' = "done"
  /\ candidates' = IF found = <<>> THEN hits ELSE Select[Merge(found, hits)]
  /\ UNCHANGED <<reactVars, searchVars, plan, found>>

Done == phase \in {"done", "failed"}

Next ==
  \/ React \/ ModelRaises \/ AfterReact \/ Search \/ AfterSearch

\* The thread of the task goes on; a handler or an engine may
\* never return.
Fairness ==
  /\ WF_researchVars(phase = "react" /\ LoopStep /\ UNCHANGED <<searchVars, plan, phase, found, candidates>>)
  /\ WF_researchVars(phase = "search" /\ (EngineFails \/ EngineUnknown \/ SearchEnds)
                     /\ UNCHANGED <<reactVars, plan, phase, found, candidates>>)
  /\ WF_researchVars(AfterReact \/ AfterSearch)

Spec == Init /\ [][Next]_researchVars /\ Fairness

-----------------------------------------------------------------------------
(***************************************************************************)
(* Properties                                                              *)
(***************************************************************************)
TypeOK ==
  /\ ReactTypeOK /\ SearchTypeOK
  /\ plan \in Plans /\ phase \in {"react", "search", "done", "failed"}
  /\ found \in Seq(Hits) /\ candidates \in Seq(Hits) /\ Len(candidates) <= Topk

\* No other company's evidence reaches the analyst as this company's own, by
\* whichever way it was found: a row of another company is labelled context.
NoForeignEvidence ==
  \A i \in DOMAIN candidates : candidates[i].symbol = Own \/ candidates[i].context

\* The task ends, even if no handler and no engine ever returns.
TaskEnds == <>Done
=============================================================================
