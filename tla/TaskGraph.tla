------------------------------- MODULE TaskGraph -------------------------------
(***************************************************************************)
(* From the plan of the planning agent to the task graph of a dynamic run: *)
(* src/agents/planning_agent.py (normalize_research_plan) and              *)
(* src/agents/multi_agent_orchestrator.py (prepare_dynamic_tasks,          *)
(* prepare_collaborative_tasks).  The model that plans may name any        *)
(* dependencies it likes; the graph must still make sense.  Pure           *)
(* operators; DynamicRun executes the graph.                               *)
(*                                                                         *)
(* A plan maps task ids to tasks.  (A plan that gives one id twice loses a *)
(* task when the run indexes it by id; such plans are left out.)           *)
(***************************************************************************)
EXTENDS Naturals, FiniteSets

CONSTANT PlanIds  \* the ids a plan may use

PlanTypes == {"deep_researcher", "browser", "deep_analyze", "final_answer", "verifier"}
RoleTypes ==
  {"identity_profile", "three_statement_analysis", "peer_analysis", "valuation_analysis", "risk_analysis"}
TaskTypes == PlanTypes \cup RoleTypes

\* _task_type_order
Rank ==
  [t \in TaskTypes |->
     CASE t = "deep_researcher" -> 10 [] t = "browser" -> 20 [] t = "deep_analyze" -> 30
       [] t = "final_answer" -> 40 [] t = "verifier" -> 50 [] OTHER -> 35]

\* A task that is added to a plan has its type for an id, which no plan uses.
ASSUME FreshAssumption == PlanIds \cap TaskTypes = {}

GraphIds == PlanIds \cup TaskTypes

\* In a plan, a task may depend on ids that do not exist.
Task(ids) == [type : TaskTypes, deps : SUBSET ids, priority : 1..5]

Of(tasks, type) == {i \in DOMAIN tasks : tasks[i].type = type}

-----------------------------------------------------------------------------
\* _make_single_verifier_last: if there is one verifier, the last final answer
\* does not wait for it but for what it waits for.
VerifierLast(plan) ==
  IF Cardinality(Of(plan, "verifier")) # 1 \/ Of(plan, "final_answer") = {} THEN plan
  ELSE LET v == CHOOSE i \in Of(plan, "verifier") : TRUE
           f == CHOOSE i \in Of(plan, "final_answer") : TRUE
       IN [plan EXCEPT
             ![f].deps = IF v \in @ THEN (@ \ {v}) \cup (plan[v].deps \ {f}) ELSE @,
             ![v].deps = @ \cup {f}]

\* A bug: nobody is added to verify.
WithMinimumUnverified(plan) ==
  LET added == {t \in PlanTypes \ {"verifier"} : Of(plan, t) = {}}
  IN [i \in DOMAIN plan \cup added |->
        IF i \in DOMAIN plan THEN plan[i]
        ELSE [type |-> i, deps |-> {}, priority |-> 4]]

\* ensure_minimum_task_graph: a task of every type.
WithMinimum(plan) ==
  LET added == {t \in PlanTypes : Of(plan, t) = {}}
  IN [i \in DOMAIN plan \cup added |->
        IF i \in DOMAIN plan THEN plan[i]
        ELSE [type |-> i, deps |-> {}, priority |-> 4]]

\* A bug: the plan is trusted to name what a task waits for.
ImpliedNothing(tasks, i) == {}

\* What a task waits for whatever the plan says.
Implied(tasks, i) ==
  CASE tasks[i].type = "browser"      -> Of(tasks, "deep_researcher")
    [] tasks[i].type = "deep_analyze" ->
         IF Of(tasks, "browser") # {} THEN Of(tasks, "browser") ELSE Of(tasks, "deep_researcher")
    [] tasks[i].type = "final_answer" -> Of(tasks, "deep_analyze")
    [] tasks[i].type = "verifier"     -> Of(tasks, "final_answer")
    [] OTHER                          -> {}

\* A bug: the plan's dependencies on later types are kept.
KeptAll(tasks, i) == tasks[i].deps \cap DOMAIN tasks

\* Of the plan's own dependencies those on earlier or equal types are kept.
Kept(tasks, i) ==
  {d \in tasks[i].deps \cap DOMAIN tasks : Rank[tasks[d].type] <= Rank[tasks[i].type]}

\* apply_implicit_dependencies
Ordered(tasks) ==
  [i \in DOMAIN tasks |-> [tasks[i] EXCEPT !.deps = (Kept(tasks, i) \cup Implied(tasks, i)) \ {i}]]

\* prepare_collaborative_tasks: the role agents between analysis and writing.
\* (Plans hold no role tasks.)
WithRoles(tasks) ==
  LET analyses == Of(tasks, "deep_analyze")
  IN Ordered(
       [i \in DOMAIN tasks \cup RoleTypes |->
          IF i \in RoleTypes
          THEN [type |-> i, deps |-> analyses, priority |-> 5]
          ELSE IF tasks[i].type = "final_answer"
          THEN [tasks[i] EXCEPT !.deps = (@ \ analyses) \cup RoleTypes]
          ELSE tasks[i]])

Graph(plan, diagnostic) ==
  LET tasks == Ordered(WithMinimum(VerifierLast(plan)))
  IN IF diagnostic THEN WithRoles(tasks) ELSE tasks
=============================================================================
