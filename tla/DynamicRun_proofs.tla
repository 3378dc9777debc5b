-------------------------- MODULE DynamicRun_proofs --------------------------
(***************************************************************************)
(* What DynamicRun says for every plan the planner may come up with, every *)
(* execution profile and every way the agents fail, time out and answer.   *)
(*                                                                         *)
(* Two inductive invariants carry the argument.  Skeleton says which       *)
(* agents each part of the run may still be waiting for, and that the      *)
(* tasks done are an initial piece of the sound graph (GraphIsSound): a    *)
(* task is dispatched only when everything it waits for is done, and by    *)
(* the order of the graph nothing of an earlier kind is then open.         *)
(* Bookkeeping says what the results are about in each part: while tasks   *)
(* are executed there is a verdict only once a verifier is done, and then  *)
(* only verifiers are left; afterwards whoever writes is followed by the   *)
(* verifier before the part goes on.  Gatekeeping adds what the delivery   *)
(* gate saw.                                                               *)
(***************************************************************************)
EXTENDS DynamicRun, TLAPS, FiniteSetTheorems, SequenceTheorems

(***************************************************************************)
(* The graph of a run, for every plan the planner may come up with         *)
(* (GraphIsSound): a task of every kind is in it, no task waits for a      *)
(* later kind or for itself, the role agents wait for the analyses, and a  *)
(* task waits for every task of an earlier kind or for somebody of a kind  *)
(* in between, so that the chain of kinds has no gap.                      *)
(*                                                                         *)
(* The normalisation runs apply_implicit_dependencies once for the plan    *)
(* and once more when the role agents have been added; both passes are one *)
(* lemma (OrderedIsSound) about a graph that holds every kind.             *)
(***************************************************************************)
\* The graph a run can rely on.
SoundGraph(g) ==
  /\ \A i \in DOMAIN g : g[i] \in Task(DOMAIN g)
  /\ \A i \in DOMAIN g : i \notin g[i].deps
  /\ \A i \in DOMAIN g : \A d \in g[i].deps : Rank[g[d].type] <= Rank[g[i].type]
  /\ \A i \in DOMAIN g : g[i].type \in RoleTypes =>
       \A d \in g[i].deps : g[d].type = "deep_analyze"
  /\ \A i, j \in DOMAIN g : Rank[g[j].type] < Rank[g[i].type] =>
       j \in g[i].deps \/ \E k \in g[i].deps : Rank[g[j].type] < Rank[g[k].type]
  /\ \A type \in PlanTypes : Of(g, type) # {}

\* A plan as the model returns it.
Planned(p) ==
  /\ DOMAIN p \subseteq PlanIds /\ IsFiniteSet(DOMAIN p)
  /\ \A i \in DOMAIN p : p[i] \in Task(PlanIds) /\ p[i].type \in PlanTypes

(***************************************************************************)
(* Types and their order.                                                  *)
(***************************************************************************)

\* _task_type_order, value by value.
LEMMA RankValues ==
  /\ Rank["deep_researcher"] = 10 /\ Rank["browser"] = 20 /\ Rank["deep_analyze"] = 30
  /\ Rank["final_answer"] = 40 /\ Rank["verifier"] = 50
  /\ \A t \in RoleTypes : Rank[t] = 35
  /\ \A t \in TaskTypes : Rank[t] \in {10, 20, 30, 35, 40, 50}
BY DEF Rank, TaskTypes, PlanTypes, RoleTypes

\* No type is both the planner's and a role agent's.
LEMMA TypesApart == PlanTypes \cap RoleTypes = {}
BY DEF PlanTypes, RoleTypes

\* An update of a task's dependencies makes a task.
LEMMA NewDeps ==
  ASSUME NEW ids, NEW t \in Task(ids), NEW other, NEW D \in SUBSET other
  PROVE  /\ [t EXCEPT !.deps = D] \in Task(other)
         /\ [t EXCEPT !.deps = D].type = t.type
         /\ [t EXCEPT !.deps = D].deps = D
BY DEF Task

(***************************************************************************)
(* A pass of apply_implicit_dependencies.                                  *)
(***************************************************************************)

\* What the pass keeps and what it sets.
LEMMA OrderedFields ==
  ASSUME NEW ids, NEW g, \A i \in DOMAIN g : g[i] \in Task(ids)
  PROVE  /\ DOMAIN Ordered(g) = DOMAIN g
         /\ \A i \in DOMAIN g :
              /\ Ordered(g)[i] \in Task(DOMAIN g)
              /\ Ordered(g)[i].type = g[i].type
              /\ Ordered(g)[i].deps = (Kept(g, i) \cup Implied(g, i)) \ {i}
<1>1. \A i \in DOMAIN g : Kept(g, i) \cup Implied(g, i) \subseteq DOMAIN g
  BY DEF Kept, Implied, Of
<1>2. DOMAIN Ordered(g) = DOMAIN g
  BY DEF Ordered
<1>3. ASSUME NEW i \in DOMAIN g
      PROVE  /\ Ordered(g)[i] \in Task(DOMAIN g)
             /\ Ordered(g)[i].type = g[i].type
             /\ Ordered(g)[i].deps = (Kept(g, i) \cup Implied(g, i)) \ {i}
  <2>1. Ordered(g)[i] = [g[i] EXCEPT !.deps = (Kept(g, i) \cup Implied(g, i)) \ {i}]
    BY DEF Ordered
  <2>2. (Kept(g, i) \cup Implied(g, i)) \ {i} \in SUBSET DOMAIN g
    BY <1>1
  <2>3. g[i] \in Task(ids)
    OBVIOUS
  <2> DEFINE deps == (Kept(g, i) \cup Implied(g, i)) \ {i}
  <2> HIDE DEF deps
  <2>4. /\ [g[i] EXCEPT !.deps = deps] \in Task(DOMAIN g)
        /\ [g[i] EXCEPT !.deps = deps].type = g[i].type
        /\ [g[i] EXCEPT !.deps = deps].deps = deps
    BY <2>2, <2>3, NewDeps DEF deps
  <2> QED BY <2>1, <2>4 DEF deps
<1> QED BY <1>2, <1>3

\* A pass over a graph that holds every kind, in which the role agents wait
\* for the analyses and the writers for the role agents, makes it sound.
LEMMA OrderedIsSound ==
  ASSUME NEW ids, NEW g, \A i \in DOMAIN g : g[i] \in Task(ids),
         \A type \in PlanTypes : Of(g, type) # {},
         \A i \in DOMAIN g : g[i].type \in RoleTypes => g[i].deps = Of(g, "deep_analyze"),
         \A i, j \in DOMAIN g :
           g[i].type = "final_answer" /\ g[j].type \in RoleTypes => j \in g[i].deps
  PROVE  SoundGraph(Ordered(g))
<1> DEFINE o == Ordered(g)
<1>1. /\ DOMAIN o = DOMAIN g
      /\ \A i \in DOMAIN g : /\ o[i] \in Task(DOMAIN g)
                             /\ o[i].type = g[i].type
                             /\ o[i].deps = (Kept(g, i) \cup Implied(g, i)) \ {i}
  BY OrderedFields
<1> HIDE DEF o
<1>2. \A i \in DOMAIN g : g[i].type \in TaskTypes
  BY DEF Task
<1>3. ASSUME NEW i \in DOMAIN g, NEW d \in o[i].deps
      PROVE  d \in DOMAIN g /\ Rank[g[d].type] <= Rank[g[i].type]
  <2>1. CASE d \in Kept(g, i)
    BY <2>1 DEF Kept
  <2>2. CASE d \in Implied(g, i)
    BY <2>2, RankValues DEF Implied, Of
  <2> QED BY <1>1, <2>1, <2>2
<1>4. ASSUME NEW i \in DOMAIN g, g[i].type \in RoleTypes, NEW d \in o[i].deps
      PROVE  g[d].type = "deep_analyze"
  <2>1. Implied(g, i) = {}
    BY <1>4 DEF Implied, RoleTypes
  <2>2. d \in g[i].deps
    BY <1>1, <2>1 DEF Kept
  <2> QED BY <1>4, <2>2 DEF Of
<1>5. ASSUME NEW i \in DOMAIN g, NEW j \in DOMAIN g, Rank[g[j].type] < Rank[g[i].type]
      PROVE  j \in o[i].deps \/ \E k \in o[i].deps : Rank[g[j].type] < Rank[g[k].type]
  <2>0. i # j
    BY <1>5, <1>2, RankValues
  <2>1. \A k \in Implied(g, i) : g[k].type # g[i].type => k \in o[i].deps
    BY <1>1
  <2>2. CASE g[i].type = "deep_researcher"
    BY <2>2, <1>5, <1>2, RankValues
  <2>3. CASE g[i].type = "browser"
    BY <2>3, <1>5, <1>2, <2>1, RankValues DEF Implied, Of, TaskTypes, PlanTypes
  <2>4. CASE g[i].type = "deep_analyze"
    <3>1. PICK b \in DOMAIN g : g[b].type = "browser"
      BY DEF Of, PlanTypes
    <3>2. \A k \in DOMAIN g : g[k].type = "browser" => k \in o[i].deps
      BY <2>4, <2>1, <3>1 DEF Implied, Of
    <3>3. Rank[g[j].type] \in {10, 20}
      BY <2>4, <1>5, <1>2, RankValues
    <3>4. CASE Rank[g[j].type] = 10
      BY <3>1, <3>2, <3>4, RankValues
    <3>5. CASE Rank[g[j].type] = 20
      <4>1. g[j].type = "browser"
        BY <3>5, <1>2, RankValues DEF TaskTypes, PlanTypes
      <4> QED BY <4>1, <3>2
    <3> QED BY <3>3, <3>4, <3>5
  <2>5. CASE g[i].type \in RoleTypes
    <3>1. PICK a \in DOMAIN g : g[a].type = "deep_analyze"
      BY DEF Of, PlanTypes
    <3>2. \A k \in DOMAIN g : g[k].type = "deep_analyze" => k \in o[i].deps
      <4> SUFFICES ASSUME NEW k \in DOMAIN g, g[k].type = "deep_analyze"
                   PROVE  k \in o[i].deps
        OBVIOUS
      <4>1. k \in g[i].deps
        BY <2>5 DEF Of
      <4>2. k \in Kept(g, i)
        BY <4>1, <2>5, RankValues DEF Kept
      <4>3. k # i
        BY <2>5 DEF RoleTypes
      <4> QED BY <4>2, <4>3, <1>1
    <3>3. CASE g[j].type = "deep_analyze"
      BY <3>2, <3>3
    <3>4. CASE g[j].type # "deep_analyze"
      <4>1. Rank[g[j].type] < 30
        BY <3>4, <2>5, <1>5, <1>2, RankValues DEF TaskTypes, PlanTypes
      <4> QED BY <4>1, <3>1, <3>2, RankValues
    <3> QED BY <3>3, <3>4
  <2>6. CASE g[i].type = "final_answer"
    <3>1. PICK a \in DOMAIN g : g[a].type = "deep_analyze"
      BY DEF Of, PlanTypes
    <3>2. \A k \in DOMAIN g : g[k].type = "deep_analyze" => k \in o[i].deps
      BY <2>6, <2>1 DEF Implied, Of
    <3>3. CASE g[j].type \in RoleTypes
      <4>1. j \in Kept(g, i)
        BY <2>6, <3>3, RankValues DEF Kept
      <4> QED BY <4>1, <2>0, <1>1
    <3>4. CASE g[j].type = "deep_analyze"
      BY <3>2, <3>4
    <3>5. CASE g[j].type \notin RoleTypes /\ g[j].type # "deep_analyze"
      <4>1. Rank[g[j].type] < 30
        BY <3>5, <2>6, <1>5, <1>2, RankValues DEF TaskTypes, PlanTypes
      <4> QED BY <4>1, <3>1, <3>2, RankValues
    <3> QED BY <3>3, <3>4, <3>5
  <2>7. CASE g[i].type = "verifier"
    <3>1. PICK f \in DOMAIN g : g[f].type = "final_answer"
      BY DEF Of, PlanTypes
    <3>2. \A k \in DOMAIN g : g[k].type = "final_answer" => k \in o[i].deps
      BY <2>7, <2>1 DEF Implied, Of
    <3>3. CASE g[j].type = "final_answer"
      BY <3>2, <3>3
    <3>4. CASE g[j].type # "final_answer"
      <4>1. Rank[g[j].type] < 40
        BY <3>4, <2>7, <1>5, <1>2, RankValues DEF TaskTypes, PlanTypes
      <4> QED BY <4>1, <3>1, <3>2, RankValues
    <3> QED BY <3>3, <3>4
  <2> QED BY <1>2, <2>2, <2>3, <2>4, <2>5, <2>6, <2>7 DEF TaskTypes, PlanTypes
<1>6. \A type \in PlanTypes : Of(o, type) # {}
  BY <1>1 DEF Of
<1>7. SoundGraph(o)
  BY <1>1, <1>3, <1>4, <1>5, <1>6 DEF SoundGraph
<1> QED BY <1>7 DEF o

(***************************************************************************)
(* The plan, the kinds it lacks, the role agents.                          *)
(***************************************************************************)

\* _make_single_verifier_last changes dependencies only.
LEMMA VerifierLastPlanned ==
  ASSUME NEW p, Planned(p)
  PROVE  Planned(VerifierLast(p))
<1>1. CASE Cardinality(Of(p, "verifier")) # 1 \/ Of(p, "final_answer") = {}
  BY <1>1 DEF VerifierLast
<1>2. CASE ~(Cardinality(Of(p, "verifier")) # 1 \/ Of(p, "final_answer") = {})
  <2> DEFINE v == CHOOSE i \in Of(p, "verifier") : TRUE
             f == CHOOSE i \in Of(p, "final_answer") : TRUE
             q == [p EXCEPT ![f].deps = IF v \in @ THEN (@ \ {v}) \cup (p[v].deps \ {f}) ELSE @]
  <2>1. Of(p, "verifier") # {}
    BY <1>2, FS_EmptySet
  <2>2. v \in DOMAIN p /\ f \in DOMAIN p /\ v # f
    BY <1>2, <2>1 DEF Of
  <2>3. VerifierLast(p) = [q EXCEPT ![v].deps = @ \cup {f}]
    BY <1>2, ZenonT(40) DEF VerifierLast
  <2> HIDE DEF v, f
  <2>4. p[v].deps \subseteq PlanIds /\ p[f].deps \subseteq PlanIds /\ f \in PlanIds
    BY <2>2 DEF Planned, Task
  <2>5. /\ DOMAIN q = DOMAIN p
        /\ \A i \in DOMAIN p : q[i] \in Task(PlanIds) /\ q[i].type = p[i].type
    <3> DEFINE D == IF v \in p[f].deps THEN (p[f].deps \ {v}) \cup (p[v].deps \ {f}) ELSE p[f].deps
    <3>1. D \in SUBSET PlanIds
      BY <2>4
    <3>2. q = [p EXCEPT ![f] = [p[f] EXCEPT !.deps = D]]
      BY <2>2
    <3> HIDE DEF D, q
    <3>3. \A i \in DOMAIN p : q[i] = IF i = f THEN [p[f] EXCEPT !.deps = D] ELSE p[i]
      BY <3>2
    <3>4. /\ [p[f] EXCEPT !.deps = D] \in Task(PlanIds)
          /\ [p[f] EXCEPT !.deps = D].type = p[f].type
      BY <3>1, <2>2, NewDeps DEF Planned
    <3> QED BY <3>2, <3>3, <3>4 DEF Planned
  <2> HIDE DEF q
  <2>6. /\ DOMAIN VerifierLast(p) = DOMAIN p
        /\ \A i \in DOMAIN p : /\ VerifierLast(p)[i] \in Task(PlanIds)
                               /\ VerifierLast(p)[i].type = p[i].type
    <3>1. q[v].deps \cup {f} \in SUBSET PlanIds
      BY <2>2, <2>4, <2>5 DEF Task
    <3>2. /\ DOMAIN VerifierLast(p) = DOMAIN p
          /\ \A i \in DOMAIN p : VerifierLast(p)[i] =
               IF i = v THEN [q[v] EXCEPT !.deps = q[v].deps \cup {f}] ELSE q[i]
      BY <2>2, <2>3, <2>5
    <3>3. /\ [q[v] EXCEPT !.deps = q[v].deps \cup {f}] \in Task(PlanIds)
          /\ [q[v] EXCEPT !.deps = q[v].deps \cup {f}].type = q[v].type
      BY <3>1, <2>2, <2>5, NewDeps
    <3> QED BY <3>2, <3>3, <2>5
  <2> QED BY <2>6 DEF Planned
<1> QED BY <1>1, <1>2

\* ensure_minimum_task_graph leaves no kind out and adds only those.
LEMMA WithMinimumFull ==
  ASSUME NEW p, Planned(p)
  PROVE  LET m == WithMinimum(p)
         IN  /\ DOMAIN m \subseteq PlanIds \cup PlanTypes
             /\ \A i \in DOMAIN m : m[i] \in Task(PlanIds) /\ m[i].type \in PlanTypes
             /\ \A type \in PlanTypes : Of(m, type) # {}
<1> DEFINE m == WithMinimum(p)
           added == {t \in PlanTypes : Of(p, t) = {}}
<1>1. /\ DOMAIN m = DOMAIN p \cup added
      /\ \A i \in DOMAIN p : m[i] = p[i]
      /\ \A i \in added \ DOMAIN p : m[i] = [type |-> i, deps |-> {}, priority |-> 4]
  BY DEF WithMinimum
<1>2. added \cap DOMAIN p = {}
  BY FreshAssumption DEF Planned, TaskTypes
<1> HIDE DEF m
<1>3. \A i \in DOMAIN m : m[i] \in Task(PlanIds) /\ m[i].type \in PlanTypes
  <2>1. \A i \in DOMAIN p : m[i] \in Task(PlanIds) /\ m[i].type \in PlanTypes
    BY <1>1 DEF Planned
  <2>2. ASSUME NEW i \in added
        PROVE  m[i] \in Task(PlanIds) /\ m[i].type \in PlanTypes
    <3>1. m[i] = [type |-> i, deps |-> {}, priority |-> 4] /\ i \in PlanTypes
      BY <1>1, <1>2
    <3> QED BY <3>1 DEF Task, TaskTypes
  <2> QED BY <1>1, <2>1, <2>2
<1>4. ASSUME NEW type \in PlanTypes PROVE Of(m, type) # {}
  <2>1. CASE Of(p, type) = {}
    <3>1. type \in DOMAIN m /\ m[type] = [type |-> type, deps |-> {}, priority |-> 4]
      BY <2>1, <1>1, <1>2
    <3> QED BY <3>1 DEF Of
  <2>2. CASE Of(p, type) # {}
    BY <2>2, <1>1 DEF Of
  <2> QED BY <2>1, <2>2
<1>5. DOMAIN m \subseteq PlanIds \cup PlanTypes
  BY <1>1 DEF Planned
<1> QED BY <1>3, <1>4, <1>5 DEF m

\* The graph of a run, in either mode, is sound.
THEOREM GraphIsSound ==
  ASSUME NEW p, Planned(p), NEW diagnostic \in BOOLEAN
  PROVE  SoundGraph(Graph(p, diagnostic)) /\ DOMAIN Graph(p, diagnostic) \subseteq GraphIds
<1> DEFINE m == WithMinimum(VerifierLast(p))
           g == Ordered(m)
<1>1. /\ DOMAIN m \subseteq PlanIds \cup PlanTypes
      /\ \A i \in DOMAIN m : m[i] \in Task(PlanIds) /\ m[i].type \in PlanTypes
      /\ \A type \in PlanTypes : Of(m, type) # {}
  BY VerifierLastPlanned, WithMinimumFull
<1> HIDE DEF m
<1>2. SoundGraph(g)
  BY <1>1, TypesApart, OrderedIsSound
<1>3. /\ DOMAIN g = DOMAIN m
      /\ \A i \in DOMAIN g : g[i].type \in PlanTypes
  BY <1>1, OrderedFields
<1>4. CASE ~diagnostic
  BY <1>1, <1>2, <1>3, <1>4 DEF Graph, GraphIds, TaskTypes, m
<1>5. CASE diagnostic
  <2> HIDE DEF g
  <2> DEFINE analyses == Of(g, "deep_analyze")
             w == [i \in DOMAIN g \cup RoleTypes |->
                     IF i \in RoleTypes
                     THEN [type |-> i, deps |-> analyses, priority |-> 5]
                     ELSE IF g[i].type = "final_answer"
                     THEN [g[i] EXCEPT !.deps = (@ \ analyses) \cup RoleTypes]
                     ELSE g[i]]
  <2>1. Graph(p, diagnostic) = Ordered(w)
    BY <1>5 DEF Graph, WithRoles, g, m
  <2>2. DOMAIN w = DOMAIN g \cup RoleTypes
    OBVIOUS
  <2>3. DOMAIN g \cap RoleTypes = {}
    BY <1>1, <1>3, TypesApart, FreshAssumption DEF TaskTypes
  <2>4. ASSUME NEW i \in RoleTypes
        PROVE  /\ w[i] \in Task(DOMAIN w)
               /\ w[i].type = i /\ w[i].deps = analyses
    BY DEF Task, Of, TaskTypes
  <2>5. ASSUME NEW i \in DOMAIN g
        PROVE  /\ w[i] \in Task(DOMAIN w)
               /\ w[i].type = g[i].type
               /\ w[i].type = "final_answer" => RoleTypes \subseteq w[i].deps
    <3>1. g[i] \in Task(DOMAIN g)
      BY <1>2 DEF SoundGraph
    <3>2. CASE g[i].type = "final_answer"
      <4>1. w[i] = [g[i] EXCEPT !.deps = (g[i].deps \ analyses) \cup RoleTypes]
        BY <3>2, <2>3
      <4>2. (g[i].deps \ analyses) \cup RoleTypes \in SUBSET DOMAIN w
        BY <3>1 DEF Task
      <4> DEFINE deps == (g[i].deps \ analyses) \cup RoleTypes
      <4>5. deps \in SUBSET DOMAIN w
        BY <4>2
      <4> HIDE DEF w, deps
      <4>3. /\ [g[i] EXCEPT !.deps = deps] \in Task(DOMAIN w)
            /\ [g[i] EXCEPT !.deps = deps].type = g[i].type
            /\ [g[i] EXCEPT !.deps = deps].deps = deps
        BY ONLY <4>5, <3>1, NewDeps
      <4> QED BY <4>1, <4>3 DEF deps
    <3>3. CASE g[i].type # "final_answer"
      <4>1. w[i] = g[i]
        BY <3>3, <2>3
      <4> QED BY <4>1, <3>1, <3>3 DEF Task
    <3> QED BY <3>2, <3>3
  <2> HIDE DEF w
  <2>6. \A i \in DOMAIN w : w[i] \in Task(DOMAIN w)
    BY <2>2, <2>4, <2>5
  <2>7. \A type \in PlanTypes : Of(w, type) # {}
    BY <1>2, <2>2, <2>5 DEF SoundGraph, Of
  <2>8. Of(w, "deep_analyze") = analyses
    BY <2>2, <2>4, <2>5 DEF Of, RoleTypes
  <2>9. \A i \in DOMAIN w : w[i].type \in RoleTypes => i \in RoleTypes /\ w[i].deps = Of(w, "deep_analyze")
    BY <1>3, <2>2, <2>4, <2>5, <2>8, TypesApart
  <2>10. \A i, j \in DOMAIN w :
           w[i].type = "final_answer" /\ w[j].type \in RoleTypes => j \in w[i].deps
    BY <2>2, <2>4, <2>5, <2>9 DEF RoleTypes
  <2>11. SoundGraph(Ordered(w))
    BY <2>6, <2>7, <2>9, <2>10, OrderedIsSound
  <2>12. DOMAIN Ordered(w) = DOMAIN w
    BY <2>6, OrderedFields
  <2> QED BY <1>1, <1>3, <2>1, <2>2, <2>11, <2>12 DEF GraphIds, TaskTypes
<1> QED BY <1>4, <1>5

-----------------------------------------------------------------------------

(***************************************************************************)
(* Picking the next task, and sequences of agents.                         *)
(***************************************************************************)

\* Among finitely many ranks one is the lowest.
LEMMA LowestRank ==
  ASSUME NEW S, S # {}, NEW r, \A i \in S : r[i] \in {10, 20, 30, 35, 40, 50}
  PROVE  \E i \in S : \A j \in S : r[i] <= r[j]
<1> DEFINE At(n) == \E i \in S : r[i] = n
<1>1. CASE At(10) BY <1>1
<1>2. CASE ~At(10) /\ At(20) BY <1>2
<1>3. CASE ~At(10) /\ ~At(20) /\ At(30) BY <1>3
<1>4. CASE ~At(10) /\ ~At(20) /\ ~At(30) /\ At(35) BY <1>4
<1>5. CASE ~At(10) /\ ~At(20) /\ ~At(30) /\ ~At(35) /\ At(40) BY <1>5
<1>6. CASE ~At(10) /\ ~At(20) /\ ~At(30) /\ ~At(35) /\ ~At(40)
  <2>1. \A j \in S : r[j] = 50
    BY <1>6
  <2> QED BY <2>1
<1> QED BY <1>1, <1>2, <1>3, <1>4, <1>5, <1>6

\* And among finitely many priorities one is the highest.
LEMMA HighestPriority ==
  ASSUME NEW S, S # {}, NEW p, \A i \in S : p[i] \in 1..5
  PROVE  \E i \in S : \A j \in S : p[i] >= p[j]
<1> DEFINE At(n) == \E i \in S : p[i] = n
<1>1. CASE At(5) BY <1>1
<1>2. CASE ~At(5) /\ At(4) BY <1>2
<1>3. CASE ~At(5) /\ ~At(4) /\ At(3) BY <1>3
<1>4. CASE ~At(5) /\ ~At(4) /\ ~At(3) /\ At(2) BY <1>4
<1>5. CASE ~At(5) /\ ~At(4) /\ ~At(3) /\ ~At(2)
  <2>1. \A j \in S : p[j] = 1
    BY <1>5
  <2> QED BY <2>1
<1> QED BY <1>1, <1>2, <1>3, <1>4, <1>5

Graphed == \A i \in DOMAIN tasks : tasks[i] \in Task(DOMAIN tasks)

\* If a task is ready, the one that is picked is.
LEMMA FirstIsReady ==
  ASSUME Graphed, Ready # {}
  PROVE  First \in Ready
<1> DEFINE r == [i \in Ready |-> Rank[tasks[i].type]]
           p == [i \in Ready |-> tasks[i].priority]
<1>0. \A i \in Ready : tasks[i].type \in TaskTypes /\ tasks[i].priority \in 1..5
  BY DEF Graphed, Task, Ready, Pending
<1>1. \A i \in Ready : r[i] \in {10, 20, 30, 35, 40, 50}
  BY <1>0, RankValues
<1> HIDE DEF r
<1>2. PICK m \in Ready : \A j \in Ready : r[m] <= r[j]
  BY <1>1, LowestRank
<1> DEFINE L == {i \in Ready : r[i] = r[m]}
<1>3. L # {} /\ \A i \in L : p[i] \in 1..5
  BY <1>0
<1> HIDE DEF p
<1>4. PICK f \in L : \A j \in L : p[f] >= p[j]
  BY <1>3, HighestPriority
<1>5. ASSUME NEW j \in Ready
      PROVE  \/ r[f] < r[j]
             \/ r[f] = r[j] /\ p[f] >= p[j]
  BY <1>1, <1>2, <1>4
<1>6. \A j \in Ready :
        \/ Rank[tasks[f].type] < Rank[tasks[j].type]
        \/ /\ Rank[tasks[f].type] = Rank[tasks[j].type]
           /\ tasks[f].priority >= tasks[j].priority
  BY <1>5 DEF r, p
<1> QED BY <1>6 DEF First

\* Sets of a few agents are finite.
LEMMA FewAreFinite ==
  ASSUME NEW a, NEW b, NEW c, NEW d
  PROVE  IsFiniteSet({}) /\ IsFiniteSet({a}) /\ IsFiniteSet({a, b}) /\ IsFiniteSet({a, b, c, d})
<1>1. IsFiniteSet({}) /\ IsFiniteSet({a})
  BY FS_EmptySet, FS_Singleton
<1>2. IsFiniteSet({a} \cup {b})
  BY <1>1, FS_AddElement
<1>3. IsFiniteSet(({a} \cup {b}) \cup {c})
  BY <1>2, FS_AddElement
<1>4. IsFiniteSet((({a} \cup {b}) \cup {c}) \cup {d})
  BY <1>3, FS_AddElement
<1>5. {a} \cup {b} = {a, b} /\ (({a} \cup {b}) \cup {c}) \cup {d} = {a, b, c, d}
  OBVIOUS
<1> QED BY <1>1, <1>2, <1>4, <1>5

\* The agents of a set, in some order.
LEMMA SetToSeqIsSeq ==
  ASSUME NEW S, IsFiniteSet(S)
  PROVE  SetToSeq(S) \in Seq(S)
<1>1. Cardinality(S) \in Nat /\ ExistsBijection(1..Cardinality(S), S)
  BY FS_CardinalityType
<1>2. \E f \in [1..Cardinality(S) -> S] : IsInjective(f)
  BY <1>1 DEF ExistsBijection, Bijection, Injection
<1>3. SetToSeq(S) \in [1..Cardinality(S) -> S]
  BY <1>2 DEF SetToSeq
<1> QED BY <1>1, <1>3

\* What is left to execute when the first agent has been.
LEMMA TailOfAgents ==
  ASSUME NEW S, NEW s \in Seq(S), s # <<>>
  PROVE  /\ Head(s) \in S /\ Head(s) = s[1] /\ Tail(s) \in Seq(S)
         /\ Len(s) \in Nat \ {0} /\ Len(Tail(s)) = Len(s) - 1
         /\ \A n \in 1..Len(Tail(s)) : Tail(s)[n] = s[n + 1]
         /\ (Tail(s) = <<>>) <=> (Len(s) = 1)
<1>1. Len(s) \in Nat \ {0}
  OBVIOUS
<1>2. Head(s) \in S /\ Head(s) = s[1] /\ Tail(s) \in Seq(S)
  OBVIOUS
<1>3. Len(Tail(s)) = Len(s) - 1 /\ \A n \in 1..Len(Tail(s)) : Tail(s)[n] = s[n + 1]
  BY <1>1
<1>4. (Tail(s) = <<>>) <=> (Len(Tail(s)) = 0)
  BY <1>2, EmptySeq
<1> QED BY <1>1, <1>2, <1>3, <1>4

(***************************************************************************)
(* The skeleton of a run.                                                  *)
(***************************************************************************)

\* Whom each part may still be waiting for.
Control ==
  /\ at = "tasks" =>
       \/ todo = <<>> /\ task = {}
       \/ \E i \in Pending : task = {i} /\ todo = <<tasks[i].type>>
  /\ at \notin {"tasks", "raised"} => task = {}
  /\ at = "objections" =>
       /\ Ready # {} /\ tasks[First].type = "final_answer"
       /\ todo \in Seq(RoleTypes \cup {"critic"})
  /\ at = "verification" => todo \in {<<>>, <<"final_answer", "verifier">>, <<"verifier">>}
  /\ at = "gaps" => todo \in {<<>>, <<"gap_resolver">>}
  /\ at = "delivery" => todo = <<>> \/ todo[Len(todo)] = "verifier"
  /\ at \in {"files", "done", "raised"} => todo = <<>>

Skeleton == TypeOK /\ SoundGraph(tasks) /\ Control /\ PipelineOrder

\* The plans of a run are plans.
LEMMA PlansArePlanned == \A p \in Plans : Planned(p)
BY RunAssumption DEF Planned

LEMMA SkeletonInit == Init => Skeleton
<1> SUFFICES ASSUME Init PROVE Skeleton
  OBVIOUS
<1>1. PICK p \in Plans, diagnostic \in BOOLEAN, profile \in Profiles, earlier \in EarlierSummaries :
        /\ tasks = Graph(p, diagnostic)
        /\ mode = [diagnostic |-> diagnostic, profile |-> profile, earlier |-> earlier] /\ summary = earlier
  BY DEF Init
<1>2. SoundGraph(tasks) /\ DOMAIN tasks \subseteq GraphIds
  BY <1>1, PlansArePlanned, GraphIsSound
<1>3. NoReport \in Reports
  BY DEF NoReport, Reports
<1>4. TypeOK
  <2>1. todo \in Seq(Agents)
    BY DEF Init
  <2>2. verdict.says \in {"none", "passed", "failed"} /\ gate.pass \in BOOLEAN
    BY DEF Init, NoVerdict
  <2>3. summary \in {"none", "passed", "failed"}
    BY <1>1, RunAssumption
  <2> QED BY <1>1, <1>2, <1>3, <2>1, <2>2, <2>3 DEF TypeOK, SoundGraph, Init
<1>5. Control
  BY DEF Init, Control
<1>6. PipelineOrder
  BY DEF Init, PipelineOrder
<1> QED BY <1>2, <1>4, <1>5, <1>6 DEF Skeleton

\* Where the graph, the tasks done and the task in hand stay, so does the order.
LEMMA OrderStays ==
  ASSUME PipelineOrder, UNCHANGED <<tasks, done, task>>
  PROVE  PipelineOrder'
BY DEF PipelineOrder, Pending

\* A ready task may be taken in hand: by the order of the graph nothing of an
\* earlier kind is open.
LEMMA OrderTaken ==
  ASSUME TypeOK, SoundGraph(tasks), PipelineOrder, NEW i \in Ready,
         task' = {i}, UNCHANGED <<tasks, done>>
  PROVE  PipelineOrder'
<1> SUFFICES ASSUME NEW j \in Pending PROVE Rank[tasks[j].type] >= Rank[tasks[i].type]
  BY DEF PipelineOrder, Pending
<1>1. i \in DOMAIN tasks /\ j \in DOMAIN tasks /\ tasks[i].deps \subseteq done /\ j \notin done
  BY DEF Ready, Pending
<1>2. Rank[tasks[i].type] \in Nat /\ Rank[tasks[j].type] \in Nat
  <2>1. tasks[i].type \in TaskTypes /\ tasks[j].type \in TaskTypes
    BY <1>1 DEF SoundGraph, Task
  <2> QED BY <2>1, RankValues
<1>3. CASE Rank[tasks[j].type] < Rank[tasks[i].type]
  <2>1. PICK k \in tasks[i].deps : Rank[tasks[j].type] < Rank[tasks[k].type]
    BY <1>1, <1>3 DEF SoundGraph
  <2>2. k \in done /\ k \in DOMAIN tasks
    BY <1>1, <2>1 DEF TypeOK
  <2>3. Rank[tasks[j].type] >= Rank[tasks[k].type]
    BY <2>2 DEF PipelineOrder
  <2>4. Rank[tasks[k].type] \in Nat
    <3>1. tasks[k].type \in TaskTypes
      BY <2>2 DEF SoundGraph, Task
    <3> QED BY <3>1, RankValues
  <2> QED BY <1>2, <2>1, <2>3, <2>4
<1> QED BY <1>2, <1>3

\* The task in hand may be done.
LEMMA OrderDone ==
  ASSUME PipelineOrder, task' = {}, done' = done \cup task, UNCHANGED tasks
  PROVE  PipelineOrder'
BY DEF PipelineOrder, Pending

\* When an agent has been executed the skeleton stands, whatever it returned.
LEMMA ExecutedSkeleton ==
  ASSUME Skeleton, Executing, Executed
  PROVE  /\ todo' \in Seq(Agents) /\ task' = {} /\ done' \subseteq DOMAIN tasks
         /\ PipelineOrder' /\ Control'
<1>1. todo \in Seq(Agents) /\ todo # <<>> /\ task \subseteq DOMAIN tasks /\ done \subseteq DOMAIN tasks
  BY DEF Skeleton, TypeOK, Executing
<1>2. /\ Tail(todo) \in Seq(Agents) /\ Len(todo) \in Nat \ {0} /\ Len(Tail(todo)) = Len(todo) - 1
      /\ \A n \in 1..Len(Tail(todo)) : Tail(todo)[n] = todo[n + 1]
      /\ (Tail(todo) = <<>>) <=> (Len(todo) = 1)
  BY <1>1, TailOfAgents
<1>3. /\ todo' = Tail(todo) /\ task' = {} /\ done' = done \cup task
      /\ tasks' = tasks /\ at' = at
  BY DEF Executed, plan
<1>4. PipelineOrder'
  BY <1>3, OrderDone DEF Skeleton
<1>5. Control'
  <2>1. CASE at = "tasks"
    <3>1. todo' = <<>>
      BY <2>1, <1>1, <1>3 DEF Skeleton, Control
    <3> QED BY <2>1, <3>1, <1>3 DEF Control
  <2>2. CASE at = "objections"
    <3>1. task = {} /\ done' = done
      BY <2>2, <1>3 DEF Skeleton, Control
    <3>2. todo' \in Seq(RoleTypes \cup {"critic"})
      BY <2>2, <1>1, <1>3, TailOfAgents DEF Skeleton, Control
    <3>3. Ready' = Ready /\ First' = First
      BY <3>1, <1>3 DEF Ready, Pending, First
    <3> QED BY <2>2, <3>2, <3>3, <1>3 DEF Skeleton, Control
  <2>3. CASE at = "verification"
    <3>1. CASE todo = <<"final_answer", "verifier">>
      <4>1. todo' = <<"verifier">>
        BY <3>1, <1>3
      <4> QED BY <2>3, <4>1, <1>3 DEF Control
    <3>2. CASE todo = <<"verifier">>
      <4>1. todo' = <<>>
        BY <3>2, <1>3
      <4> QED BY <2>3, <4>1, <1>3 DEF Control
    <3> QED BY <2>3, <3>1, <3>2, <1>1 DEF Skeleton, Control
  <2>4. CASE at = "gaps"
    <3>1. todo' = <<>>
      BY <2>4, <1>1, <1>3 DEF Skeleton, Control
    <3> QED BY <2>4, <3>1, <1>3 DEF Control
  <2>5. CASE at = "delivery"
    <3>1. todo[Len(todo)] = "verifier"
      BY <2>5, <1>1 DEF Skeleton, Control
    <3>2. todo' = <<>> \/ todo'[Len(todo')] = "verifier"
      BY <3>1, <1>2, <1>3
    <3> QED BY <2>5, <3>2, <1>3 DEF Control
  <2>6. CASE at \in {"files", "done", "raised"}
    BY <2>6, <1>1 DEF Skeleton, Control
  <2>7. at \in {"tasks", "objections", "verification", "gaps", "delivery", "files", "done", "raised"}
    BY DEF Skeleton, TypeOK
  <2> QED BY <2>1, <2>2, <2>3, <2>4, <2>5, <2>6, <2>7
<1> QED BY <1>1, <1>2, <1>3, <1>4, <1>5

\* The agents of a rework, and those who follow them.
LEMMA ReworkAgents ==
  ASSUME NEW A, A \subseteq Agents, IsFiniteSet(A), NEW t \in Seq(Agents), t # <<>>
  PROVE  /\ SetToSeq(A) \o t \in Seq(Agents)
         /\ (SetToSeq(A) \o t)[Len(SetToSeq(A) \o t)] = t[Len(t)]
<1>1. SetToSeq(A) \in Seq(Agents)
  BY SetToSeqIsSeq, SeqMonotonic
<1>2. Len(t) \in Nat \ {0} /\ Len(SetToSeq(A)) \in Nat
  BY <1>1, EmptySeq, LenProperties
<1> QED BY <1>1, <1>2, ConcatProperties

\* The agents an agent's results are merged from have the types of the board.
LEMMA BoardTypes ==
  ASSUME TypeOK, AgentCompletes \/ AgentTimesOut
  PROVE  /\ critic' \in {"none", "clear", "blocking"} /\ degraded' \in BOOLEAN
         /\ claims' \in Nat /\ artifacts' \in BOOLEAN /\ report' \in Reports
         /\ verdict'.says \in {"none", "passed", "failed"}
<1>1. report.n + 1 \in Nat /\ claims + 1 \in Nat
  BY DEF TypeOK, Reports
<1>2. Written \in Reports /\ [Written EXCEPT !.empty = TRUE] \in Reports
  BY <1>1 DEF TypeOK, Written, Reports
<1>3. NoVerdict.says = "none"
  BY DEF NoVerdict
<1>4. CASE AgentCompletes
  BY <1>1, <1>2, <1>4 DEF AgentCompletes, TypeOK
<1>5. CASE AgentTimesOut
  BY <1>1, <1>2, <1>3, <1>5 DEF AgentTimesOut, EmptyMerged, TypeOK
<1> QED BY <1>4, <1>5

\* Every step keeps the skeleton.
LEMMA SkeletonNext == Skeleton /\ [Next]_vars => Skeleton'
<1> SUFFICES ASSUME Skeleton, [Next]_vars PROVE Skeleton'
  OBVIOUS
<1> USE DEF Skeleton
<1>0. Graphed
  BY DEF Graphed, SoundGraph
<1>1. CASE AgentCompletes \/ AgentTimesOut
  <2>1. Executing /\ Executed
    BY <1>1 DEF AgentCompletes, AgentTimesOut
  <2>2. /\ todo' \in Seq(Agents) /\ task' = {} /\ done' \subseteq DOMAIN tasks
        /\ PipelineOrder' /\ Control'
    BY <2>1, ExecutedSkeleton
  <2>3. UNCHANGED <<tasks, mode, at, expired, round, summary, gate, disk>>
    BY <2>1 DEF Executed, plan, files
  <2>4. TypeOK'
    BY <1>1, <2>2, <2>3, BoardTypes DEF TypeOK
  <2> QED BY <2>2, <2>3, <2>4
<1>2. CASE AgentFails
  <2>1. Executing /\ UNCHANGED <<critic, degraded, claims, artifacts, report, verdict>>
    BY <1>2 DEF AgentFails, board
  <2>2. CASE MayFail
    <3>1. Executed
      BY <1>2, <2>2 DEF AgentFails
    <3>2. /\ todo' \in Seq(Agents) /\ task' = {} /\ done' \subseteq DOMAIN tasks
          /\ PipelineOrder' /\ Control'
      BY <2>1, <3>1, ExecutedSkeleton
    <3>3. UNCHANGED <<tasks, mode, at, expired, round, summary, gate, disk>>
      BY <3>1 DEF Executed, plan, files
    <3> QED BY <2>1, <3>2, <3>3 DEF TypeOK
  <2>3. CASE ~MayFail
    <3>1. /\ at' = "raised" /\ todo' = <<>>
          /\ UNCHANGED <<tasks, mode, task, done, expired, round, summary, gate, disk>>
      BY <1>2, <2>3 DEF AgentFails, plan, files
    <3>2. PipelineOrder'
      BY <3>1, OrderStays
    <3> QED BY <2>1, <3>1, <3>2 DEF TypeOK, Control
  <2> QED BY <2>2, <2>3
<1>3. CASE DeadlinePasses
  <2>1. /\ expired' = TRUE
        /\ UNCHANGED <<tasks, mode, at, todo, task, done, round>>
        /\ UNCHANGED <<critic, degraded, claims, artifacts, report, verdict>>
        /\ UNCHANGED <<summary, gate, disk>>
    BY <1>3 DEF DeadlinePasses, plan, board, files
  <2>2. PipelineOrder'
    BY <2>1, OrderStays
  <2>3. Ready' = Ready /\ First' = First /\ Pending' = Pending
    BY <2>1 DEF Ready, Pending, First
  <2>4. Control'
    BY <2>1, <2>3 DEF Control
  <2> QED BY <2>1, <2>2, <2>4 DEF TypeOK
<1>4. CASE Blocked
  <2>1. /\ at = "tasks" /\ at' = "raised" /\ todo' = <<>>
        /\ UNCHANGED <<tasks, mode, task, done, expired, round>>
        /\ UNCHANGED <<critic, degraded, claims, artifacts, report, verdict>>
        /\ UNCHANGED <<summary, gate, disk>>
    BY <1>4 DEF Blocked, InLoop, Executing, plan, board, files
  <2>2. PipelineOrder'
    BY <2>1, OrderStays
  <2> QED BY <2>1, <2>2 DEF TypeOK, Control
<1>5. CASE Dispatch
  <2>1. /\ at = "tasks" /\ Ready # {} /\ task' = {First} /\ todo' = <<tasks[First].type>>
        /\ UNCHANGED <<tasks, mode, at, done, expired, round>>
        /\ UNCHANGED <<critic, degraded, claims, artifacts, report, verdict>>
        /\ UNCHANGED <<summary, gate, disk>>
    BY <1>5 DEF Dispatch, InLoop, plan, board, files
  <2>2. First \in Ready /\ First \in Pending /\ First \in DOMAIN tasks
    BY <1>0, <2>1, FirstIsReady DEF Ready, Pending
  <2>3. PipelineOrder'
    BY <2>1, <2>2, OrderTaken
  <2>4. Pending' = Pending
    BY <2>1 DEF Pending
  <2>5. Control'
    BY <2>1, <2>2, <2>4 DEF Control
  <2>6. <<tasks[First].type>> \in Seq(Agents)
    BY <2>2, <1>0 DEF Graphed, Task, Agents
  <2> QED BY <2>1, <2>2, <2>3, <2>5, <2>6 DEF TypeOK
<1>6. CASE Review
  <2>1. /\ at = "tasks" /\ todo = <<>> /\ Ready # {} /\ tasks[First].type = "final_answer"
        /\ todo' = <<"critic">> /\ at' = "objections" /\ round' = 0
        /\ UNCHANGED <<tasks, mode, task, done, expired>>
        /\ UNCHANGED <<critic, degraded, claims, artifacts, report, verdict>>
        /\ UNCHANGED <<summary, gate, disk>>
    BY <1>6 DEF Review, ToReview, InLoop, Executing, Goto, plan, board, files
  <2>2. PipelineOrder'
    BY <2>1, OrderStays
  <2>3. Ready' = Ready /\ First' = First /\ task = {}
    BY <2>1 DEF Ready, Pending, First, Control
  <2>4. todo' \in Seq(RoleTypes \cup {"critic"}) /\ todo' \in Seq(Agents)
    BY <2>1 DEF Agents
  <2>5. Control'
    BY <2>1, <2>3, <2>4 DEF Control
  <2> QED BY <2>1, <2>2, <2>4, <2>5 DEF TypeOK
<1>7. CASE ReworkRoles
  <2>1. PICK targets \in {{}, {"identity_profile"}, {"valuation_analysis", "risk_analysis"}} :
          todo' = SetToSeq(targets) \o <<"critic">>
    BY <1>7 DEF ReworkRoles
  <2>2. /\ at = "objections" /\ round' = round + 1
        /\ UNCHANGED <<tasks, mode, at, task, done, expired>>
        /\ UNCHANGED <<critic, degraded, claims, artifacts, report, verdict>>
        /\ UNCHANGED <<summary, gate, disk>>
    BY <1>7 DEF ReworkRoles, plan, board, files
  <2>3. PipelineOrder'
    BY <2>2, OrderStays
  <2>4. IsFiniteSet(targets) /\ targets \subseteq RoleTypes \cup {"critic"}
    <3>1. IsFiniteSet({"identity_profile"}) /\ IsFiniteSet({})
      BY FewAreFinite
    <3>2. IsFiniteSet({"valuation_analysis", "risk_analysis"})
      BY FewAreFinite
    <3>3. IsFiniteSet(targets)
      BY <3>1, <3>2
    <3>4. targets \subseteq RoleTypes \cup {"critic"}
      BY DEF RoleTypes
    <3> QED BY <3>3, <3>4
  <2>5. todo' \in Seq(RoleTypes \cup {"critic"})
    <3>1. SetToSeq(targets) \in Seq(RoleTypes \cup {"critic"})
      BY <2>4, SetToSeqIsSeq, SeqMonotonic
    <3>2. <<"critic">> \in Seq(RoleTypes \cup {"critic"})
      OBVIOUS
    <3> QED BY <2>1, <3>1, <3>2, ConcatProperties
  <2>6. todo' \in Seq(Agents)
    <3>1. RoleTypes \cup {"critic"} \subseteq Agents
      BY DEF Agents, TaskTypes
    <3> QED BY <2>5, <3>1, SeqMonotonic
  <2>7. Ready' = Ready /\ First' = First
    BY <2>2 DEF Ready, Pending, First
  <2>8. Control'
    BY <2>2, <2>5, <2>7 DEF Control
  <2>9. round' \in Nat
    BY <2>2 DEF TypeOK
  <2> QED BY <2>2, <2>3, <2>6, <2>8, <2>9 DEF TypeOK
<1>8. CASE Settle
  <2>1. /\ at = "objections" /\ at' = "tasks" /\ round' = 0 /\ task' = {First}
        /\ todo' = <<"final_answer">> /\ degraded' = (degraded \/ critic = "blocking")
        /\ UNCHANGED <<tasks, mode, done, expired, critic, claims, artifacts, report, verdict>>
        /\ UNCHANGED <<summary, gate, disk>>
    BY <1>8 DEF Settle, Goto, plan, files
  <2>2. /\ First \in Ready /\ First \in Pending /\ First \in DOMAIN tasks
        /\ tasks[First].type = "final_answer"
    BY <1>0, <2>1, FirstIsReady DEF Ready, Pending, Control
  <2>3. PipelineOrder'
    BY <2>1, <2>2, OrderTaken
  <2>4. Pending' = Pending
    BY <2>1 DEF Pending
  <2>5. Control'
    BY <2>1, <2>2, <2>4 DEF Control
  <2>6. <<"final_answer">> \in Seq(Agents)
    BY DEF Agents, TaskTypes, PlanTypes
  <2>7. degraded' \in BOOLEAN /\ round' \in Nat /\ at' = "tasks"
    BY <2>1 DEF TypeOK
  <2>8. todo' \in Seq(Agents) /\ task' \subseteq DOMAIN tasks
    BY <2>1, <2>2, <2>6
  <2>9. TypeOK'
    BY <2>1, <2>7, <2>8 DEF TypeOK
  <2> QED BY <2>1, <2>3, <2>5, <2>9
<1>9. CASE TasksEnd \/ GapsResolved \/ ReworkOver
  <2>1. /\ at' \in {"verification", "files", "delivery"} /\ todo = <<>> /\ round' = 0 /\ task = {}
        /\ UNCHANGED <<tasks, mode, todo, task, done, expired>>
        /\ UNCHANGED <<critic, degraded, claims, artifacts, report, verdict>>
        /\ UNCHANGED <<summary, gate, disk>>
    <3>1. /\ at \in {"tasks", "gaps", "delivery"} /\ todo = <<>> /\ round' = 0
          /\ at' \in {"verification", "files", "delivery"}
          /\ UNCHANGED <<plan, todo, task, done, expired, board, files>>
      BY <1>9 DEF TasksEnd, GapsResolved, ReworkOver, Executing, Goto
    <3>2. task = {}
      BY <3>1 DEF Control
    <3> QED BY <3>1, <3>2 DEF plan, board, files
  <2>2. PipelineOrder'
    BY <2>1, OrderStays
  <2> QED BY <2>1, <2>2 DEF TypeOK, Control
<1>10. CASE Revise \/ Revised
  <2>1. /\ \/ at' = "verification" /\ todo' = <<"final_answer", "verifier">> /\ round' = round + 1
           \/ at' = "gaps" /\ todo' = <<"gap_resolver">> /\ round' = 0
        /\ task = {}
        /\ UNCHANGED <<tasks, mode, task, done, expired>>
        /\ UNCHANGED <<critic, degraded, claims, artifacts, report, verdict>>
        /\ UNCHANGED <<summary, gate, disk>>
    BY <1>10 DEF Revise, Revised, Goto, Control, plan, board, files
  <2>2. PipelineOrder'
    BY <2>1, OrderStays
  <2>3. <<"final_answer", "verifier">> \in Seq(Agents) /\ <<"gap_resolver">> \in Seq(Agents)
    BY DEF Agents, TaskTypes, PlanTypes
  <2>4. todo' \in Seq(Agents)
    BY <2>1, <2>3
  <2>5. round' \in Nat
    BY <2>1 DEF TypeOK
  <2>6. Control'
    BY <2>1 DEF Control
  <2> QED BY <2>1, <2>2, <2>4, <2>5, <2>6 DEF TypeOK
<1>11. CASE EvaluateDelivery
  <2>1. /\ at = "delivery" /\ todo = <<>> /\ disk' = report /\ summary' = SummaryKept
        /\ UNCHANGED <<tasks, mode, task, done, expired>>
        /\ UNCHANGED <<critic, degraded, claims, artifacts, report, verdict>>
    BY <1>11 DEF EvaluateDelivery, Executing, plan, board
  <2>2. PipelineOrder'
    BY <2>1, OrderStays
  <2>3. summary' \in {"none", "passed", "failed"}
    BY <2>1 DEF SummaryKept, TypeOK
  <2>4. PICK quality \in BOOLEAN, hopeless \in BOOLEAN :
          /\ gate' = GateOf(quality)
          /\ IF gate'.pass \/ hopeless
             THEN Goto("files") /\ UNCHANGED todo
             ELSE /\ \E agents \in Repairs :
                       todo' = SetToSeq(agents) \o <<"final_answer", "verifier">>
                  /\ round' = round + 1 /\ UNCHANGED at
    BY <1>11 DEF EvaluateDelivery
  <2>5. gate'.pass \in BOOLEAN
    BY <2>4 DEF GateOf, VerifierPassed
  <2>6. CASE at' = "files" /\ round' = 0 /\ todo' = todo
    BY <2>1, <2>2, <2>3, <2>5, <2>6 DEF TypeOK, Control
  <2>7. CASE /\ at' = at /\ round' = round + 1
             /\ \E agents \in Repairs : todo' = SetToSeq(agents) \o <<"final_answer", "verifier">>
    <3>1. PICK agents \in Repairs : todo' = SetToSeq(agents) \o <<"final_answer", "verifier">>
      BY <2>7
    <3>2. agents \subseteq Agents /\ IsFiniteSet(agents)
      <4>1. /\ IsFiniteSet({}) /\ IsFiniteSet({"deep_analyze"})
            /\ IsFiniteSet({"deep_researcher", "browser", "deep_analyze", "valuation_analysis"})
        BY FewAreFinite
      <4>2. IsFiniteSet(agents)
        BY <4>1 DEF Repairs
      <4>3. agents \subseteq Agents
        BY DEF Repairs, Agents, TaskTypes, PlanTypes, RoleTypes
      <4> QED BY <4>2, <4>3
    <3>3. <<"final_answer", "verifier">> \in Seq(Agents)
      BY DEF Agents, TaskTypes, PlanTypes
    <3>4. todo' \in Seq(Agents) /\ todo'[Len(todo')] = "verifier"
      BY <3>1, <3>2, <3>3, ReworkAgents
    <3>5. Control'
      BY <2>1, <2>7, <3>4 DEF Control
    <3>6. round' \in Nat
      BY <2>7 DEF TypeOK
    <3> QED BY <2>1, <2>2, <2>3, <2>5, <2>7, <3>4, <3>5, <3>6 DEF TypeOK
  <2> QED BY <2>4, <2>6, <2>7 DEF Goto
<1>12. CASE WriteFiles
  <2>1. /\ at = "files" /\ at' = "done" /\ round' = 0 /\ disk' = report
        /\ summary' = IF verdict.says = "passed" THEN "passed" ELSE "failed"
        /\ UNCHANGED <<tasks, mode, todo, task, done, expired, gate>>
        /\ UNCHANGED <<critic, degraded, claims, artifacts, report, verdict>>
    BY <1>12 DEF WriteFiles, Goto, plan, board
  <2>2. PipelineOrder'
    BY <2>1, OrderStays
  <2>3. Control'
    BY <2>1 DEF Control
  <2> QED BY <2>1, <2>2, <2>3 DEF TypeOK
<1>13. CASE UNCHANGED vars
  <2>1. /\ UNCHANGED <<tasks, mode, at, todo, task, done, expired, round>>
        /\ UNCHANGED <<critic, degraded, claims, artifacts, report, verdict>>
        /\ UNCHANGED <<summary, gate, disk>>
    BY <1>13 DEF vars, plan, control, board, files
  <2>2. PipelineOrder'
    BY <2>1, OrderStays
  <2>3. Ready' = Ready /\ First' = First /\ Pending' = Pending
    BY <2>1 DEF Ready, Pending, First
  <2>4. Control'
    BY <2>1, <2>3 DEF Control
  <2> QED BY <2>1, <2>2, <2>4 DEF TypeOK
<1> QED
  BY <1>1, <1>2, <1>3, <1>4, <1>5, <1>6, <1>7, <1>8, <1>9, <1>10, <1>11, <1>12, <1>13
  DEF Next, RunStep

LEMMA SkeletonHolds == Spec => []Skeleton
BY SkeletonInit, SkeletonNext, PTL DEF Spec

\* Whatever the plans, the answers and the agents' failures, the orchestrator's
\* state keeps its types: the tasks depend on tasks of the graph only, and what is
\* executed and what was done are tasks of it.
THEOREM TypeCorrect == Spec => []TypeOK
<1>1. Skeleton => TypeOK
  BY DEF Skeleton
<1> QED BY <1>1, SkeletonHolds, PTL

\* No task is executed while one of an earlier kind is open.
THEOREM PipelineOrderHolds == Spec => []PipelineOrder
<1>1. Skeleton => PipelineOrder
  BY DEF Skeleton
<1> QED BY <1>1, SkeletonHolds, PTL

\* A run stuck on its graph has tasks of one type that wait for each other:
\* those of the lowest rank that is open.
LEMMA OnlyCirclesBlock == Skeleton => BlockedByPlanner
<1> SUFFICES ASSUME Skeleton, Stuck
             PROVE  \E C \in (SUBSET Pending) \ {{}} : \E type \in TaskTypes :
                      \A i \in C : tasks[i].type = type /\ tasks[i].deps \cap C # {}
  BY DEF BlockedByPlanner
<1> DEFINE r == [i \in Pending |-> Rank[tasks[i].type]]
<1>1. \A i \in Pending : tasks[i] \in Task(DOMAIN tasks) /\ tasks[i].type \in TaskTypes
  BY DEF Pending, Skeleton, SoundGraph, Task
<1>2. \A i \in Pending : r[i] = Rank[tasks[i].type] /\ r[i] \in {10, 20, 30, 35, 40, 50}
  BY <1>1, RankValues
<1> HIDE DEF r
<1>3. PICK m \in Pending : \A j \in Pending : r[m] <= r[j]
  BY <1>2, LowestRank DEF Stuck
<1> DEFINE C == {i \in Pending : r[i] = r[m]}
<1>4. \A i \in C : tasks[i].deps \cap C # {}
  <2> SUFFICES ASSUME NEW i \in C PROVE tasks[i].deps \cap C # {}
    OBVIOUS
  <2>1. i \notin Ready
    BY DEF Stuck
  <2>2. PICK d \in tasks[i].deps : d \notin done
    BY <2>1 DEF Ready
  <2>3. d \in Pending
    BY <1>1, <2>2 DEF Pending, Task
  <2>4. Rank[tasks[d].type] <= Rank[tasks[i].type]
    BY DEF Pending, Skeleton, SoundGraph
  <2>5. r[d] <= r[i] /\ r[m] <= r[d]
    BY <1>2, <1>3, <2>3, <2>4
  <2>6. d \in C
    BY <1>2, <2>3, <2>5
  <2> QED BY <2>6
<1>5. \A i \in C : tasks[i].type = tasks[m].type
  <2>1. CASE r[m] = 35
    <3>1. tasks[m].type \in RoleTypes
      BY <1>1, <1>2, <2>1, RankValues DEF TaskTypes, PlanTypes
    <3>2. PICK d \in tasks[m].deps : d \in C
      BY <1>4
    <3>3. tasks[d].type = "deep_analyze"
      BY <3>1, <3>2 DEF Pending, Skeleton, SoundGraph
    <3>4. r[d] = 30
      BY <1>2, <3>2, <3>3, RankValues
    <3> QED BY <2>1, <3>2, <3>4
  <2>2. CASE r[m] # 35
    <3> SUFFICES ASSUME NEW i \in C PROVE tasks[i].type = tasks[m].type
      OBVIOUS
    <3>1. Rank[tasks[i].type] = Rank[tasks[m].type] /\ Rank[tasks[m].type] # 35
      BY <1>2, <2>2
    <3>2. tasks[i].type \in PlanTypes /\ tasks[m].type \in PlanTypes
      BY <1>1, <3>1, RankValues DEF TaskTypes
    <3> QED BY <3>1, <3>2, RankValues DEF PlanTypes
  <2> QED BY <2>1, <2>2
<1>6. C \in (SUBSET Pending) \ {{}} /\ tasks[m].type \in TaskTypes
  <2>1. m \in C
    OBVIOUS
  <2>2. C \in SUBSET Pending
    OBVIOUS
  <2>3. tasks[m].type \in TaskTypes
    BY <1>1
  <2> QED BY <2>1, <2>2, <2>3
<1> HIDE DEF C
<1>7. \A i \in C : tasks[i].type = tasks[m].type /\ tasks[i].deps \cap C # {}
  BY <1>4, <1>5
<1> QED BY <1>6, <1>7

\* Nothing but such a circle of one type stops a run at its graph.
THEOREM BlockedByPlannerHolds == Spec => []BlockedByPlanner
BY OnlyCirclesBlock, SkeletonHolds, PTL

(***************************************************************************)
(* What the results are about.                                             *)
(***************************************************************************)
Unjudged == verdict.says = "none"
Current == verdict.of = report /\ verdict.claims = claims
Judged == Unjudged \/ Current

Bookkeeping ==
  /\ \A i \in done : tasks[i].type = "final_answer" => report.n > 0
  /\ at \in {"verification", "gaps", "delivery", "files", "done"} /\ ~expired => Pending = {}
  /\ at = "tasks" => Unjudged \/ (Current /\ \E v \in done : tasks[v].type = "verifier")
  /\ at = "objections" => Unjudged
  /\ at \in {"verification", "delivery"} /\ todo = <<>> => Judged
  /\ at \in {"gaps", "files", "done"} => Judged

LEMMA BookkeepingInit == Init => Bookkeeping
BY DEF Init, Bookkeeping, NoVerdict, Unjudged

\* Once a verifier is done, only verifiers are open.
LEMMA VerifierIsLast ==
  ASSUME Skeleton, NEW v \in done, tasks[v].type = "verifier", NEW i \in Pending
  PROVE  tasks[i].type = "verifier"
<1>1. Rank[tasks[i].type] >= 50
  BY RankValues DEF Skeleton, PipelineOrder
<1>2. tasks[i].type \in TaskTypes
  BY DEF Pending, Skeleton, SoundGraph, Task
<1> QED BY <1>1, <1>2, RankValues DEF TaskTypes, PlanTypes

\* Of the agents only three change what a verdict is about or says.
LEMMA OnlyThreeMatter ==
  ASSUME TypeOK, AgentCompletes \/ AgentTimesOut
  PROVE  /\ Agent \notin {"deep_analyze", "final_answer", "verifier"} =>
              UNCHANGED <<claims, report, verdict>>
         /\ Agent = "verifier" => Judged' /\ UNCHANGED <<claims, report>>
         /\ report'.n >= report.n
         /\ Agent = "final_answer" => report'.n > 0
<1>1. report.n \in Nat
  BY DEF TypeOK, Reports
<1>2. Written.n = report.n + 1 /\ [Written EXCEPT !.empty = TRUE].n = report.n + 1
  BY DEF Written
<1>3. CASE AgentCompletes
  <2>1. Agent = "verifier" => verdict'.of = report /\ verdict'.claims = claims /\ UNCHANGED <<claims, report>>
    BY <1>3 DEF AgentCompletes
  <2> QED BY <1>1, <1>2, <1>3, <2>1 DEF AgentCompletes, Judged, Current
<1>4. CASE AgentTimesOut
  <2>1. Agent = "verifier" => verdict' = NoVerdict /\ UNCHANGED <<claims, report>>
    BY <1>4 DEF AgentTimesOut, EmptyMerged
  <2>2. NoVerdict.says = "none"
    BY DEF NoVerdict
  <2> QED BY <1>1, <1>2, <1>4, <2>1, <2>2 DEF AgentTimesOut, EmptyMerged, Judged, Unjudged
<1> QED BY <1>3, <1>4

\* Results that stay in place stay what they are about.
LEMMA ResultsStay ==
  ASSUME UNCHANGED <<claims, report, verdict>>
  PROVE  Unjudged' = Unjudged /\ Current' = Current /\ Judged' = Judged
BY DEF Unjudged, Current, Judged

\* An agent that has been executed keeps the books, whether it answered or not.
LEMMA ExecutedBookkeeping ==
  ASSUME Skeleton, Bookkeeping, AgentCompletes \/ AgentTimesOut
  PROVE  Bookkeeping'
<1>1. Executing /\ Executed /\ TypeOK
  BY DEF AgentCompletes, AgentTimesOut, Skeleton
<1>2. /\ todo' = Tail(todo) /\ done' = done \cup task /\ UNCHANGED <<tasks, at, expired>>
      /\ todo \in Seq(Agents) /\ todo # <<>>
  BY <1>1 DEF Executed, Executing, plan, TypeOK
<1>3. report.n \in Nat /\ report'.n >= report.n /\ (Agent = "final_answer" => report'.n > 0)
  BY <1>1, OnlyThreeMatter DEF TypeOK, Reports
<1>4. \A i \in done' : tasks'[i].type = "final_answer" => report'.n > 0
  <2> SUFFICES ASSUME NEW i \in done', tasks[i].type = "final_answer" PROVE report'.n > 0
    BY <1>2
  <2>1. CASE i \in done
    <3>1. report.n > 0
      BY <2>1 DEF Bookkeeping
    <3>2. report'.n \in Nat
      BY <1>1, BoardTypes DEF Reports
    <3> QED BY <3>1, <3>2, <1>3
  <2>2. CASE i \notin done
    <3>1. i \in task
      BY <2>2, <1>2
    <3>2. at \in {"tasks", "raised"}
      BY <3>1 DEF Skeleton, Control
    <3>3. todo = <<tasks[i].type>>
      BY <1>2, <3>1, <3>2 DEF Skeleton, Control
    <3>4. Agent = "final_answer"
      BY <3>3 DEF Agent
    <3> QED BY <1>3, <3>4
  <2> QED BY <2>1, <2>2
<1>5. at' \in {"verification", "gaps", "delivery", "files", "done"} /\ ~expired' => Pending' = {}
  BY <1>2 DEF Bookkeeping, Pending
<1>6. ASSUME at' = "tasks"
      PROVE  Unjudged' \/ (Current' /\ \E v \in done' : tasks'[v].type = "verifier")
  <2>1. PICK i \in Pending : task = {i} /\ todo = <<tasks[i].type>>
    BY <1>2, <1>6 DEF Skeleton, Control
  <2>2. Agent = tasks[i].type /\ i \in done'
    BY <1>2, <2>1 DEF Agent
  <2>3. CASE Agent = "verifier"
    BY <1>1, <1>2, <2>2, <2>3, OnlyThreeMatter DEF Judged
  <2>4. CASE Agent # "verifier" /\ ~Unjudged
    BY <1>2, <1>6, <2>2, <2>4, VerifierIsLast DEF Bookkeeping
  <2>5. CASE Agent # "verifier" /\ Unjudged
    <3>1. verdict' = verdict
      BY <2>5 DEF AgentCompletes, AgentTimesOut, EmptyMerged
    <3> QED BY <2>5, <3>1 DEF Unjudged
  <2> QED BY <2>3, <2>4, <2>5
<1>7. ASSUME at' = "objections" PROVE Unjudged'
  <2>1. todo \in Seq(RoleTypes \cup {"critic"}) /\ Unjudged
    BY <1>2, <1>7 DEF Skeleton, Control, Bookkeeping
  <2>2. Agent \in RoleTypes \cup {"critic"}
    BY <1>2, <2>1, TailOfAgents DEF Agent
  <2>3. Agent \notin {"deep_analyze", "final_answer", "verifier"}
    BY <2>2 DEF RoleTypes
  <2> QED BY <1>1, <2>1, <2>3, OnlyThreeMatter, ResultsStay
<1>8. ASSUME at' \in {"verification", "delivery"}, todo' = <<>> PROVE Judged'
  <2>1. CASE at = "verification"
    <3>1. todo = <<"verifier">>
      <4>1. todo # <<"final_answer", "verifier">>
        <5> SUFFICES ASSUME todo = <<"final_answer", "verifier">> PROVE FALSE
          OBVIOUS
        <5>1. todo' = <<"verifier">>
          BY <1>2
        <5>2. Len(todo') = 1 /\ Len(todo') = 0
          BY <5>1, <1>8
        <5> QED BY <5>2
      <4> QED BY <1>2, <2>1, <4>1 DEF Skeleton, Control
    <3>2. Agent = "verifier"
      BY <3>1 DEF Agent
    <3> QED BY <1>1, <3>2, OnlyThreeMatter
  <2>2. CASE at = "delivery"
    <3>1. Len(todo) = 1 /\ todo[1] = Head(todo)
      BY <1>2, <1>8, TailOfAgents
    <3>2. Agent = "verifier"
      BY <1>2, <2>2, <3>1 DEF Agent, Skeleton, Control
    <3> QED BY <1>1, <3>2, OnlyThreeMatter
  <2> QED BY <1>2, <1>8, <2>1, <2>2
<1>9. ASSUME at' \in {"gaps", "files", "done"} PROVE Judged'
  <2>1. at = "gaps" /\ todo = <<"gap_resolver">> /\ Judged
    BY <1>2, <1>9 DEF Skeleton, Control, Bookkeeping
  <2>2. Agent = "gap_resolver"
    BY <2>1 DEF Agent
  <2> QED BY <1>1, <2>1, <2>2, OnlyThreeMatter, ResultsStay
<1> QED BY <1>4, <1>5, <1>6, <1>7, <1>8, <1>9 DEF Bookkeeping

LEMMA BookkeepingNext == Skeleton /\ Bookkeeping /\ [Next]_vars => Bookkeeping'
<1> SUFFICES ASSUME Skeleton, Bookkeeping, [Next]_vars PROVE Bookkeeping'
  OBVIOUS
<1>1. CASE AgentCompletes \/ AgentTimesOut
  BY <1>1, ExecutedBookkeeping
<1>2. CASE AgentFails
  <2>1. Executing /\ UNCHANGED <<claims, report, verdict>>
    BY <1>2 DEF AgentFails, board
  <2>2. CASE MayFail
    <3>1. /\ at = "delivery" /\ Agent # "verifier" /\ todo' = Tail(todo)
          /\ done' = done \cup task /\ UNCHANGED <<tasks, at, expired>>
      BY <1>2, <2>2 DEF AgentFails, MayFail, Executed, plan
    <3>2. task = {} /\ todo \in Seq(Agents) /\ todo # <<>> /\ todo[Len(todo)] = "verifier"
      BY <2>1, <3>1 DEF Skeleton, Control, TypeOK, Executing
    <3>3. Len(todo) # 1
      BY <3>1, <3>2, TailOfAgents DEF Agent
    <3>4. todo' # <<>>
      BY <3>1, <3>2, <3>3, TailOfAgents
    <3>5. done' = done /\ Pending' = Pending
      BY <3>1, <3>2 DEF Pending
    <3> QED BY <2>1, <3>1, <3>4, <3>5 DEF Bookkeeping
  <2>3. CASE ~MayFail
    <3>1. at' = "raised" /\ UNCHANGED <<tasks, done>>
      BY <1>2, <2>3 DEF AgentFails, plan
    <3> QED BY <2>1, <3>1 DEF Bookkeeping
  <2> QED BY <2>2, <2>3
<1>3. CASE DeadlinePasses
  <2>1. expired' = TRUE /\ UNCHANGED <<tasks, at, todo, done, claims, report, verdict>>
    BY <1>3 DEF DeadlinePasses, plan, board
  <2> QED BY <2>1, ResultsStay DEF Bookkeeping
<1>4. CASE Blocked
  <2>1. at' = "raised" /\ UNCHANGED <<tasks, done, report>>
    BY <1>4 DEF Blocked, plan, board
  <2> QED BY <2>1 DEF Bookkeeping
<1>5. CASE Dispatch
  <2>1. at = "tasks" /\ at' = "tasks" /\ UNCHANGED <<tasks, done, claims, report, verdict>>
    BY <1>5 DEF Dispatch, InLoop, plan, board
  <2> QED BY <2>1, ResultsStay DEF Bookkeeping
<1>6. CASE Review
  <2>1. /\ at = "tasks" /\ at' = "objections" /\ Ready # {} /\ tasks[First].type = "final_answer"
        /\ UNCHANGED <<tasks, done, claims, report, verdict>>
    BY <1>6 DEF Review, InLoop, ToReview, Goto, plan, board
  <2>2. First \in Pending
    BY <2>1, FirstIsReady DEF Ready, Skeleton, SoundGraph, Graphed
  <2>3. Unjudged
    BY <2>1, <2>2, VerifierIsLast DEF Bookkeeping
  <2> QED BY <2>1, <2>3, ResultsStay DEF Bookkeeping
<1>7. CASE ReworkRoles
  <2>1. at = "objections" /\ at' = "objections" /\ UNCHANGED <<tasks, done, claims, report, verdict>>
    BY <1>7 DEF ReworkRoles, plan, board
  <2> QED BY <2>1, ResultsStay DEF Bookkeeping
<1>8. CASE Settle
  <2>1. at = "objections" /\ at' = "tasks" /\ UNCHANGED <<tasks, done, claims, report, verdict>>
    BY <1>8 DEF Settle, Goto, plan
  <2> QED BY <2>1, ResultsStay DEF Bookkeeping
<1>9. CASE TasksEnd
  <2>1. /\ at = "tasks" /\ at' = "verification" /\ (Pending = {} \/ expired)
        /\ UNCHANGED <<tasks, done, expired, claims, report, verdict>>
    BY <1>9 DEF TasksEnd, Goto, plan, board
  <2>2. Pending' = Pending
    BY <2>1 DEF Pending
  <2> QED BY <2>1, <2>2, ResultsStay DEF Bookkeeping, Judged
<1>10. CASE Revise
  <2>1. /\ at = "verification" /\ at' = "verification" /\ todo' = <<"final_answer", "verifier">>
        /\ UNCHANGED <<tasks, done, expired, claims, report, verdict>>
    BY <1>10 DEF Revise, plan, board
  <2>2. Pending' = Pending /\ todo' # <<>>
    BY <2>1 DEF Pending
  <2> QED BY <2>1, <2>2 DEF Bookkeeping
<1>11. CASE Revised \/ GapsResolved \/ ReworkOver
  <2>1. /\ at \in {"verification", "gaps", "delivery"} /\ at' \in {"gaps", "delivery", "files"} /\ todo = <<>>
        /\ UNCHANGED <<tasks, done, expired, claims, report, verdict>>
    BY <1>11 DEF Revised, GapsResolved, ReworkOver, Executing, Goto, plan, board
  <2>2. Pending' = Pending
    BY <2>1 DEF Pending
  <2> QED BY <2>1, <2>2, ResultsStay DEF Bookkeeping
<1>12. CASE EvaluateDelivery
  <2>1. /\ at = "delivery" /\ at' \in {"delivery", "files"} /\ todo = <<>>
        /\ UNCHANGED <<tasks, done, expired, claims, report, verdict>>
    BY <1>12 DEF EvaluateDelivery, Executing, Goto, plan, board
  <2>2. Pending' = Pending
    BY <2>1 DEF Pending
  <2> QED BY <2>1, <2>2, ResultsStay DEF Bookkeeping
<1>13. CASE WriteFiles
  <2>1. at = "files" /\ at' = "done" /\ UNCHANGED <<tasks, done, expired, claims, report, verdict>>
    BY <1>13 DEF WriteFiles, Goto, plan, board
  <2>2. Pending' = Pending
    BY <2>1 DEF Pending
  <2> QED BY <2>1, <2>2, ResultsStay DEF Bookkeeping
<1>14. CASE UNCHANGED vars
  <2>1. UNCHANGED <<tasks, at, todo, done, expired, claims, report, verdict>>
    BY <1>14 DEF vars, plan, control, board
  <2>2. Pending' = Pending
    BY <2>1 DEF Pending
  <2> QED BY <2>1, <2>2, ResultsStay DEF Bookkeeping
<1> QED
  BY <1>1, <1>2, <1>3, <1>4, <1>5, <1>6, <1>7, <1>8, <1>9, <1>10, <1>11, <1>12, <1>13, <1>14
  DEF Next, RunStep

LEMMA BookkeepingHolds == Spec => []Bookkeeping
BY SkeletonHolds, BookkeepingInit, BookkeepingNext, PTL DEF Spec

\* A run the deadline has not cut short has done a task of every kind, and
\* written.
THEOREM NothingLeftOutHolds == Spec => []NothingLeftOut
<1>1. Skeleton /\ Bookkeeping => NothingLeftOut
  <2> SUFFICES ASSUME Skeleton, Bookkeeping, at = "done", ~expired
               PROVE  PlanTypes \subseteq {tasks[i].type : i \in done} /\ report.n > 0
    BY DEF NothingLeftOut
  <2>1. DOMAIN tasks \subseteq done
    BY DEF Bookkeeping, Pending
  <2>2. PlanTypes \subseteq {tasks[i].type : i \in done}
    <3> SUFFICES ASSUME NEW type \in PlanTypes PROVE \E i \in done : tasks[i].type = type
      OBVIOUS
    <3>1. PICK i \in DOMAIN tasks : tasks[i].type = type
      BY DEF Skeleton, SoundGraph, Of
    <3> QED BY <2>1, <3>1
  <2>3. \E i \in done : tasks[i].type = "final_answer"
    BY <2>2 DEF PlanTypes
  <2> QED BY <2>2, <2>3 DEF Bookkeeping
<1> QED BY <1>1, SkeletonHolds, BookkeepingHolds, PTL

\* A verdict in the files of a run is about the report and the claims that are
\* there.
THEOREM VerdictIsCurrentHolds == Spec => []VerdictIsCurrent
<1>1. Bookkeeping => VerdictIsCurrent
  BY DEF Bookkeeping, VerdictIsCurrent, Judged, Unjudged, Current
<1> QED BY <1>1, BookkeepingHolds, PTL

(***************************************************************************)
(* What the delivery gate saw.                                             *)
(***************************************************************************)

\* Another verdict than that of this report's verifier may let it pass.
Elsewhere == mode.earlier = "passed" \/ mode.profile.delivery > 1

\* Before the gate has been asked, the summary in the run's directory is the one
\* that was found there.
Gatekeeping ==
  /\ gate.pass => /\ at \in {"files", "done"}
                  /\ gate.of = report
                  /\ verdict.says = "passed" \/ (verdict.says = "none" /\ Elsewhere)
  /\ at \in {"tasks", "objections", "verification", "gaps"} => summary = mode.earlier
  /\ at = "delivery" /\ round = 0 => summary = mode.earlier

\* Whatever summary an earlier run left and however many rounds the profile has:
\* the delivered report is the one in the files, and its verifier passed it, or
\* there is no verdict on it and one on another report was found in its place.
THEOREM DeliveredIsVouchedForHolds == Spec => []DeliveredIsVouchedFor
<1>1. Init => Gatekeeping
  BY DEF Init, Gatekeeping
<1>2. Skeleton /\ Gatekeeping /\ [Next]_vars => Gatekeeping'
  <2> SUFFICES ASSUME Skeleton, Gatekeeping, [Next]_vars PROVE Gatekeeping'
    OBVIOUS
  <2>0. /\ at \in {"files", "done", "raised"} => todo = <<>>
        /\ at \in {"tasks", "objections", "verification", "gaps", "delivery", "files", "done", "raised"}
        /\ round \in Nat
    BY DEF Skeleton, Control, TypeOK
  <2>1. CASE AgentCompletes \/ AgentTimesOut \/ AgentFails
    <3>1. Executing /\ UNCHANGED <<summary, gate>>
      BY <2>1 DEF AgentCompletes, AgentTimesOut, AgentFails, Executed, files
    <3>2. ~gate.pass
      BY <3>1, <2>0 DEF Gatekeeping, Executing
    <3>3. at' = "raised" \/ (at' = at /\ round' = round)
      BY <2>1 DEF AgentCompletes, AgentTimesOut, AgentFails, Executed
    <3>4. UNCHANGED mode
      BY <2>1 DEF AgentCompletes, AgentTimesOut, AgentFails, Executed, plan
    <3> QED BY <3>1, <3>2, <3>3, <3>4 DEF Gatekeeping
  <2>2. CASE DeadlinePasses
    BY <2>2 DEF DeadlinePasses, Gatekeeping, Elsewhere, board, files, plan
  <2>3. CASE Blocked \/ Dispatch \/ Review \/ ReworkRoles \/ Settle \/ TasksEnd \/ Revise \/ Revised
    <3>1. /\ UNCHANGED <<summary, gate, mode>>
          /\ at \in {"tasks", "objections", "verification"}
          /\ at' \in {"tasks", "objections", "verification", "gaps", "raised"}
      BY <2>3 DEF Blocked, Dispatch, Review, ReworkRoles, Settle, TasksEnd, Revise, Revised, InLoop, Goto, files, plan
    <3> QED BY <3>1 DEF Gatekeeping
  <2>4. CASE GapsResolved \/ ReworkOver
    <3>1. /\ UNCHANGED <<summary, gate, report, verdict, mode>>
          /\ \/ at = "gaps" /\ at' \in {"files", "delivery"}
             \/ at = "delivery" /\ at' = "files"
      BY <2>4 DEF GapsResolved, ReworkOver, Goto, files, board, plan
    <3> QED BY <3>1 DEF Gatekeeping, Elsewhere
  <2>5. CASE EvaluateDelivery
    <3>1. at = "delivery" /\ round < mode.profile.delivery /\ UNCHANGED <<report, verdict, mode>>
      BY <2>5 DEF EvaluateDelivery, board, plan
    <3>2. mode.profile.delivery \in Nat /\ round \in Nat
      BY <2>0, RunAssumption DEF Skeleton, TypeOK
    <3>3. mode.profile.delivery > 1 \/ (round = 0 /\ summary = mode.earlier)
      BY <3>1, <3>2 DEF Gatekeeping
    <3>4. PICK quality \in BOOLEAN, hopeless \in BOOLEAN :
            /\ gate' = GateOf(quality)
            /\ IF gate'.pass \/ hopeless
               THEN Goto("files")
               ELSE round' = round + 1 /\ at' = at
      BY <2>5 DEF EvaluateDelivery
    <3>5. gate'.pass => /\ at' = "files" /\ gate'.of = report
                        /\ verdict.says = "passed" \/ (verdict.says = "none" /\ Elsewhere)
      BY <3>3, <3>4 DEF GateOf, VerifierPassed, SummaryKept, Goto, Elsewhere
    <3>6. at' = "files" \/ (at' = "delivery" /\ round' # 0)
      <4>1. round + 1 # 0
        BY <3>2
      <4> QED BY <3>1, <3>4, <4>1 DEF Goto
    <3> QED BY <3>1, <3>5, <3>6 DEF Gatekeeping, Elsewhere
  <2>6. CASE WriteFiles
    BY <2>6 DEF WriteFiles, Goto, Gatekeeping, Elsewhere, board, plan
  <2>7. CASE UNCHANGED vars
    BY <2>7 DEF vars, plan, control, board, files, Gatekeeping, Elsewhere
  <2> QED BY <2>1, <2>2, <2>3, <2>4, <2>5, <2>6, <2>7 DEF Next, RunStep
<1>3. Gatekeeping /\ VerdictIsCurrent => DeliveredIsVouchedFor
  BY DEF Gatekeeping, VerdictIsCurrent, DeliveredIsVouchedFor, Elsewhere
<1> QED BY <1>1, <1>2, <1>3, SkeletonHolds, VerdictIsCurrentHolds, PTL DEF Spec
-----------------------------------------------------------------------------
(***************************************************************************)
(* A run does not go on for ever: every step of it lowers StepsLeft.  The  *)
(* parts come one after the other, and each is bounded in its own way: the *)
(* tasks by the graph, the objections by MaxRounds, the two reworks by the *)
(* profile.  A task of the graph costs at most twelve steps, which is what *)
(* a final answer does that is reviewed and objected to twice; the review  *)
(* may come again for every final answer, when the critic timed out.       *)
(***************************************************************************)
VerifierRounds == mode.profile.verifier
DeliveryRounds == mode.profile.delivery
Open == Pending \ task

\* What follows the tasks.
Later == 3 * VerifierRounds + 7 * DeliveryRounds + 6

PartLeft ==
  CASE at = "tasks"        -> 12 * Cardinality(Open) + Later
    [] at = "objections"   -> 12 * Cardinality(Open) - 10 + 4 * (MaxRounds - round) + Later
    [] at = "verification" -> 3 * (VerifierRounds - round) + 7 * DeliveryRounds + 5
    [] at = "gaps"         -> 7 * DeliveryRounds + 3
    [] at = "delivery"     -> 7 * (DeliveryRounds - round) + 2
    [] at = "files"        -> 1
    [] OTHER               -> 0

DeadlineLeft == IF expired THEN 0 ELSE 1
StepsLeft == PartLeft + Len(todo) + DeadlineLeft

\* No rework has more rounds than it may.
Rounds ==
  /\ IsFiniteSet(DOMAIN tasks)
  /\ at = "objections" => round <= MaxRounds
  /\ at = "verification" => round <= VerifierRounds
  /\ at = "delivery" => round <= DeliveryRounds

LEMMA TypesAreFinite == IsFiniteSet(TaskTypes)
<1>1. IsFiniteSet({"deep_researcher"}) /\ IsFiniteSet({"identity_profile"})
  BY FS_Singleton
<1>2. IsFiniteSet({"deep_researcher", "browser", "deep_analyze", "final_answer"})
  BY FewAreFinite
<1>3. IsFiniteSet({"deep_researcher", "browser", "deep_analyze", "final_answer"} \cup {"verifier"})
  BY <1>2, FS_AddElement
<1>4. IsFiniteSet({"identity_profile", "three_statement_analysis", "peer_analysis", "valuation_analysis"})
  BY FewAreFinite
<1>5. IsFiniteSet({"identity_profile", "three_statement_analysis", "peer_analysis", "valuation_analysis"}
                  \cup {"risk_analysis"})
  BY <1>4, FS_AddElement
<1>6. /\ PlanTypes = {"deep_researcher", "browser", "deep_analyze", "final_answer"} \cup {"verifier"}
      /\ RoleTypes = {"identity_profile", "three_statement_analysis", "peer_analysis", "valuation_analysis"}
                       \cup {"risk_analysis"}
  BY DEF PlanTypes, RoleTypes
<1>7. IsFiniteSet(PlanTypes) /\ IsFiniteSet(RoleTypes)
  BY <1>3, <1>5, <1>6
<1> QED BY <1>7, FS_Union DEF TaskTypes

\* The graph has the tasks of the plan and some that are named for their kind.
LEMMA GraphIsFinite ==
  ASSUME NEW p, Planned(p), NEW diagnostic
  PROVE  IsFiniteSet(DOMAIN Graph(p, diagnostic))
<1> DEFINE m == WithMinimum(VerifierLast(p))
           g == Ordered(m)
<1>1. Planned(VerifierLast(p))
  BY VerifierLastPlanned
<1>2. DOMAIN m \subseteq DOMAIN VerifierLast(p) \cup TaskTypes
  BY DEF WithMinimum, TaskTypes
<1>3. IsFiniteSet(DOMAIN VerifierLast(p) \cup TaskTypes)
  BY <1>1, TypesAreFinite, FS_Union DEF Planned
<1> HIDE DEF m
<1>4. DOMAIN g = DOMAIN m
  BY DEF Ordered
<1>5. DOMAIN WithRoles(g) = DOMAIN g \cup RoleTypes
  BY DEF WithRoles, Ordered
<1>6. Graph(p, diagnostic) = IF diagnostic THEN WithRoles(g) ELSE g
  BY DEF Graph, m
<1>7. DOMAIN Graph(p, diagnostic) \subseteq DOMAIN VerifierLast(p) \cup TaskTypes
  <2> HIDE DEF g
  <2> QED BY <1>2, <1>4, <1>5, <1>6 DEF TaskTypes
<1> QED BY <1>3, <1>7, FS_Subset

LEMMA RoundsInit == Init => Rounds
<1> SUFFICES ASSUME Init PROVE Rounds
  OBVIOUS
<1>1. PICK p \in Plans, diagnostic \in BOOLEAN : tasks = Graph(p, diagnostic)
  BY DEF Init
<1>2. IsFiniteSet(DOMAIN tasks)
  BY <1>1, PlansArePlanned, GraphIsFinite
<1> QED BY <1>2 DEF Init, Rounds

LEMMA ProfileIsNat ==
  ASSUME Skeleton
  PROVE  VerifierRounds \in Nat /\ DeliveryRounds \in Nat /\ round \in Nat
BY RunAssumption DEF Skeleton, TypeOK, VerifierRounds, DeliveryRounds

LEMMA RoundsStep == Skeleton /\ Rounds /\ [Next]_vars => Rounds'
<1> SUFFICES ASSUME Skeleton, Rounds, [Next]_vars PROVE Rounds'
  OBVIOUS
<1> USE DEF Rounds, VerifierRounds, DeliveryRounds
<1>0. VerifierRounds \in Nat /\ DeliveryRounds \in Nat /\ round \in Nat /\ MaxRounds = 2
  BY ProfileIsNat DEF MaxRounds
<1>1. CASE AgentCompletes \/ AgentTimesOut
  BY <1>1 DEF AgentCompletes, AgentTimesOut, Executed, plan
<1>2. CASE AgentFails
  BY <1>2 DEF AgentFails, Executed, plan
<1>3. CASE DeadlinePasses \/ Blocked \/ Dispatch
  BY <1>3 DEF DeadlinePasses, Blocked, Dispatch, plan
<1>4. CASE Review \/ Settle \/ TasksEnd \/ Revised \/ GapsResolved \/ ReworkOver \/ WriteFiles
  <2>1. round' = 0 /\ UNCHANGED <<tasks, mode>>
    BY <1>4 DEF Review, Settle, TasksEnd, Revised, GapsResolved, ReworkOver, WriteFiles, Goto, plan
  <2> QED BY <1>0, <2>1
<1>5. CASE ReworkRoles
  <2>1. at' = at /\ at = "objections" /\ round' = round + 1 /\ round < MaxRounds /\ UNCHANGED <<tasks, mode>>
    BY <1>5 DEF ReworkRoles, Objecting, plan
  <2> QED BY <1>0, <2>1
<1>6. CASE Revise
  <2>1. /\ at' = at /\ at = "verification" /\ round' = round + 1 /\ round < VerifierRounds
        /\ UNCHANGED <<tasks, mode>>
    BY <1>6 DEF Revise, plan
  <2> QED BY <1>0, <2>1
<1>7. CASE EvaluateDelivery
  <2>1. /\ at = "delivery" /\ round < DeliveryRounds /\ UNCHANGED <<tasks, mode>>
        /\ \/ at' = "files"
           \/ at' = at /\ round' = round + 1
    BY <1>7 DEF EvaluateDelivery, Goto, plan
  <2> QED BY <1>0, <2>1
<1>8. CASE UNCHANGED vars
  BY <1>8 DEF vars, plan, control
<1> QED BY <1>1, <1>2, <1>3, <1>4, <1>5, <1>6, <1>7, <1>8 DEF Next, RunStep

\* A sum of which one part falls by more than the other grows.
LEMMA LessToDo ==
  ASSUME NEW p1 \in Int, NEW p2 \in Int, NEW l1 \in Int, NEW l2 \in Int, NEW e \in Int,
         p2 + l2 < p1 + l1
  PROVE  p2 + l2 + e < p1 + l1 + e
OBVIOUS

\* A task taken in hand is one open task less.
LEMMA OpenTasks ==
  ASSUME Skeleton, Rounds
  PROVE  /\ Cardinality(Open) \in Nat /\ Cardinality(Pending) \in Nat
         /\ \A i \in Pending : /\ Cardinality(Pending \ {i}) = Cardinality(Pending) - 1
                              /\ Cardinality(Pending) >= 1
<1>1. IsFiniteSet(Pending) /\ IsFiniteSet(Open)
  <2>1. Pending \subseteq DOMAIN tasks /\ Open \subseteq DOMAIN tasks
    BY DEF Pending, Open
  <2> QED BY <2>1, FS_Subset DEF Rounds
<1>2. Cardinality(Pending) \in Nat /\ Cardinality(Open) \in Nat
  BY <1>1, FS_CardinalityType
<1>3. ASSUME NEW i \in Pending
      PROVE  Cardinality(Pending \ {i}) = Cardinality(Pending) - 1 /\ Cardinality(Pending) >= 1
  <2>1. Cardinality(Pending \ {i}) = Cardinality(Pending) - 1
    BY <1>1, FS_RemoveElement
  <2>2. Cardinality(Pending \ {i}) \in Nat
    BY <1>1, FS_RemoveElement, FS_CardinalityType
  <2> QED BY <1>2, <2>1, <2>2
<1> QED BY <1>2, <1>3

LEMMA PartLeftType == ASSUME Skeleton, Rounds PROVE PartLeft \in Nat
<1>1. /\ VerifierRounds \in Nat /\ DeliveryRounds \in Nat /\ round \in Nat /\ MaxRounds = 2
      /\ Cardinality(Open) \in Nat
  BY ProfileIsNat, OpenTasks DEF MaxRounds
<1>2. Later \in Nat
  BY <1>1 DEF Later
<1>3. CASE at = "tasks"
  BY <1>1, <1>2, <1>3 DEF PartLeft
<1>4. CASE at = "objections"
  <2>1. PICK i \in Pending : TRUE
    BY <1>4 DEF Skeleton, Control, Ready
  <2>2. Open = Pending /\ Cardinality(Pending) >= 1 /\ round <= 2
    BY <1>1, <1>4, <2>1, OpenTasks DEF Skeleton, Control, Open, Rounds
  <2>3. PartLeft = 12 * Cardinality(Open) - 10 + 4 * (2 - round) + Later
    BY <1>1, <1>4 DEF PartLeft
  <2> QED BY <1>1, <1>2, <2>2, <2>3
<1>5. CASE at = "verification"
  <2>1. PartLeft = 3 * (VerifierRounds - round) + 7 * DeliveryRounds + 5 /\ round <= VerifierRounds
    BY <1>5 DEF PartLeft, Rounds
  <2> QED BY <1>1, <2>1
<1>6. CASE at = "gaps"
  BY <1>1, <1>6 DEF PartLeft
<1>7. CASE at = "delivery"
  <2>1. PartLeft = 7 * (DeliveryRounds - round) + 2 /\ round <= DeliveryRounds
    BY <1>7 DEF PartLeft, Rounds
  <2> QED BY <1>1, <2>1
<1>8. CASE at \notin {"tasks", "objections", "verification", "gaps", "delivery"}
  BY <1>8 DEF PartLeft
<1> QED BY <1>3, <1>4, <1>5, <1>6, <1>7, <1>8

\* Before and after a step.
LEMMA StepsLeftType ==
  /\ Skeleton /\ Rounds => PartLeft \in Nat /\ Len(todo) \in Nat /\ DeadlineLeft \in 0..1
                          /\ StepsLeft \in Nat
  /\ Skeleton' /\ Rounds' => PartLeft' \in Nat /\ Len(todo') \in Nat /\ DeadlineLeft' \in 0..1
                            /\ StepsLeft' \in Nat
<1>1. Skeleton /\ Rounds => PartLeft \in Nat /\ Len(todo) \in Nat /\ DeadlineLeft \in 0..1
                              /\ StepsLeft \in Nat
  <2> SUFFICES ASSUME Skeleton, Rounds
               PROVE  /\ PartLeft \in Nat /\ Len(todo) \in Nat /\ DeadlineLeft \in 0..1
                      /\ StepsLeft \in Nat
    OBVIOUS
  <2>1. PartLeft \in Nat
    BY PartLeftType
  <2>2. Len(todo) \in Nat
    BY DEF Skeleton, TypeOK
  <2>3. DeadlineLeft \in 0..1
    BY DEF DeadlineLeft
  <2> QED BY <2>1, <2>2, <2>3 DEF StepsLeft
<1>2. Skeleton' /\ Rounds' => (PartLeft \in Nat /\ Len(todo) \in Nat /\ DeadlineLeft \in 0..1
                                /\ StepsLeft \in Nat)'
  BY <1>1, PTL
<1> QED BY <1>1, <1>2

\* An agent that was executed, for the tasks or for a rework.
LEMMA ExecutedFalls ==
  ASSUME Skeleton, Rounds, Executing, Executed PROVE StepsLeft' < StepsLeft
<1>1. /\ PartLeft \in Nat /\ Len(todo) \in Nat /\ DeadlineLeft \in 0..1
  BY StepsLeftType
<1>2. Len(todo') = Len(todo) - 1
  BY TailOfAgents DEF Skeleton, TypeOK, Executing, Executed
<1>3. UNCHANGED <<tasks, mode, at, round, expired>> /\ Open' = Open
  BY DEF Executed, plan, Open, Pending
<1>4. PartLeft' = PartLeft /\ DeadlineLeft' = DeadlineLeft
  <2>1. VerifierRounds' = VerifierRounds /\ DeliveryRounds' = DeliveryRounds /\ Later' = Later
    BY <1>3 DEF VerifierRounds, DeliveryRounds, Later
  <2> QED BY <1>3, <2>1 DEF PartLeft, DeadlineLeft
<1>5. Len(todo') \in Int /\ PartLeft + Len(todo') < PartLeft + Len(todo)
  BY <1>1, <1>2
<1>6. PartLeft + Len(todo') + DeadlineLeft < PartLeft + Len(todo) + DeadlineLeft
  <2>1. PartLeft \in Int /\ Len(todo) \in Int /\ DeadlineLeft \in Int
    BY <1>1
  <2> QED BY ONLY <1>5, <2>1, LessToDo
<1> QED BY <1>4, <1>6 DEF StepsLeft

\* A run that raises.
LEMMA RaisedFalls ==
  ASSUME Skeleton, Rounds, at' = "raised", todo' = <<>>, expired' = expired,
         PartLeft + Len(todo) > 0
  PROVE  StepsLeft' < StepsLeft
<1>1. PartLeft \in Nat /\ Len(todo) \in Nat /\ DeadlineLeft \in 0..1
  BY StepsLeftType
<1>2. PartLeft' = 0 /\ Len(todo') = 0 /\ DeadlineLeft' = DeadlineLeft
  BY DEF PartLeft, DeadlineLeft
<1>3. 0 + 0 + DeadlineLeft < PartLeft + Len(todo) + DeadlineLeft
  BY <1>1
<1> QED BY <1>2, <1>3 DEF StepsLeft

\* A step of the run's own thread: what it leaves, and what it has to execute.
LEMMA PartFalls ==
  ASSUME Skeleton, Rounds, Skeleton', Rounds', expired' = expired,
         PartLeft' + Len(todo') < PartLeft + Len(todo)
  PROVE  StepsLeft' < StepsLeft
<1>1. /\ PartLeft \in Int /\ Len(todo) \in Int /\ DeadlineLeft \in Int
      /\ PartLeft' \in Int /\ Len(todo') \in Int
  BY StepsLeftType
<1>2. PartLeft' + Len(todo') + DeadlineLeft < PartLeft + Len(todo) + DeadlineLeft
  BY ONLY <1>1, LessToDo, PartLeft' + Len(todo') < PartLeft + Len(todo)
<1>3. DeadlineLeft' = DeadlineLeft
  BY DEF DeadlineLeft
<1> QED BY <1>2, <1>3 DEF StepsLeft

\* One element more.
LEMMA OneMore ==
  ASSUME NEW S, IsFiniteSet(S), NEW n \in Nat, Cardinality(S) <= n, NEW x
  PROVE  /\ IsFiniteSet(S \cup {x}) /\ Cardinality(S \cup {x}) \in Nat
         /\ Cardinality(S \cup {x}) <= n + 1
<1>1. Cardinality(S) \in Nat /\ IsFiniteSet(S \cup {x})
  BY FS_CardinalityType, FS_AddElement
<1>2. Cardinality(S \cup {x}) \in {Cardinality(S), Cardinality(S) + 1}
  BY FS_AddElement
<1>3. \A c \in Nat : c \in {Cardinality(S), Cardinality(S) + 1} => c <= n + 1
  BY <1>1
<1>4. Cardinality(S \cup {x}) \in Nat
  BY <1>1, FS_CardinalityType
<1> QED BY <1>1, <1>2, <1>3, <1>4

\* The agents of a rework are few.
LEMMA FewAgents ==
  ASSUME NEW a, NEW b, NEW c, NEW d
  PROVE  /\ \A S \in {{}, {a}, {a, b}} : Cardinality(S) \in Nat /\ Cardinality(S) <= 2
         /\ Cardinality({a, b, c, d}) \in Nat /\ Cardinality({a, b, c, d}) <= 4
<1>1. Cardinality({}) = 0 /\ IsFiniteSet({a}) /\ Cardinality({a}) = 1
  BY FS_EmptySet, FS_Singleton
<1>2. /\ IsFiniteSet({a} \cup {b}) /\ Cardinality({a} \cup {b}) \in Nat
      /\ Cardinality({a} \cup {b}) <= 1 + 1
  <2>1. IsFiniteSet({a}) /\ Cardinality({a}) <= 1 /\ 1 \in Nat
    BY <1>1
  <2> QED BY ONLY <2>1, OneMore
<1>3. /\ IsFiniteSet({a, b}) /\ Cardinality({a, b}) \in Nat /\ Cardinality({a, b}) <= 2
  <2>1. {a} \cup {b} = {a, b}
    OBVIOUS
  <2> QED BY <1>2, <2>1
<1>4. /\ IsFiniteSet({a, b} \cup {c}) /\ Cardinality({a, b} \cup {c}) <= 2 + 1
  BY <1>3, OneMore
<1>5. /\ IsFiniteSet({a, b, c}) /\ Cardinality({a, b, c}) <= 3
  <2>1. {a, b} \cup {c} = {a, b, c}
    OBVIOUS
  <2> QED BY <1>4, <2>1
<1>6. /\ Cardinality({a, b, c} \cup {d}) \in Nat /\ Cardinality({a, b, c} \cup {d}) <= 3 + 1
  BY <1>5, OneMore
<1>7. {a, b, c} \cup {d} = {a, b, c, d}
  OBVIOUS
<1>8. Cardinality({a, b, c, d}) \in Nat /\ Cardinality({a, b, c, d}) <= 4
  BY <1>6, <1>7
<1> QED BY <1>1, <1>3, <1>8

\* How many agents a rework executes.
LEMMA ReworkLength ==
  ASSUME NEW A, IsFiniteSet(A), NEW S, NEW t \in Seq(S)
  PROVE  Len(SetToSeq(A) \o t) = Cardinality(A) + Len(t)
<1>1. Cardinality(A) \in Nat /\ ExistsBijection(1..Cardinality(A), A)
  BY FS_CardinalityType
<1>2. \E f \in [1..Cardinality(A) -> A] : IsInjective(f)
  BY <1>1 DEF ExistsBijection, Bijection, Injection
<1>3. SetToSeq(A) \in [1..Cardinality(A) -> A]
  BY <1>2 DEF SetToSeq
<1>4. SetToSeq(A) \in Seq(A) /\ Len(SetToSeq(A)) = Cardinality(A)
  BY <1>1, <1>3
<1>5. SetToSeq(A) \in Seq(A \cup S) /\ t \in Seq(A \cup S)
  BY <1>4, SeqMonotonic
<1>6. Len(SetToSeq(A) \o t) = Len(SetToSeq(A)) + Len(t)
  BY <1>5, ConcatProperties
<1> QED BY <1>4, <1>6

\* At most three agents look at the objections, at most six at a failed gate.
LEMMA ReworksAreShort ==
  /\ \A A \in {{}, {"identity_profile"}, {"valuation_analysis", "risk_analysis"}} :
       Len(SetToSeq(A) \o <<"critic">>) \in 1..3
  /\ \A A \in Repairs : Len(SetToSeq(A) \o <<"final_answer", "verifier">>) \in 2..6
<1>1. ASSUME NEW A \in {{}, {"identity_profile"}, {"valuation_analysis", "risk_analysis"}}
      PROVE  Len(SetToSeq(A) \o <<"critic">>) \in 1..3
  <2>1. IsFiniteSet(A) /\ Cardinality(A) \in Nat /\ Cardinality(A) <= 2
    BY FewAreFinite, FewAgents
  <2>2. <<"critic">> \in Seq({"critic"}) /\ Len(<<"critic">>) = 1
    OBVIOUS
  <2>3. Len(SetToSeq(A) \o <<"critic">>) = Cardinality(A) + 1
    BY <2>1, <2>2, ReworkLength
  <2> QED BY <2>1, <2>3
<1>2. ASSUME NEW A \in Repairs
      PROVE  Len(SetToSeq(A) \o <<"final_answer", "verifier">>) \in 2..6
  <2>1. IsFiniteSet(A) /\ Cardinality(A) \in Nat /\ Cardinality(A) <= 4
    <3>1. CASE A \in {{}, {"deep_analyze"}}
      <4>1. IsFiniteSet(A) /\ Cardinality(A) \in Nat /\ Cardinality(A) <= 2
        BY <3>1, FewAreFinite, FewAgents
      <4> QED BY <4>1
    <3>2. CASE A = {"deep_researcher", "browser", "deep_analyze", "valuation_analysis"}
      BY <3>2, FewAreFinite, FewAgents
    <3> QED BY <3>1, <3>2 DEF Repairs
  <2>2. /\ <<"final_answer", "verifier">> \in Seq({"final_answer", "verifier"})
        /\ Len(<<"final_answer", "verifier">>) = 2
    OBVIOUS
  <2>3. Len(SetToSeq(A) \o <<"final_answer", "verifier">>) = Cardinality(A) + 2
    BY <2>1, <2>2, ReworkLength
  <2> QED BY <2>1, <2>3
<1> QED BY <1>1, <1>2

\* One more round is worth more than the agents it executes.
LEMMA RoundsFall ==
  ASSUME NEW x \in Int, NEW m \in Int, NEW r \in Int, NEW l \in Int
  PROVE  /\ l <= 3 => x + 4 * (m - (r + 1)) + l < x + 4 * (m - r) + 0
         /\ l <= 6 => 7 * (m - (r + 1)) + 2 + l < 7 * (m - r) + 2 + 0
OBVIOUS

\* The steps within the tasks and the objections.
LEMMA TasksFall ==
  ASSUME Skeleton, Rounds, Dispatch \/ Review \/ ReworkRoles \/ Settle \/ TasksEnd
  PROVE  PartLeft' + Len(todo') < PartLeft + Len(todo)
<1> DEFINE n == Cardinality(Pending)
<1>1. /\ VerifierRounds \in Nat /\ DeliveryRounds \in Nat /\ round \in Nat /\ MaxRounds = 2
  BY ProfileIsNat DEF MaxRounds
<1>2. Later \in Nat /\ Later = 3 * VerifierRounds + 7 * DeliveryRounds + 6
  BY <1>1 DEF Later
<1>3. todo = <<>> /\ Len(todo) = 0 /\ UNCHANGED <<tasks, mode, done>>
  BY DEF Dispatch, Review, ReworkRoles, Settle, TasksEnd, InLoop, Executing, plan
<1>4. task = {} /\ Open = Pending /\ n \in Nat
  <2>1. at \in {"tasks", "objections"}
    BY DEF Dispatch, Review, ReworkRoles, Settle, TasksEnd, InLoop
  <2>2. task = {}
    BY <1>3, <2>1 DEF Skeleton, Control
  <2> QED BY <2>2, OpenTasks DEF Open
<1>5. Later' = Later /\ Pending' = Pending
  BY <1>3 DEF Later, VerifierRounds, DeliveryRounds, Pending
<1>6. Ready # {} => /\ First \in Pending /\ Cardinality(Pending \ {First}) = n - 1 /\ n >= 1
  <2> SUFFICES ASSUME Ready # {} PROVE First \in Pending
    BY OpenTasks
  <2>1. Graphed
    BY DEF Graphed, Skeleton, SoundGraph
  <2>2. First \in Ready
    BY <2>1, FirstIsReady
  <2> QED BY <2>2 DEF Ready
<1> HIDE DEF n
<1>7. CASE Dispatch
  <2>1. Ready # {} /\ at = "tasks" /\ at' = "tasks" /\ task' = {First} /\ Len(todo') = 1
    BY <1>7 DEF Dispatch, InLoop
  <2>2. Open' = Pending \ {First}
    BY <1>5, <2>1 DEF Open
  <2>3. PartLeft = 12 * n + Later /\ PartLeft' = 12 * (n - 1) + Later
    BY <1>4, <1>5, <1>6, <2>1, <2>2 DEF PartLeft, n
  <2> QED BY <1>2, <1>3, <1>4, <2>1, <2>3
<1>8. CASE Review
  <2>1. at = "tasks" /\ at' = "objections" /\ round' = 0 /\ task' = task /\ Len(todo') = 1
    BY <1>8 DEF Review, InLoop, Goto
  <2>2. Open' = Open
    BY <1>5, <2>1 DEF Open
  <2>3. PartLeft = 12 * n + Later /\ PartLeft' = 12 * n - 10 + 4 * (2 - 0) + Later
    BY <1>1, <1>4, <1>5, <2>1, <2>2 DEF PartLeft, n, MaxRounds
  <2> QED BY <1>2, <1>3, <1>4, <2>1, <2>3
<1>9. CASE ReworkRoles
  <2>1. at = "objections" /\ at' = "objections" /\ round' = round + 1 /\ task' = task
    BY <1>9 DEF ReworkRoles
  <2>2. Len(todo') \in 1..3
    BY <1>9, ReworksAreShort DEF ReworkRoles
  <2>3. Open' = Open
    BY <1>5, <2>1 DEF Open
  <2>4. /\ PartLeft = 12 * n - 10 + 4 * (2 - round) + Later
        /\ PartLeft' = 12 * n - 10 + 4 * (2 - (round + 1)) + Later
    BY <1>1, <1>4, <1>5, <2>1, <2>3 DEF PartLeft, n, MaxRounds
  <2>5. /\ PartLeft = (12 * n - 10 + Later) + 4 * (2 - round)
        /\ PartLeft' = (12 * n - 10 + Later) + 4 * (2 - (round + 1))
    BY <1>1, <1>2, <1>4, <2>4
  <2>6. /\ 12 * n - 10 + Later \in Int /\ 2 \in Int /\ round \in Int
        /\ Len(todo') \in Int /\ Len(todo') <= 3
    <3>1. round \in Int /\ 12 * n - 10 + Later \in Int
      BY ONLY <1>1, <1>2, <1>4
    <3>2. \A k \in 1..3 : k \in Int /\ k <= 3
      OBVIOUS
    <3>3. Len(todo') \in Int /\ Len(todo') <= 3
      BY ONLY <2>2, <3>2
    <3>4. 2 \in Int
      OBVIOUS
    <3> QED BY ONLY <3>1, <3>3, <3>4, Zenon
  <2>7. (12 * n - 10 + Later) + 4 * (2 - (round + 1)) + Len(todo')
          < (12 * n - 10 + Later) + 4 * (2 - round) + 0
    BY ONLY <2>6, RoundsFall
  <2> QED BY <1>3, <2>5, <2>7
<1>10. CASE Settle
  <2>1. at = "objections" /\ at' = "tasks" /\ task' = {First} /\ Len(todo') = 1
    BY <1>10 DEF Settle, Goto
  <2>2. Ready # {} /\ round <= 2
    BY <1>1, <2>1 DEF Skeleton, Control, Rounds
  <2>3. Open' = Pending \ {First}
    BY <1>5, <2>1 DEF Open
  <2>4. PartLeft = 12 * n - 10 + 4 * (2 - round) + Later /\ PartLeft' = 12 * (n - 1) + Later
    BY <1>1, <1>4, <1>5, <1>6, <2>1, <2>2, <2>3 DEF PartLeft, n
  <2> QED BY <1>1, <1>2, <1>3, <1>4, <2>1, <2>2, <2>4
<1>11. CASE TasksEnd
  <2>1. at = "tasks" /\ at' = "verification" /\ round' = 0 /\ Len(todo') = 0
    BY <1>3, <1>11 DEF TasksEnd, Goto
  <2>2. VerifierRounds' = VerifierRounds /\ DeliveryRounds' = DeliveryRounds
    BY <1>3 DEF VerifierRounds, DeliveryRounds
  <2>3. PartLeft = 12 * n + Later /\ PartLeft' = 3 * (VerifierRounds - 0) + 7 * DeliveryRounds + 5
    BY <1>4, <2>1, <2>2 DEF PartLeft, n
  <2> QED BY <1>1, <1>2, <1>3, <1>4, <2>1, <2>3
<1> QED BY <1>7, <1>8, <1>9, <1>10, <1>11

\* The steps between the parts that follow, and their reworks.
LEMMA ReworksFall ==
  ASSUME Skeleton, Rounds,
         \/ Revise \/ Revised \/ GapsResolved \/ EvaluateDelivery \/ ReworkOver \/ WriteFiles
  PROVE  PartLeft' + Len(todo') < PartLeft + Len(todo)
<1> DEFINE V == VerifierRounds
           D == DeliveryRounds
<1>1. V \in Nat /\ D \in Nat /\ round \in Nat
  BY ProfileIsNat
<1>2. V' = V /\ D' = D
  BY DEF VerifierRounds, DeliveryRounds, Revise, Revised, GapsResolved, EvaluateDelivery, ReworkOver,
         WriteFiles, plan
<1> HIDE DEF V, D
<1>3. todo = <<>> /\ Len(todo) = 0
  <2>1. CASE WriteFiles
    BY <2>1 DEF WriteFiles, Skeleton, Control
  <2>2. CASE ~WriteFiles
    BY <2>2 DEF Revise, Revised, GapsResolved, EvaluateDelivery, ReworkOver, Executing
  <2> QED BY <2>1, <2>2
<1>4. CASE Revise
  <2>1. at = "verification" /\ at' = at /\ round' = round + 1 /\ Len(todo') = 2
    BY <1>4 DEF Revise
  <2>2. PartLeft = 3 * (V - round) + 7 * D + 5 /\ PartLeft' = 3 * (V - (round + 1)) + 7 * D + 5
    BY <1>2, <2>1 DEF PartLeft, V, D
  <2> QED BY <1>1, <1>3, <2>1, <2>2
<1>5. CASE Revised
  <2>1. at = "verification" /\ at' = "gaps" /\ Len(todo') = 1 /\ round <= V
    BY <1>5 DEF Revised, Goto, Rounds, V
  <2>2. PartLeft = 3 * (V - round) + 7 * D + 5 /\ PartLeft' = 7 * D + 3
    BY <1>2, <2>1 DEF PartLeft, V, D
  <2> QED BY <1>1, <1>3, <2>1, <2>2
<1>6. CASE GapsResolved
  <2>1. /\ at = "gaps" /\ at' = (IF D = 0 THEN "files" ELSE "delivery") /\ round' = 0
        /\ Len(todo') = 0
    BY <1>3, <1>6 DEF GapsResolved, Goto, D, DeliveryRounds
  <2>2. PartLeft = 7 * D + 3 /\ PartLeft' = IF D = 0 THEN 1 ELSE 7 * (D - 0) + 2
    BY <1>2, <2>1 DEF PartLeft, D
  <2> QED BY <1>1, <1>3, <2>1, <2>2
<1>7. CASE EvaluateDelivery
  <2>1. /\ at = "delivery" /\ round < D
        /\ \/ at' = "files" /\ todo' = todo
           \/ /\ at' = at /\ round' = round + 1
              /\ \E agents \in Repairs : todo' = SetToSeq(agents) \o <<"final_answer", "verifier">>
    BY <1>7 DEF EvaluateDelivery, Goto, D, DeliveryRounds
  <2>2. PartLeft = 7 * (D - round) + 2
    BY <2>1 DEF PartLeft, D
  <2>3. CASE at' = "files" /\ todo' = todo
    <3>1. PartLeft' = 1 /\ Len(todo') = 0
      BY <1>3, <2>3 DEF PartLeft
    <3> QED BY <1>1, <1>3, <2>1, <2>2, <3>1
  <2>4. CASE /\ at' = at /\ round' = round + 1
             /\ \E agents \in Repairs : todo' = SetToSeq(agents) \o <<"final_answer", "verifier">>
    <3>1. Len(todo') \in 2..6
      BY <2>4, ReworksAreShort
    <3>2. PartLeft' = 7 * (D - (round + 1)) + 2
      BY <1>2, <2>1, <2>4 DEF PartLeft, D
    <3>3. /\ D \in Int /\ round \in Int /\ Len(todo') \in Int /\ 0 \in Int
          /\ Len(todo') <= 6
      <4>1. \A k \in 2..6 : k \in Int /\ k <= 6
        OBVIOUS
      <4>2. \A k \in Nat : k \in Int
        OBVIOUS
      <4> QED BY ONLY <1>1, <3>1, <4>1, <4>2
    <3>4. 7 * (D - (round + 1)) + 2 + Len(todo') < 7 * (D - round) + 2 + 0
      BY ONLY <3>3, RoundsFall
    <3> QED BY <1>3, <2>2, <3>2, <3>4
  <2> QED BY <2>1, <2>3, <2>4
<1>8. CASE ReworkOver
  <2>1. at = "delivery" /\ at' = "files" /\ Len(todo') = 0 /\ round = D
    BY <1>3, <1>8 DEF ReworkOver, Goto, D, DeliveryRounds
  <2>2. PartLeft = 7 * (D - round) + 2 /\ PartLeft' = 1
    BY <2>1 DEF PartLeft, D
  <2> QED BY <1>1, <1>3, <2>1, <2>2
<1>9. CASE WriteFiles
  <2>1. at = "files" /\ at' = "done" /\ Len(todo') = 0
    BY <1>3, <1>9 DEF WriteFiles, Goto
  <2>2. PartLeft = 1 /\ PartLeft' = 0
    BY <2>1 DEF PartLeft
  <2> QED BY <1>3, <2>1, <2>2
<1> QED BY <1>4, <1>5, <1>6, <1>7, <1>8, <1>9

LEMMA StepsLeftFalls ==
  ASSUME Skeleton, Rounds, Skeleton', Rounds', Next PROVE StepsLeft' < StepsLeft
<1>0. PartLeft \in Nat /\ Len(todo) \in Nat
  BY StepsLeftType
<1>1. CASE AgentCompletes \/ AgentTimesOut
  BY <1>1, ExecutedFalls DEF AgentCompletes, AgentTimesOut
<1>2. CASE AgentFails
  <2>1. CASE MayFail
    BY <1>2, <2>1, ExecutedFalls DEF AgentFails
  <2>2. CASE ~MayFail
    <3>1. at' = "raised" /\ todo' = <<>> /\ expired' = expired /\ Executing
      BY <1>2, <2>2 DEF AgentFails
    <3>2. Len(todo) > 0
      BY <3>1, TailOfAgents DEF Executing, Skeleton, TypeOK
    <3>3. PartLeft + Len(todo) > 0
      BY <1>0, <3>2
    <3> QED BY <3>1, <3>3, RaisedFalls
  <2> QED BY <2>1, <2>2
<1>3. CASE Blocked
  <2>1. at = "tasks" /\ at' = "raised" /\ todo = <<>> /\ todo' = <<>> /\ expired' = expired
    BY <1>3 DEF Blocked, InLoop, Executing
  <2>2. PartLeft = 12 * Cardinality(Open) + (3 * VerifierRounds + 7 * DeliveryRounds + 6)
    BY <2>1 DEF PartLeft, Later
  <2>3. PartLeft + Len(todo) > 0
    <3>1. Cardinality(Open) \in Nat /\ VerifierRounds \in Nat /\ DeliveryRounds \in Nat
      BY ProfileIsNat, OpenTasks
    <3> QED BY <1>0, <2>2, <3>1
  <2> QED BY <2>1, <2>3, RaisedFalls
<1>4. CASE DeadlinePasses
  <2>1. /\ ~expired /\ expired' = TRUE
        /\ UNCHANGED <<tasks, mode, at, todo, task, done, round>>
    BY <1>4 DEF DeadlinePasses, plan
  <2>2. PartLeft' = PartLeft
    <3>1. /\ VerifierRounds' = VerifierRounds /\ DeliveryRounds' = DeliveryRounds /\ Later' = Later
          /\ Open' = Open
      BY <2>1 DEF VerifierRounds, DeliveryRounds, Later, Open, Pending
    <3> QED BY <2>1, <3>1 DEF PartLeft
  <2>3. DeadlineLeft = 1 /\ DeadlineLeft' = 0
    BY <2>1 DEF DeadlineLeft
  <2>4. StepsLeft = PartLeft + Len(todo) + 1 /\ StepsLeft' = PartLeft + Len(todo) + 0
    BY <2>1, <2>2, <2>3 DEF StepsLeft
  <2> QED BY <1>0, <2>4
<1>5. CASE Dispatch \/ Review \/ ReworkRoles \/ Settle \/ TasksEnd
  <2>1. expired' = expired
    BY <1>5 DEF Dispatch, Review, ReworkRoles, Settle, TasksEnd
  <2> QED BY <1>5, <2>1, TasksFall, PartFalls
<1>6. CASE \/ Revise \/ Revised \/ GapsResolved \/ EvaluateDelivery \/ ReworkOver \/ WriteFiles
  <2>1. expired' = expired
    BY <1>6 DEF Revise, Revised, GapsResolved, EvaluateDelivery, ReworkOver, WriteFiles
  <2> QED BY <1>6, <2>1, ReworksFall, PartFalls
<1> QED BY <1>1, <1>2, <1>3, <1>4, <1>5, <1>6 DEF Next, RunStep

\* What a run has before it when it begins.
MostSteps == 12 * Cardinality(DOMAIN tasks) + 3 * VerifierRounds + 7 * DeliveryRounds + 7

\* A run of the orchestrator makes at most MostSteps steps, whatever the planner
\* plans, the critic objects to, the verifier and the gate find and the agents fail
\* to do.
THEOREM RunsAreBounded ==
  Spec => [](StepsLeft \in 0..MostSteps) /\ [][StepsLeft' < StepsLeft]_vars
<1>1. Spec => [](Skeleton /\ Rounds)
  BY SkeletonHolds, RoundsInit, RoundsStep, PTL DEF Spec
<1>2. Skeleton /\ Rounds /\ (Skeleton /\ Rounds)' /\ [Next]_vars => [StepsLeft' < StepsLeft]_vars
  BY StepsLeftFalls
<1>3. Init /\ Skeleton /\ Rounds => StepsLeft <= MostSteps
  <2> SUFFICES ASSUME Init, Skeleton, Rounds PROVE StepsLeft <= MostSteps
    OBVIOUS
  <2>1. /\ VerifierRounds \in Nat /\ DeliveryRounds \in Nat /\ Cardinality(Open) \in Nat
    BY ProfileIsNat, OpenTasks
  <2>2. at = "tasks" /\ todo = <<>> /\ expired = FALSE /\ Open = DOMAIN tasks
    BY DEF Init, Open, Pending
  <2>3. StepsLeft = 12 * Cardinality(Open) + (3 * VerifierRounds + 7 * DeliveryRounds + 6) + 0 + 1
    BY <2>2 DEF StepsLeft, PartLeft, Later, DeadlineLeft
  <2>4. MostSteps = 12 * Cardinality(Open) + 3 * VerifierRounds + 7 * DeliveryRounds + 7
    BY <2>2 DEF MostSteps
  <2> QED BY <2>1, <2>3, <2>4
<1>4. /\ Skeleton /\ Rounds /\ (Skeleton /\ Rounds)' /\ [Next]_vars
      /\ StepsLeft <= MostSteps
      => (StepsLeft <= MostSteps)'
  <2> SUFFICES ASSUME Skeleton, Rounds, Skeleton', Rounds', [Next]_vars, StepsLeft <= MostSteps
               PROVE  StepsLeft' <= MostSteps'
    OBVIOUS
  <2>1. MostSteps' = MostSteps /\ MostSteps \in Nat
    <3>1. UNCHANGED <<tasks, mode>>
      BY DEF Next, RunStep, AgentCompletes, AgentFails, AgentTimesOut, Executed, DeadlinePasses, Blocked,
             Dispatch, Review, ReworkRoles, Settle, TasksEnd, Revise, Revised, GapsResolved,
             EvaluateDelivery, ReworkOver, WriteFiles, plan, vars
    <3>2. Cardinality(DOMAIN tasks) \in Nat
      BY FS_CardinalityType DEF Rounds
    <3>3. VerifierRounds \in Nat /\ DeliveryRounds \in Nat
      BY ProfileIsNat
    <3> QED BY <3>1, <3>2, <3>3 DEF MostSteps, VerifierRounds, DeliveryRounds
  <2>2. StepsLeft \in Nat /\ StepsLeft' \in Nat
    BY StepsLeftType
  <2>3. CASE Next
    BY <2>1, <2>2, <2>3, StepsLeftFalls
  <2>4. CASE UNCHANGED vars
    <3>1. StepsLeft' = StepsLeft
      BY <2>4 DEF vars, plan, control, StepsLeft, PartLeft, DeadlineLeft, Later, VerifierRounds,
                  DeliveryRounds, Open, Pending
    <3> QED BY <2>1, <3>1
  <2> QED BY <2>3, <2>4
<1>5. Skeleton /\ Rounds /\ StepsLeft <= MostSteps => StepsLeft \in 0..MostSteps
  <2> SUFFICES ASSUME Skeleton, Rounds, StepsLeft <= MostSteps PROVE StepsLeft \in 0..MostSteps
    OBVIOUS
  <2>1. StepsLeft \in Nat
    BY StepsLeftType
  <2>2. MostSteps \in Int
    <3>1. Cardinality(DOMAIN tasks) \in Nat /\ VerifierRounds \in Nat /\ DeliveryRounds \in Nat
      BY ProfileIsNat, FS_CardinalityType DEF Rounds
    <3> QED BY <3>1 DEF MostSteps
  <2> QED BY <2>1, <2>2
<1> QED BY <1>1, <1>2, <1>3, <1>4, <1>5, PTL DEF Spec
=============================================================================
