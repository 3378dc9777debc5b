------------------------------ MODULE SearchRound ------------------------------
(***************************************************************************)
(* One search over several engines (src/search/search_manager.py,          *)
(* SearchManager.search): the engines are asked in order, each in a thread *)
(* with a timeout, until the search budget is spent; the hits are cleaned, *)
(* those of other companies dropped, the rest deduplicated and cut to      *)
(* topk.                                                                   *)
(*                                                                         *)
(* A hit is a record: key is what it is deduplicated by (chunk_id, url...),*)
(* id its result_id, engine and source where it is from, symbol whose it   *)
(* is (one that names no company counts as the task's), context whether it *)
(* is labelled peer, macro, industry or benchmark, role its context_type,  *)
(* and rank its place in the order by authority and score, which is also   *)
(* the order by which duplicates are preferred.                            *)
(***************************************************************************)
EXTENDS Naturals, Sequences, FiniteSets, SequencesExt, FiniteSetsExt, Functions

CONSTANTS
  Hits,            \* the hits there are
  Engines,         \* the engines of the search, in order; none occurs twice
  Known,           \* the registered ones
  HitsOf(_),       \* what an engine may return: sequences of hits
  Company,         \* the task's company
  Topk,
  Reserved,        \* engine_minimums, in order: records [engine, minimum]
  Cap(_)           \* the diversity cap of a source

ASSUME SearchAssumption ==
  /\ Topk \in Nat \ {0} /\ Engines \in Seq(Range(Engines))
  /\ \A e \in Known : HitsOf(e) \subseteq Seq(Hits)
  /\ \A h \in Hits : h.rank \in Nat /\ h.context \in BOOLEAN /\ Cap(h.source) \in Nat
  /\ \A g, h \in Hits : g.rank = h.rank => g = h
  /\ Reserved \in Seq(Range(Reserved)) /\ \A i \in DOMAIN Reserved : Reserved[i].minimum \in Nat

VARIABLES
  asked,    \* engines done with; one more once the search has returned
  meta,     \* engine_meta: engine -> "ok", "failed" or "unregistered"
  skipped,  \* skipped_engines
  raw,      \* all_hits
  hits      \* the hits returned at the end

searchVars == <<asked, meta, skipped, raw, hits>>

SearchInit ==
  /\ asked = 0 /\ meta = [e \in {} |-> "ok"] /\ skipped = <<>> /\ raw = <<>> /\ hits = <<>>

-----------------------------------------------------------------------------
(***************************************************************************)
(* Selecting the hits                                                      *)
(***************************************************************************)
\* A bug: the hits of other companies are not dropped.
EveryCompany(S) == S

OwnOrContext(S) == {h \in S : h.symbol = Company \/ h.context}

\* The best hit of every key.
Deduped(S) == {h \in S : \A g \in S : g.key = h.key => g.rank <= h.rank}

\* These hits, best first.
ByRank(S) ==
  [n \in 1..Cardinality(S) |-> CHOOSE h \in S : Cardinality({g \in S : g.rank > h.rank}) = n - 1]

FirstN(s, n) == SubSeq(s, 1, IF n < Len(s) THEN n ELSE Len(s))
OfSource(S, source) == {h \in S : h.source = source}

\* Hits kept whatever else was found: the valuation needs the Yahoo records,
\* which the ranking alone would starve.
ReservedHits(S) ==
  FlattenSeq([i \in DOMAIN Reserved |->
    FirstN(ByRank({h \in S : h.engine = Reserved[i].engine}),
           IF Reserved[i].minimum < Topk THEN Reserved[i].minimum ELSE Topk)])

\* The others that are within the cap of their source, the reserved ones counted.
Diverse(S, kept) ==
  {h \in S \ kept :
     Cardinality(OfSource(kept, h.source))
       + Cardinality({g \in OfSource(S \ kept, h.source) : g.rank > h.rank}) < Cap(h.source)}

\* A bug: sources are not capped.
SelectedUncapped(best) ==
  LET kept == ReservedHits(best) IN FirstN(kept \o ByRank(best \ Range(kept)), Topk)

\* The reserved hits, then those within their cap, then what is left.
Selected(best) ==
  LET kept == ReservedHits(best)
      diverse == Diverse(best, Range(kept))
      rest == best \ (Range(kept) \cup diverse)
  IN FirstN(kept \o ByRank(diverse) \o ByRank(rest), Topk)

-----------------------------------------------------------------------------
(***************************************************************************)
(* The search                                                              *)
(***************************************************************************)
Searching == asked <= Len(Engines)
Next1 == Engines[asked + 1]

Account(e, outcome) ==
  /\ meta' = [x \in DOMAIN meta \cup {e} |-> IF x = e THEN outcome ELSE meta[x]]
  /\ asked' = asked + 1

EngineAnswers ==
  /\ Searching /\ asked < Len(Engines) /\ Next1 \in Known
  /\ Account(Next1, "ok")
  /\ \E found \in HitsOf(Next1) : raw' = raw \o found
  /\ UNCHANGED <<skipped, hits>>

\* A timeout or an exception; the hits of an engine that answers late are lost.
EngineFails ==
  /\ Searching /\ asked < Len(Engines) /\ Next1 \in Known
  /\ Account(Next1, "failed")
  /\ UNCHANGED <<skipped, raw, hits>>

EngineUnknown ==
  /\ Searching /\ asked < Len(Engines) /\ Next1 \notin Known
  /\ Account(Next1, "unregistered")
  /\ UNCHANGED <<skipped, raw, hits>>

Rest == SubSeq(Engines, asked + 1, Len(Engines))

\* The budget is only looked at before an engine is asked.
BudgetSpent ==
  /\ Searching /\ 0 < asked /\ asked < Len(Engines)
  /\ skipped' = Rest
  /\ asked' = Len(Engines)
  /\ UNCHANGED <<meta, raw, hits>>

SearchEnds ==
  /\ Searching /\ asked = Len(Engines)
  /\ \E best \in {Deduped(OwnOrContext(Range(raw)))} : hits' = Selected(best)
  /\ asked' = asked + 1
  /\ UNCHANGED <<meta, skipped, raw>>

SearchNext == EngineAnswers \/ EngineFails \/ EngineUnknown \/ BudgetSpent \/ SearchEnds

-----------------------------------------------------------------------------
(***************************************************************************)
(* Properties                                                              *)
(***************************************************************************)
SearchTypeOK ==
  /\ asked \in 0..Len(Engines) + 1 /\ DOMAIN meta \subseteq Range(Engines)
  /\ \A e \in DOMAIN meta : meta[e] \in {"ok", "failed", "unregistered"}
  /\ Range(skipped) \subseteq Range(Engines) /\ Range(raw) \subseteq Hits
  /\ hits \in Seq(Hits) /\ Len(hits) <= Topk

\* A source exceeds its cap only when no hit of a source below its cap was left
\* out: a chatty source does not crowd out the others.  (Reserved hits are kept
\* anyway.)
CountOf(source) == Cardinality(OfSource(Range(hits), source))
NobodyCrowdedOut ==
  ~Searching =>
    LET best == Deduped(OwnOrContext(Range(raw)))
        kept == Range(ReservedHits(best))
    IN \A h \in Range(hits) :
         CountOf(h.source) > Cap(h.source) /\ h \notin kept =>
           \A g \in best \ Range(hits) : CountOf(g.source) >= Cap(g.source)
=============================================================================
