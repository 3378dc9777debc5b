---------------------------- MODULE MCDeepResearch ----------------------------
(***************************************************************************)
(* Instance of DeepResearch for TLC: a query tool, a snapshot tool, a tool *)
(* that is registered but not offered, one that does not exist; a Yahoo    *)
(* engine whose hits rank low, a filing engine whose many hits rank high,  *)
(* and an engine nobody registered.                                        *)
(***************************************************************************)
EXTENDS DeepResearch

MCRegistered == {"retrieve_local_evidence", "fetch_yahoo_market_snapshot", "attach_charts_to_report"}
MCOffered == {"retrieve_local_evidence", "fetch_yahoo_market_snapshot"}
MCQuerying == {"retrieve_local_evidence"}

C(tool, args, symbol) == [tool |-> tool, args |-> args, symbol |-> symbol]
MCCalls ==
  {C("retrieve_local_evidence", "complete", "PEER"), C("retrieve_local_evidence", "malformed", "PEER"),
   C("fetch_yahoo_market_snapshot", "malformed", "PEER"), C("fetch_yahoo_market_snapshot", "complete", "PEER"),
   C("attach_charts_to_report", "complete", "PEER"), C("guess", "complete", "PEER")}

H(k, id, engine, symbol, context, role, rank) ==
  [key |-> k, id |-> id, engine |-> engine, source |-> engine, symbol |-> symbol,
   context |-> context, role |-> role, rank |-> rank]

Supplement == H("u1", "fin", "yahoo", "ACME", FALSE, "period_matched_financial_supplement", 1)
Snapshot == H("u2", "snap", "yahoo", "ACME", FALSE, "current_market_snapshot", 2)
Filing(n) == H("f" \o ToString(n), "f" \o ToString(n), "sec", "ACME", FALSE, "", 10 + n)
Peer == H("p1", "p1", "web", "PEER", TRUE, "", 5)
Stranger == H("p2", "p2", "web", "PEER", FALSE, "", 6)

MCHits == {Supplement, Snapshot, Filing(1), Filing(2), Filing(3), Peer, Stranger}

\* A tool asked about a company returns rows of that company.
MCAnswers(tool, symbol) ==
  CASE tool = "retrieve_local_evidence" /\ symbol = "ACME" ->
         {<<Filing(1), Filing(2), Filing(3), Supplement>>}
    [] tool = "retrieve_local_evidence" /\ symbol = "PEER" -> {<<Stranger>>}
    [] tool = "fetch_yahoo_market_snapshot" -> {<<IF symbol = "ACME" THEN Snapshot ELSE Stranger>>}
    [] OTHER -> {<<>>}

MCEngines == <<"sec", "nobody", "web", "yahoo">>
MCKnown == {"sec", "web", "yahoo"}
MCHitsOf(e) ==
  CASE e = "sec" -> {<<Filing(1), Filing(2), Filing(3)>>}
    [] e = "web" -> {<<Peer, Stranger>>}
    [] OTHER -> {<<Supplement, Snapshot>>}
MCReserved == <<[engine |-> "yahoo", minimum |-> 2], [engine |-> "sec", minimum |-> 1]>>
MCCap(s) == IF s = "sec" THEN 2 ELSE 1
MCSymbols == {"ACME", "PEER"}
=============================================================================
