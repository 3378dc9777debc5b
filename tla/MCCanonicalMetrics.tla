------------------------- MODULE MCCanonicalMetrics -------------------------
(* Instances of CanonicalMetrics for TLC. *)
EXTENDS CanonicalMetrics

Row(n, v, p, c) == [name |-> n, value |-> v, priority |-> p, sourced |-> TRUE, fit |-> "yes", confidence |-> c]

\* A local summary (no priority of its own), a filing, and the market.
Local(n, v) == Row(n, v, 99, 9)
Filing(n, v) == Row(n, v, 10, 0)
Market(n, v) == Row(n, v, 60, 8)

RawRows == {<<>>} \cup {<<Local("revenue", v), Local("net_income", 1)>> : v \in {1, 2}}
                  \cup {<<Row("revenue", 3, 10, 9), Local("net_income", 1), Local("total_assets", 2)>>}
TableRows == {<<>>, <<Filing("revenue", 2), Filing("net_income", 3)>>,
              <<[Filing("revenue", 1) EXCEPT !.fit = "no"], Filing("total_assets", 3)>>,
              <<[Row("net_income", 2, 99, 0) EXCEPT !.fit = "open"], Filing("gross_margin", 1)>>}
MCFound == [raw : RawRows, tables : TableRows]
MCMarketRows == {Market("revenue", 3), Market("net_income", 2), Market("total_assets", 1)}
MCFigures == MCMarketRows \cup UNION {Range(f.raw) \cup Range(f.tables) : f \in MCFound}
=============================================================================
