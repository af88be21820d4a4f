----------------------------- MODULE MCElastic -----------------------------
(* Two stored queries, hosts that come and go, pages of one object. *)
EXTENDS Elastic

MCExpr(op, n, period, rounded) ==
    [now |-> TRUE, op |-> op, n |-> n, period |-> period, rounded |-> rounded, parses |-> TRUE]
MCConfig(metrics, byUser, override) ==
    [metrics |-> metrics, groupNameByUser |-> byUser, override |-> override, filterHosts |-> "", clientsOk |-> TRUE,
     interval |-> 120, hostField |-> <<"host", FALSE>>, groupField |-> <<"group", TRUE>>,
     aggregatable |-> {<<"host", TRUE>>, <<"group", TRUE>>},
     timeFilter |-> [from |-> MCExpr("-", 0, "$interval", FALSE), to |-> MCExpr("", 0, "", FALSE)]]
MCElConfigs ==
    {MCConfig({"q1", "q2"}, FALSE, TRUE), [MCConfig({"q1"}, TRUE, FALSE) EXCEPT !.filterHosts = "prod"],
     [MCConfig({"q2"}, FALSE, FALSE) EXCEPT !.clientsOk = FALSE]}

MCFilter(id, negate, query) == [id |-> id, negate |-> negate, index |-> "nil", query |-> query]
MCStoredQueries ==
    <<[title |-> "q1", language |-> "kuery", parses |-> TRUE, defaultIndex |-> "ix", resolved |-> {"ix"},
       filters |-> <<MCFilter(1, "nil", "match/phrase"), MCFilter(2, "true", "nil")>>,
       timeFilter |-> <<[from |-> MCExpr("-", 1, "M", TRUE), to |-> MCExpr("", 0, "", FALSE)]>>],
      [title |-> "q2", language |-> "lucene", parses |-> FALSE, defaultIndex |-> "", resolved |-> {},
       filters |-> <<MCFilter(1, "false", "exists")>>, timeFilter |-> <<>>]>>

MCPage(buckets) == [ok |-> TRUE, odd |-> FALSE, down |-> FALSE, afterKey |-> FALSE, buckets |-> buckets]
MCFailed(odd) == [ok |-> FALSE, odd |-> odd, down |-> FALSE, afterKey |-> FALSE, buckets |-> <<>>]
MCNoAnswer == [MCFailed(FALSE) EXCEPT !.down = TRUE]
MCHost(h, g) == [host |-> h, group |-> g]
MCHostPages ==
    {<<MCFailed(TRUE)>>,
     <<MCPage(<<MCHost("h1", "g1"), MCHost("h1", "g2")>>), MCPage(<<MCHost("h2", "nil")>>), MCPage(<<>>)>>}
MCHits(h, n) == [host |-> h, docs |-> n]
\* A count whose last page fails, and one whose request gets no answer.
MCHitPages == {<<MCPage(<<MCHits("h1", 2)>>), MCPage(<<MCHits("h2", 1), MCHits("h3", 1)>>), MCFailed(FALSE)>>,
               <<MCPage(<<MCHits("h1", 1)>>), MCNoAnswer>>}
MCGwHosts == [h3 |-> {"g1"}]
=============================================================================
