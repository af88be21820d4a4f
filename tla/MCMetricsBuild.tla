--------------------------- MODULE MCMetricsBuild ---------------------------
(* Instances of MetricsBuild: payloads of one service, one with a host     *)
(* status, oversized ones of one and of three hosts and one with fewer     *)
(* services than parts, malformed ones, in every order of up to four.      *)
EXTENDS MetricsBuild

CONSTANTS one, two, status, xxlOne, xxlTwo, xxlFew, bad

Res(h, ch, n) == [host |-> h, changed |-> ch, services |-> [i \in 1 .. n |-> <<h, i>>]]

MCPayloadLen == [p \in MtPayloads |->
    CASE p \in {one, status, bad} -> 1
      [] p = two                  -> 2
      [] OTHER                    -> 7]
MCResources == [p \in MtPayloads |->
    CASE p = one    -> <<Res("a", FALSE, 1)>>
      [] p = two    -> <<Res("b", FALSE, 1), Res("c", FALSE, 1)>>
      [] p = status -> <<Res("d", TRUE, 1)>>
      [] p = xxlOne -> <<Res("e", TRUE, 6)>>
      [] p = xxlTwo -> <<Res("f", FALSE, 2), Res("g", FALSE, 1), Res("h", FALSE, 3)>>
      [] p = xxlFew -> <<Res("i", FALSE, 2)>>
      [] OTHER      -> <<>>]
Group(k, ms) == [key |-> k, members |-> ms]
MCGroups == [p \in MtPayloads |->
    CASE p = one    -> <<Group("g1", {"a"}), Group("g2", {"a"})>>
      [] p = two    -> <<Group("g1", {"b"}), Group("g1", {"c"})>>
      [] p = xxlTwo -> <<Group("g2", {"f", "h"})>>
      [] OTHER      -> <<>>]
MCBuffers == UNION {{s \in [1 .. n -> MtPayloads] : IsInjective(s)} : n \in 0 .. 4}
=============================================================================
