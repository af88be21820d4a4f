--------------------------- MODULE MCAgentService ---------------------------
(* Instances of AgentService: an accepted and a rejected connection, a     *)
(* disabled, an unconfigured and an empty configuration, and a changed     *)
(* NATS configuration.                                                     *)
EXTENDS AgentService

Conf(e, c, n, conns) == [enabled |-> e, configured |-> c, nats |-> n, conns |-> conns]

MCInitConf == Conf(TRUE, TRUE, 0, "bad")
MCConfs == {MCInitConf, Conf(TRUE, TRUE, 0, "good"), Conf(TRUE, TRUE, 1, "good"),
            Conf(FALSE, TRUE, 1, "good"), Conf(TRUE, FALSE, 0, "good"),
            Conf(TRUE, TRUE, 0, "none")}
=============================================================================
