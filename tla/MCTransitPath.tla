---------------------------- MODULE MCTransitPath ----------------------------
EXTENDS TransitPath

Agent(id, type, suppress, encode, dynamic, limit) ==
    [agentID |-> id, appType |-> type, suppress |-> suppress, httpEncode |-> encode,
     dynamic |-> dynamic, limit |-> limit]

MCTpAgents ==
    {Agent("", "", {}, FALSE, FALSE, 1), Agent("AGENT_ID", "type", {}, FALSE, FALSE, 1),
     Agent("agent", "type", {}, FALSE, TRUE, 2), Agent("agent", "type", {"states"}, TRUE, FALSE, 1)}
MCSizes == {<<1, 1>>, <<2, 1>>, <<3, 2>>, <<3, 3>>}
=============================================================================
