INIT ElInit
NEXT ElNext
CONSTANTS ElConfigs <- MCElConfigs
 ElRounds = {e1}
 StoredQueries <- MCStoredQueries
 PerPage = 1
 KibanaReplies = {"ok", "garbage", "down"}
 HostPages <- MCHostPages
 HitPages <- MCHitPages
 GwHosts <- MCGwHosts
 MaxElStarts = 2
INVARIANT PeriodsAreKept
CHECK_DEADLOCK FALSE
