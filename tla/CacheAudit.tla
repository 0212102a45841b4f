----------------------------- MODULE CacheAudit -----------------------------
(***************************************************************************)
(* CacheSystem with three history variables, for properties that relate a  *)
(* response to what happened since its request went out.                   *)
(***************************************************************************)
EXTENDS CacheSystem

VARIABLES
    overwritten, \* pending requests to whose line a store came after them
    outside,     \* pending requests that were asked for while their line was outside
                 \* the secret partition
    unguarded    \* pending requests that were asked for in security mode OFF

auditVars == <<vars, overwritten, outside, unguarded>>

AuditInit == Init /\ overwritten = {} /\ outside = {} /\ unguarded = {}

Sent(in, i) == Allocates(in) /\ i = externalId

\* The requests that a load or the prefetcher asks for: sent for it, or joined by it.
AskedFor(in) == {i \in Id : Sent(in, i) \/ Merges(in, i)}

\* The requests of a set that are not completed, nor sent anew under their id.
Kept(in, requests) ==
    {i \in requests : outstandingLoads'[i].line # None /\ ~Sent(in, i)}

AuditCycle(in) ==
    /\ Cycle(in)
    /\ overwritten' = Kept(in, overwritten \cup {i \in Id : StoreOverwrites(in, i)})
    /\ outside' = Kept(in, outside)
                    \cup {i \in AskedFor(in) : outstandingLoads'[i].line \notin partition}
    /\ unguarded' = Kept(in, unguarded)
                      \cup (IF securityMode = "OFF" THEN AskedFor(in) ELSE {})

AuditNext == \E in \in Inputs : AuditCycle(in)

AuditSpec == AuditInit /\ [][AuditNext]_auditVars

\* A response is handed over: to nobody, or to a load that can take it.
Delivered(in) == RspValid(in) /\ (WaitingSlots(in.rsp) = {} \/ in.rspReady)

\* A response is scanned by the prefetcher exactly if each defence allows it for one at
\* least of those that asked for the request, when they asked: SecDMP if the line was
\* outside the secret partition, selective disabling if the mode was OFF -- however often
\* the CSRs changed in between, whoever joined the request under them, and whatever
\* the entry held when its id was used before (Cache.scala 183-192, 473-488, 545-558).
ResponseScansArePermitted ==
    \A in \in Inputs :
        Delivered(in) =>
            (NotifiesPrefetchResponse(in) \/ NotifiesMissResponse(in)
             <=> /\ SecDmp => in.rsp \in outside
                 /\ SelectiveDisabling => in.rsp \in unguarded)

\* The response to a request for a cacheable line that no store has touched
\* since the request fills the cache.  Comments at Cache.scala 158-159 and 219:
\* only "values that have been overwritten with a store either before or in the
\* current cycle" are kept out, otherwise "put result in cache".
UntouchedResponsesFill ==
    \A in \in Inputs :
        /\ RequestDone(in) /\ RspLine(in).tag \in CacheableTags
        /\ in.rsp \notin overwritten
        /\ ~(StoreInCycle(in) /\ in.cmd.line = RspLine(in))
        => Fills(in)
=============================================================================
