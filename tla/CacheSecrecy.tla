---------------------------- MODULE CacheSecrecy ----------------------------
(***************************************************************************)
(* CacheSystem under software that uses SecDMP as intended: data that is   *)
(* not public is only ever stored to lines inside the secret partition,    *)
(* and a line leaves the partition only when its contents are public.      *)
(* The partition may change at any time otherwise, requests, responses and *)
(* stores in flight notwithstanding.                                       *)
(***************************************************************************)
EXTENDS CacheSystem

CONSTANT PublicData  \* the contents a prefetcher may be steered by

ASSUME CacheSecrecyAssumption ==
    /\ PublicData \subseteq Data
    /\ SecDmp
    /\ Garbage \subseteq PublicData \cup {None}

\* A command that brings data that is not public to a line.
SecretStore(cmd, line) ==
    cmd # None /\ cmd.write /\ cmd.line = line /\ cmd.data \notin PublicData

SecrecyInit ==
    /\ Init
    /\ \A line \in Line \ partition : mem[line] \in PublicData

StoresSecretsInside(in) ==
    \A line \in Line \ partition : ~SecretStore(in.cmd, line)

DeclassifiesPublicLines(in) ==
    \A line \in partition \ partition' :
        Contents[line] \in PublicData /\ ~SecretStore(in.cmd, line)

SecrecyNext ==
    \E in \in Inputs :
        /\ StoresSecretsInside(in)
        /\ Cycle(in)
        /\ DeclassifiesPublicLines(in)

SecrecySpec == SecrecyInit /\ [][SecrecyNext]_vars

----------------------------------------------------------------------------
\* The data that comes in from the memory is handed to the prefetcher only if it
\* is public, although what is looked at is the secrecy bit that was computed when
\* the request went out and lowered when loads were merged into it, not where the
\* line is now (Cache.scala 183-209, 360-368, 473-477, 545-551).
ScannedDataIsPublic ==
    \A in \in Inputs :
        NotifiesPrefetchResponse(in) \/ NotifiesMissResponse(in)
            => in.rdata \in PublicData

\* What this rests on: lines outside the partition are public, a store on its way
\* respects that, and an answer that is owed, or will be read for a buffered
\* request, is public unless the request is marked secret.
OutsideIsPublic ==
    \A line \in Line \ partition :
        Contents[line] \in PublicData /\ ~SecretStore(heldCmd, line)

UnmarkedIsPublic ==
    \A i \in Id :
        Pending(i) /\ ~outstandingLoads[i].secret =>
            /\ memRsp[i] # None => memRsp[i] \in PublicData
            /\ BufferedRequest(i) => mem[outstandingLoads[i].line] \in PublicData

SecrecyInvariant == CoherenceInvariant /\ OutsideIsPublic /\ UnmarkedIsPublic
=============================================================================
