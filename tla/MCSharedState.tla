---------------------------- MODULE MCSharedState ----------------------------
(***************************************************************************)
(* One run for six things that threads or processes share: the expiring    *)
(* cache, the favicon cache, the limiter, the pool of results and their    *)
(* grouping, and the pid file of the server.  They have no state in        *)
(* common, so a behaviour is one of a single thing, `part'; the others     *)
(* keep their first state.                                                 *)
(***************************************************************************)
EXTENDS ExpireCache, FaviconCache, IpLimit, ResultPool, ResultGrouping,
        ServerControl, TLC

CONSTANTS a1, a2, big, x1

VARIABLE part

states == <<cacheState, iconState, limitState, poolVars, groupVars, controlVars>>

\* Two icons of one size and one that is too big.
MCBytes == [i \in Icons |-> IF i = big THEN 3 ELSE 2]

Perms == Permutations(Authorities) \cup Permutations({a1, a2})

MCInit ==
    /\ part \in {"cache", "icons", "limit", "pool", "grouping", "server"}
    /\ CacheInit /\ IconInit /\ LimitInit /\ PoolInit /\ GroupingInit
    /\ ControlInit
    /\ part # "limit" => linkToken
    /\ part # "grouping" => category = [r \in Ranks |-> x1]

MCNext ==
    \/ /\ part = "cache" /\ CacheNext
       /\ UNCHANGED <<part, iconState, limitState, poolVars, groupVars, controlVars>>
    \/ /\ part = "icons" /\ IconNext
       /\ UNCHANGED <<part, cacheState, limitState, poolVars, groupVars, controlVars>>
    \/ /\ part = "limit" /\ LimitNext
       /\ UNCHANGED <<part, cacheState, iconState, poolVars, groupVars, controlVars>>
    \/ /\ part = "pool" /\ PoolNext
       /\ UNCHANGED <<part, now, cacheState, iconState, limitState, groupVars, controlVars>>
    \/ /\ part = "grouping" /\ GroupingNext
       /\ UNCHANGED <<part, now, cacheState, iconState, limitState, poolVars, controlVars>>
    \/ /\ part = "server" /\ ControlNext
       /\ UNCHANGED <<part, now, cacheState, iconState, limitState, poolVars, groupVars>>

MCSpec == MCInit /\ [][MCNext]_<<part, now, states>>

\* The favicon cache alone.
IconsOnly == MCInit /\ part = "icons" /\ [][MCNext]_<<part, now, states>>
=============================================================================
