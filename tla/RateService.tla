----------------------------- MODULE RateService -----------------------------
(***************************************************************************)
(* The currency service: a rate is read from the cache, else from the      *)
(* database, else from the provider, whose snapshot every refresh stores   *)
(* and caches for all pairs.  A refresh is exclusive in its process only:  *)
(* another process may store and cache an older snapshot after it.         *)
(***************************************************************************)
EXTENDS Naturals, Sequences

CONSTANTS Pairs,        \* pairs of different currencies
          Askers,       \* calls in progress at once
          ProcessOf,    \* the process that runs a call
          StampOf,      \* bound: the provider's snapshots, by their timestamps
          MaxOutages    \* bound: failed calls of the provider or the database

ASSUME RateServiceAssumption ==
    /\ StampOf \in Seq(Nat \ {0})
    /\ \A n \in DOMAIN StampOf : n > 1 => StampOf[n - 1] <= StampOf[n]
    /\ MaxOutages \in Nat

VARIABLES snapshot,   \* the snapshot the provider serves
          rates,      \* exchange_rates: the snapshot stored under a timestamp
          aged,       \* timestamps up to this one are rateCacheTTL old
          rateCache,  \* the snapshot a cached rate is from
          askers,     \* the call every slot is executing
          outages

rateVars == <<snapshot, rates, aged, rateCache, askers, outages>>

NoRate == 0
RateStamps == {StampOf[n] : n \in DOMAIN StampOf}
LatestStamp == StampOf[Len(StampOf)]

\* A call that neither asks for a pair nor has a stored rate to fall back on.
NotAsking == [at |-> "idle", pairs |-> {}, rate |-> NoRate, todo |-> {}, new |-> NoRate]

RateInit ==
    /\ snapshot = 1
    /\ rates = [t \in RateStamps |-> NoRate]
    /\ aged = 0
    /\ rateCache = [p \in Pairs |-> NoRate]
    /\ askers = [a \in Askers |-> NotAsking]
    /\ outages = 0

Asks(a, call) == askers' = [askers EXCEPT ![a] = call]
Outage == outages < MaxOutages /\ outages' = outages + 1

\* ORDER BY timestamp DESC LIMIT 1.
GetLatest ==
    LET at == {t \in RateStamps : rates[t] # NoRate}
    IN  IF at = {} THEN NoRate
        ELSE rates[CHOOSE t \in at : \A other \in at : other <= t]

\* The cache missed, or its call failed.
GetRate(a, p) ==
    /\ askers[a] = NotAsking
    /\ Asks(a, [NotAsking EXCEPT !.at = "stored", !.pairs = {p}])
    /\ UNCHANGED <<snapshot, rates, aged, rateCache, outages>>

\* The administrator's refresh.
Refresh(a) ==
    /\ askers[a] = NotAsking
    /\ Asks(a, [NotAsking EXCEPT !.at = "lock"])
    /\ UNCHANGED <<snapshot, rates, aged, rateCache, outages>>

\* A stored rate younger than the cache's time to live is as good.
getRateRecord(a) ==
    /\ askers[a].at = "stored"
    /\ Asks(a, [askers[a] EXCEPT !.rate = GetLatest,
                   !.at = IF GetLatest # NoRate /\ StampOf[GetLatest] > aged
                          THEN "put" ELSE "lock"])
    /\ UNCHANGED <<snapshot, rates, aged, rateCache, outages>>

\* The cache's errors are ignored: a rate is put there or not.
putCachedRate(ps, rate) ==
    \/ rateCache' = [p \in Pairs |-> IF p \in ps THEN rate ELSE rateCache[p]]
    \/ UNCHANGED rateCache

\* A rate of the database: a fresh one, or a stale one as the last resort.
PutStored(a) ==
    /\ askers[a].at = "put"
    /\ putCachedRate(askers[a].pairs, askers[a].rate)
    /\ Asks(a, NotAsking)
    /\ UNCHANGED <<snapshot, rates, aged, outages>>

Refreshing == {"fetch", "save", "publish"}

\* refreshMu
LockRefresh(a) ==
    /\ askers[a].at = "lock"
    /\ \A b \in Askers : ProcessOf[b] = ProcessOf[a] => askers[b].at \notin Refreshing
    /\ Asks(a, [askers[a] EXCEPT !.at = "fetch"])
    /\ UNCHANGED <<snapshot, rates, aged, rateCache, outages>>

Fetch(a) ==
    /\ askers[a].at = "fetch"
    /\ Asks(a, [askers[a] EXCEPT !.at = "save", !.new = snapshot])
    /\ UNCHANGED <<snapshot, rates, aged, rateCache, outages>>

\* One transaction for all pairs; a snapshot of the same time is replaced.
Save(a) ==
    /\ askers[a].at = "save"
    /\ rates' = [rates EXCEPT ![StampOf[askers[a].new]] = askers[a].new]
    /\ Asks(a, [askers[a] EXCEPT !.at = "publish", !.todo = Pairs])
    /\ UNCHANGED <<snapshot, aged, rateCache, outages>>

\* Then every pair's rate is cached, one after the other, and the lock free.
PublishRate(a) ==
    /\ askers[a].at = "publish"
    /\ \E p \in askers[a].todo :
        /\ putCachedRate({p}, askers[a].new)
        /\ Asks(a, IF askers[a].todo = {p} THEN NotAsking
                   ELSE [askers[a] EXCEPT !.todo = @ \ {p}])
    /\ UNCHANGED <<snapshot, rates, aged, outages>>

\* No answer, a malformed one, or a failed statement: what is stored will do.
RefreshFails(a) ==
    /\ askers[a].at \in {"stored", "fetch", "save"}
    /\ Outage
    /\ Asks(a, IF askers[a].rate = NoRate THEN NotAsking
               ELSE [askers[a] EXCEPT !.at = "put"])
    /\ UNCHANGED <<snapshot, rates, aged, rateCache>>

ProviderPublishes ==
    /\ snapshot < Len(StampOf)
    /\ snapshot' = snapshot + 1
    /\ UNCHANGED <<rates, aged, rateCache, askers, outages>>

TimePasses ==
    /\ aged < LatestStamp
    /\ aged' = aged + 1
    /\ UNCHANGED <<snapshot, rates, rateCache, askers, outages>>

\* A mutant: a rate is cached without a time to live.
RateKept(p) == FALSE /\ UNCHANGED rateVars

ExpireRate(p) ==
    /\ rateCache[p] # NoRate
    /\ rateCache' = [rateCache EXCEPT ![p] = NoRate]
    /\ UNCHANGED <<snapshot, rates, aged, askers, outages>>

AskerStep(a) == getRateRecord(a) \/ PutStored(a) \/ LockRefresh(a)
                \/ Fetch(a) \/ Save(a) \/ PublishRate(a)

RateNext ==
    \/ \E a \in Askers : \/ \E p \in Pairs : GetRate(a, p)
                         \/ Refresh(a) \/ AskerStep(a) \/ RefreshFails(a)
    \/ ProviderPublishes \/ TimePasses
    \/ \E p \in Pairs : ExpireRate(p)

RateFairness == /\ \A a \in Askers : WF_rateVars(AskerStep(a))
                /\ \A p \in Pairs : WF_rateVars(ExpireRate(p))
                /\ WF_rateVars(TimePasses)

RateSpec == RateInit /\ [][RateNext]_rateVars /\ RateFairness

-----------------------------------------------------------------------------
\* A slow refresh may store and cache a snapshot that another process has
\* replaced, a stale stored rate is cached when the provider is down, and a
\* stored one is cached again for as long as it was cached before.  Once the
\* provider stops moving, all of this dies out: from some point on, no cached
\* rate is of an earlier snapshot.
RatesCatchUp ==
    snapshot = Len(StampOf) ~>
        [](\A p \in Pairs : rateCache[p] \in {NoRate, snapshot})
=============================================================================
