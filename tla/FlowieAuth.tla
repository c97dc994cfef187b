------------------------------ MODULE FlowieAuth ------------------------------
(***************************************************************************)
(* Authentication by the control plane (control/flowie_control_auth_*.c,   *)
(* flowie_control_principal_cache.c): the two token buckets in front of    *)
(* the key derivation, the credential cache that lets one thread derive    *)
(* for all that present the same secret, the principal cache, and the      *)
(* service that combines them for brokers (kind "mqtt") and for logins     *)
(* (kind "login"), with a local or an external provider.                   *)
(*                                                                         *)
(* Every critical section, every store transaction and every reading of    *)
(* the clock that a lock does not protect is a step of its own; the        *)
(* database changes at any time between them.                              *)
(***************************************************************************)
EXTENDS FlowieStore

CONSTANTS
    Threads,          \* threads of the executor
    Start,            \* the database in the beginning
    Scenarios,        \* a sequence of
                      \*   [external |-> whether an external provider is configured,
                      \*    requests |-> what is presented: records [kind, caller, key, secret],
                      \*    commands |-> what administrators may issue meanwhile,
                      \*    cached |-> what the credential cache holds: pairs <<key, secret>> just verified,
                      \*    parallel |-> how many requests are under way at once,
                      \*    begun, changes, now |-> bounds on requests, commands and the clock]
    CacheCapacity, CacheTtl,                \* auth.cache
    CallerBurst, CallerRate, CallerCapacity, \* auth.rate_limit
    IdentityBurst, IdentityRate, IdentityCapacity,
    PrincipalCapacity,    \* also auth.cache; its entries live as long
    TokenUnits        \* FLOWIE_CONTROL_AUTH_RATE_TOKEN_UNITS

ASSUME AuthAssumption ==
    /\ {CacheCapacity, CacheTtl, CallerBurst, CallerRate, CallerCapacity, IdentityBurst, IdentityRate,
        IdentityCapacity, PrincipalCapacity, TokenUnits} \subseteq Nat \ {0}

(* A database has its tables, and no credential is newer than its revision. *)
Database(d) ==
    /\ DOMAIN d = DOMAIN EmptyDatabase /\ d.revision \in Nat
    /\ \A k \in DOMAIN d.creds :
          DOMAIN d.creds[k] = {"secret", "enabled", "revision"} /\ d.creds[k].revision \in 0..d.revision
ASSUME ScenarioAssumption ==
    /\ Database(Start)
    /\ \A i \in DOMAIN Scenarios :
          /\ Scenarios[i].now \in Nat \ {0} /\ Scenarios[i].begun \in Nat
          /\ \A c \in Scenarios[i].commands : c.op \in Operations
          /\ IsFiniteSet(Scenarios[i].cached) /\ Cardinality(Scenarios[i].cached) <= CacheCapacity
          /\ \A k \in Scenarios[i].cached : credential_read(Start, k[1], k[2]).rc = "OK"

VARIABLES
    hist,        \* the databases so far; the last is the current one
    now,         \* the clock
    scene,       \* the scenario
    callers, identities,   \* the token buckets
    cache,       \* credential cache: digest -> entry, and the order of last use
    principals,  \* principal cache, likewise
    thread,      \* what each thread is doing
    begun,       \* requests begun
    verdicts     \* whether every grant so far was right during its request

vars == <<hist, now, scene, callers, identities, cache, principals, thread, begun, verdicts>>
-----------------------------------------------------------------------------
db == hist[Len(hist)]
Scenario == Scenarios[scene]
external == Scenario.external

NoPrincipal == [rc |-> "EPERM", groups |-> {}, roles |-> {}]
Idle == [pc |-> "idle", req |-> [kind |-> "none"], t |-> 0, seen |-> NoRevisions, changed |-> FALSE,
         rc |-> "OK", key |-> <<>>, policy |-> 0, at |-> 0, principal |-> NoPrincipal, cap |-> 0, from |-> 0]

(* Maps with a bound.  The access sequences only order the entries: `older'  *)
(* holds a pair <<j, k>> when j was used less recently than k.               *)
NoEntries == [at |-> <<>>, older |-> {}]
Has(m, k) == k \in DOMAIN m.at
Touched(m, k) == [m EXCEPT !.older = {p \in @ : k \notin {p[1], p[2]}} \cup ((DOMAIN m.at \ {k}) \X {k})]
Removed(m, gone) == [at |-> [k \in DOMAIN m.at \ gone |-> m.at[k]],
                     older |-> {p \in m.older : p[1] \notin gone /\ p[2] \notin gone}]
Stored(m, k, e) == Touched([m EXCEPT !.at = Put(@, k, e)], k)
Size(m) == Cardinality(DOMAIN m.at)
Ordered(m) ==
    /\ m.older \subseteq (DOMAIN m.at) \X (DOMAIN m.at)
    /\ \A j, k \in DOMAIN m.at : <<j, k>> \in m.older <=> j # k /\ <<k, j>> \notin m.older
    /\ \A i, j, k \in DOMAIN m.at : <<i, j>> \in m.older /\ <<j, k>> \in m.older => <<i, k>> \in m.older
(* Removes the least recently used entry among the candidates, if there are any. *)
Oldest(m, candidates) == CHOOSE k \in candidates : \A j \in candidates \ {k} : <<k, j>> \in m.older
Evicted(m, candidates) == IF candidates = {} THEN m ELSE Removed(m, {Oldest(m, candidates)})

-----------------------------------------------------------------------------
(* The rate limiter.  `made' and `admitted' record, for a property, when a   *)
(* bucket was created and what it has let through since.                     *)

Bucket(burst, t) == [units |-> burst * TokenUnits, refill |-> t, made |-> t, admitted |-> 0]
rate_entry_get(m, capacity, k, burst, t) ==
    IF Has(m, k) THEN m
    ELSE Stored(IF Size(m) >= capacity THEN Evicted(m, DOMAIN m.at) ELSE m, k, Bucket(burst, t))
Least(a, b) == IF a < b THEN a ELSE b
rate_refill_Again(b, rate, burst, t) ==
    [b EXCEPT !.units = Least(burst * TokenUnits, @ + (t - b.refill) * rate)]
rate_refill(b, rate, burst, t) ==
    [b EXCEPT !.units = Least(burst * TokenUnits, @ + (t - b.refill) * rate), !.refill = t]
Taken(b) == [b EXCEPT !.units = @ - TokenUnits, !.admitted = @ + 1]

Identity(req) == <<req.caller, req.key>>
(* Both buckets are refilled, and pay together or not at all.  A reading of  *)
(* the clock older than the last refill is an error.                         *)
limiter_acquire(req, t) ==
    LET c == rate_entry_get(callers, CallerCapacity, req.caller, CallerBurst, t)
        i == rate_entry_get(identities, IdentityCapacity, Identity(req), IdentityBurst, t)
        b == rate_refill(c.at[req.caller], CallerRate, CallerBurst, t)
        d == rate_refill(i.at[Identity(req)], IdentityRate, IdentityBurst, t)
        pay == b.units >= TokenUnits /\ d.units >= TokenUnits
        put(m, k, e) == Stored(m, k, IF pay THEN Taken(e) ELSE e)
    IN  IF t < c.at[req.caller].refill \/ t < i.at[Identity(req)].refill
        THEN \* a caller whose own bucket is not behind was refilled before the error
             [rc |-> "EIO", identities |-> i,
              callers |-> IF t < c.at[req.caller].refill THEN c ELSE [c EXCEPT !.at[req.caller] = b]]
        ELSE [rc |-> IF pay THEN "OK" ELSE "EBUSY", callers |-> put(c, req.caller, b),
              identities |-> put(i, Identity(req), d)]

-----------------------------------------------------------------------------
(* The credential cache *)

Digest_AnySecret(x) == <<x.req.key, None>>
Digest(x) == <<x.req.key, x.req.secret>>
Entry(status, seen, expires) == [status |-> status, seen |-> seen, expires |-> expires]
Pending == Entry("EBUSY", NoRevisions, 0)
Expired(e, t) == t >= e.expires
IsPending(e) == e.status = "EBUSY"
prune_expired(m, t) == Removed(m, {k \in DOMAIN m.at : ~IsPending(m.at[k]) /\ Expired(m.at[k], t)})
Evictable(m) == {k \in DOMAIN m.at : ~IsPending(m.at[k])}
cache_evict(m) == Evicted(m, Evictable(m))
Full(m) == Size(m) >= CacheCapacity

(* auth_cache_store puts what a derivation found out in the place of the     *)
(* pending entry or, if that is gone, in a free or an evicted place.         *)
StoredResult(m, k, e) ==
    IF Has(m, k) \/ ~Full(m) THEN Stored(m, k, e)
    ELSE IF Evictable(m) = {} THEN m ELSE Stored(cache_evict(m), k, e)
Reserved(m, k) == Stored(IF Full(m) THEN cache_evict(m) ELSE m, k, Pending)
MayReserve(m) == ~Full(m) \/ Evictable(m) # {}

(* cmeta_cond_broadcast: a thread that waits for a derivation starts over,   *)
(* one that waits for room tries again with the clock it read.               *)
Broadcast(threads) ==
    [w \in Threads |->
       CASE threads[w].pc = "waitPending" -> [threads[w] EXCEPT !.pc = "reserve", !.t = now]
         [] threads[w].pc = "waitCapacity" -> [threads[w] EXCEPT !.pc = "capacity"]
         [] OTHER -> threads[w]]

-----------------------------------------------------------------------------
(* Steps of a thread.  Step(w, x) replaces what the thread is doing. *)

At(w, pc) == thread[w].pc = pc
Step(w, x) == thread' = [thread EXCEPT ![w] = x]
StepBroadcast(w, x) == thread' = Broadcast([thread EXCEPT ![w] = x])
Goto(w, pc) == [thread[w] EXCEPT !.pc = pc]
(* The clock is read before the lock of the next step is taken. *)
GotoTimed(w, pc) == [thread[w] EXCEPT !.pc = pc, !.t = now]
Mqtt(x) == x.req.kind = "mqtt"

During(x) == {hist[i] : i \in x.from..Len(hist)}
Correct(d, x) == credential_read(d, x.key, x.req.secret).rc = "OK"
Granted(x) ==
    /\ \E d \in During(x) :
          (external \/ Correct(d, x)) /\ x.principal = external_principal_snapshot(d, x.key)
    /\ Mqtt(x) => \E d \in During(x) : x.policy = policy_version(d, x.key[1])
Return(w, rc) == verdicts' = (verdicts /\ (rc = "OK" => Granted(thread[w])))

shared == <<hist, now, scene, callers, identities, cache, principals, begun>>
Ends(w, rc) == Return(w, rc) /\ Step(w, Idle)

Init ==
    /\ hist = <<Start>> /\ now = 1 /\ scene \in DOMAIN Scenarios
    /\ callers = NoEntries /\ identities = NoEntries /\ principals = NoEntries
    /\ \E order \in SUBSET (Scenario.cached \X Scenario.cached) :
          cache = [at |-> [k \in Scenario.cached |-> Entry("OK", credential_state(Start, k[1]), now + CacheTtl)],
                   older |-> order]
    /\ Ordered(cache)
    /\ thread = [w \in Threads |-> Idle] /\ begun = 0
    /\ verdicts = TRUE

Begin(w) ==
    /\ At(w, "idle") /\ begun < Scenario.begun
    /\ Cardinality({v \in Threads : ~At(v, "idle")}) < Scenario.parallel
    /\ \E r \in Scenario.requests : Step(w, [Idle EXCEPT !.pc = "acquire", !.req = r, !.key = r.key, !.t = now,
                                                !.from = Len(hist)])
    /\ begun' = begun + 1
    /\ UNCHANGED <<hist, now, scene, callers, identities, cache, principals, verdicts>>

Acquire(w) ==
    LET x == thread[w]
        a == limiter_acquire(x.req, x.t)
    IN  /\ At(w, "acquire")
        /\ callers' = a.callers /\ identities' = a.identities
        /\ IF a.rc # "OK" THEN Ends(w, a.rc)
           ELSE /\ Step(w, IF external THEN Goto(w, "provider")
                           ELSE IF Mqtt(x) THEN Goto(w, "resolve") ELSE GotoTimed(w, "reserve"))
                /\ UNCHANGED verdicts
        /\ UNCHANGED <<hist, now, scene, cache, principals, begun>>

(* Resolving the domain; an ambiguous or unknown principal costs a dummy     *)
(* derivation and is refused.                                                *)
Resolve(w) ==
    LET dom == credential_resolve(db, thread[w].req.key[2])
    IN  /\ At(w, "resolve")
        /\ IF dom = None THEN Ends(w, "EPERM")
           ELSE Step(w, [Goto(w, "verify") EXCEPT !.key = <<dom, thread[w].req.key[2]>>]) /\ UNCHANGED verdicts
        /\ UNCHANGED shared

(* credential_verify for a broker: read and derive, then read again. *)
Verify(w) ==
    LET x == thread[w]
        v == credential_read(db, x.key, x.req.secret)
    IN  /\ At(w, "verify")
        /\ IF v.rc = "OK" THEN Step(w, [Goto(w, "recheck") EXCEPT !.seen = v.seen]) /\ UNCHANGED verdicts
           ELSE Ends(w, v.rc)
        /\ UNCHANGED shared
Recheck(w) ==
    LET x == thread[w]
        rc == credential_recheck(db, x.key, x.seen)
    IN  /\ At(w, "recheck")
        /\ IF rc = "OK" THEN Step(w, Goto(w, "success")) /\ UNCHANGED verdicts ELSE Ends(w, rc)
        /\ UNCHANGED shared

(* record_success: only the bucket of the identity is given back. *)
RecordSuccess(w) ==
    LET x == thread[w]
    IN  /\ At(w, "success")
        /\ identities' = Removed(identities, {Identity(x.req)})
        /\ IF external THEN (IF Mqtt(x) THEN Ends(w, "OK") ELSE Step(w, Goto(w, "finish")) /\ UNCHANGED verdicts)
           ELSE Step(w, Goto(w, IF Mqtt(x) THEN "policy" ELSE "snapshot")) /\ UNCHANGED verdicts
        /\ UNCHANGED <<hist, now, scene, callers, cache, principals, begun>>

-----------------------------------------------------------------------------
(* auth_cache_verify, one action for each critical section and store read. *)

others == <<hist, now, scene, callers, identities, principals, begun>>
Reserve(w) ==
    LET x == thread[w]
        m == prune_expired(cache, x.t)
        k == Digest(x)
    IN  /\ At(w, "reserve")
        /\ \/ /\ Has(m, k) /\ IsPending(m.at[k])
              /\ cache' = m /\ Step(w, Goto(w, "waitPending"))
           \/ /\ Has(m, k) /\ ~IsPending(m.at[k])
              /\ cache' = m
              /\ Step(w, [Goto(w, IF m.at[k].status = "OK" THEN "state" ELSE "denied") EXCEPT !.seen = m.at[k].seen])
           \/ /\ ~Has(m, k) /\ MayReserve(m)
              /\ cache' = Reserved(m, k) /\ Step(w, Goto(w, "derive"))
           \/ /\ ~Has(m, k) /\ ~MayReserve(m)
              /\ cache' = m /\ Step(w, Goto(w, "waitCapacity"))
        /\ UNCHANGED <<others, verdicts>>
(* Woken while waiting for room.  What became of the digest meanwhile is not *)
(* looked at: the pending entry replaces it.                                 *)
Capacity(w) ==
    /\ At(w, "capacity")
    /\ \/ /\ MayReserve(cache)
          /\ cache' = Reserved(cache, Digest(thread[w])) /\ Step(w, Goto(w, "derive"))
       \/ /\ ~MayReserve(cache)
          /\ Step(w, Goto(w, "waitCapacity")) /\ UNCHANGED cache
    /\ UNCHANGED <<others, verdicts>>

TouchedIf(k, same(_)) == IF Has(cache, k) /\ same(cache.at[k]) THEN Touched(cache, k) ELSE cache
(* A cached refusal is returned without asking the store. *)
CachedDenial(w) ==
    LET x == thread[w]
    IN  /\ At(w, "denied")
        /\ cache' = TouchedIf(Digest(x), LAMBDA e : e.status = "EPERM" /\ ~Expired(e, x.t))
        /\ Ends(w, "EPERM") /\ UNCHANGED others
CheckState(w) ==
    LET current == credential_state(db, thread[w].key)
    IN  /\ At(w, "state")
        /\ Step(w, Goto(w, IF current = NoRevisions THEN "gone"
                           ELSE IF current = thread[w].seen THEN "hit" ELSE "stale"))
        /\ UNCHANGED <<others, cache, verdicts>>
CacheHit(w) ==
    LET x == thread[w]
    IN  /\ At(w, "hit")
        /\ cache' = TouchedIf(Digest(x), LAMBDA e : e.seen = x.seen /\ ~Expired(e, x.t))
        /\ Step(w, Goto(w, "success")) /\ UNCHANGED <<others, verdicts>>
(* The user or the credential is gone: the entry is removed, whatever it has *)
(* become meanwhile, and nobody is woken.                                    *)
CacheGone(w) ==
    /\ At(w, "gone")
    /\ cache' = Removed(cache, {Digest(thread[w])})
    /\ Ends(w, "EPERM") /\ UNCHANGED others
CacheStale(w) ==
    /\ At(w, "stale")
    /\ cache' = Removed(cache, {Digest(thread[w])})
    /\ StepBroadcast(w, [GotoTimed(w, "reserve") EXCEPT !.changed = TRUE])
    /\ UNCHANGED <<others, verdicts>>

Derive(w) ==
    LET x == thread[w]
        v == credential_read(db, x.key, x.req.secret)
    IN  /\ At(w, "derive")
        /\ Step(w, IF v.rc = "OK" THEN [Goto(w, "rederive") EXCEPT !.seen = v.seen]
                   ELSE [Goto(w, IF x.changed THEN "release" ELSE "store") EXCEPT !.rc = v.rc])
        /\ UNCHANGED <<others, cache, verdicts>>
Rederive(w) ==
    LET rc == credential_recheck(db, thread[w].key, thread[w].seen)
    IN  /\ At(w, "rederive")
        /\ Step(w, [Goto(w, IF rc = "OK" THEN "store" ELSE "release") EXCEPT !.rc = rc])
        /\ UNCHANGED <<others, cache, verdicts>>
(* The one case in which nobody is woken: the entry was removed and all the  *)
(* places are taken by other derivations.                                    *)
StoreResult(w) ==
    LET x == thread[w]
        k == Digest(x)
        seen == IF x.rc = "OK" THEN x.seen ELSE NoRevisions
        y == IF x.rc = "OK" THEN Goto(w, "success") ELSE Idle
    IN  /\ At(w, "store")
        /\ cache' = StoredResult(cache, k, Entry(x.rc, seen, x.t + CacheTtl))
        /\ IF Has(cache, k) \/ MayReserve(cache) THEN StepBroadcast(w, y) ELSE Step(w, y)
        /\ IF x.rc = "OK" THEN UNCHANGED verdicts ELSE Return(w, x.rc)
        /\ UNCHANGED others
Release_Silent(w) ==
    /\ At(w, "release")
    /\ cache' = Removed(cache, {Digest(thread[w])})
    /\ Ends(w, thread[w].rc) /\ UNCHANGED others
Release(w) ==
    /\ At(w, "release")
    /\ cache' = Removed(cache, {Digest(thread[w])})
    /\ Return(w, thread[w].rc) /\ StepBroadcast(w, Idle) /\ UNCHANGED others

-----------------------------------------------------------------------------
(* The rest of authenticate_root_impl.  A broker needs a published policy. *)

Policy(w) ==
    LET version == policy_version(db, thread[w].key[1])
    IN  /\ At(w, "policy")
        /\ IF version = 0 THEN Ends(w, "EPROTO")
           ELSE /\ Step(w, [Goto(w, IF external THEN "finish" ELSE "revision") EXCEPT !.policy = version])
                /\ UNCHANGED verdicts
        /\ UNCHANGED shared
CurrentRevision(w) ==
    /\ At(w, "revision")
    /\ Step(w, [GotoTimed(w, "get") EXCEPT !.at = db.revision])
    /\ UNCHANGED <<shared, verdicts>>

PrincipalFits(e, x) ==
    ~Expired(e, x.t) /\ e.seen = x.seen /\ e.at = x.at /\ e.policy = x.policy
PrincipalGet(w) ==
    LET x == thread[w]
    IN  /\ At(w, "get")
        /\ IF Has(principals, x.key) /\ PrincipalFits(principals.at[x.key], x)
           THEN /\ principals' = Touched(principals, x.key)
                /\ Step(w, [Goto(w, "finish") EXCEPT !.principal = principals.at[x.key].principal])
           ELSE /\ principals' = Removed(principals, {x.key})
                /\ Step(w, Goto(w, "snapshot"))
        /\ UNCHANGED <<hist, now, scene, callers, identities, cache, begun, verdicts>>
Snapshot(w) ==
    LET x == thread[w]
        p == principal_snapshot(db, x.key, x.seen)
    IN  /\ At(w, "snapshot")
        /\ IF p.rc # "OK" THEN Ends(w, p.rc)
           ELSE /\ Step(w, [GotoTimed(w, IF Mqtt(x) THEN "put" ELSE "finish") EXCEPT !.principal = p])
                /\ UNCHANGED verdicts
        /\ UNCHANGED shared
PrincipalPut(w) ==
    LET x == thread[w]
        full == ~Has(principals, x.key) /\ Size(principals) >= PrincipalCapacity
    IN  /\ At(w, "put")
        /\ principals' = Stored(IF full THEN Evicted(principals, DOMAIN principals.at) ELSE principals, x.key,
                                [principal |-> x.principal, seen |-> x.seen, at |-> x.at, policy |-> x.policy,
                                 expires |-> x.t + CacheTtl])
        /\ Step(w, Goto(w, "finish"))
        /\ UNCHANGED <<hist, now, scene, callers, identities, cache, begun, verdicts>>

(* The external provider and the identity mapper answer as they like; an     *)
(* assertion names its expiry.                                               *)
Provider(w) ==
    /\ At(w, "provider")
    /\ \/ \E rc \in {"EPERM", "EPROTO"} : Ends(w, rc)
       \/ \E expires \in now..now + 1 :
             IF expires <= now THEN Ends(w, "EPERM")
             ELSE Step(w, [Goto(w, "external") EXCEPT !.cap = expires]) /\ UNCHANGED verdicts
    /\ UNCHANGED shared
ExternalSnapshot(w) ==
    LET x == thread[w]
        p == external_principal_snapshot(db, x.key)
    IN  /\ At(w, "external")
        /\ IF now >= x.cap \/ p.rc # "OK" THEN Ends(w, "EPERM")
           ELSE /\ Step(w, [Goto(w, IF Mqtt(x) THEN "policy" ELSE "success") EXCEPT !.principal = p])
                /\ UNCHANGED verdicts
        /\ UNCHANGED shared
(* The principal is built; the bucket of a broker with an external provider  *)
(* is given back after this.                                                 *)
Finish(w) ==
    LET x == thread[w]
    IN  /\ At(w, "finish")
        /\ IF external /\ now >= x.cap THEN Ends(w, "EPERM")
           ELSE IF external /\ Mqtt(x) THEN Step(w, Goto(w, "success")) /\ UNCHANGED verdicts
           ELSE Ends(w, "OK")
        /\ UNCHANGED shared

-----------------------------------------------------------------------------
Change ==
    /\ Len(hist) <= Scenario.changes
    /\ \E c \in Scenario.commands : LET a == Execute(db, c)
                          IN a.rc = "OK" /\ ~a.replayed /\ hist' = Append(hist, a.db)
    /\ UNCHANGED <<now, scene, callers, identities, cache, principals, thread, begun, verdicts>>
Tick ==
    /\ now < Scenario.now /\ now' = now + 1
    /\ UNCHANGED <<hist, scene, callers, identities, cache, principals, thread, begun, verdicts>>

Run(w) ==
    \/ Acquire(w) \/ Resolve(w) \/ Verify(w) \/ Recheck(w) \/ RecordSuccess(w)
    \/ Reserve(w) \/ Capacity(w) \/ CachedDenial(w) \/ CheckState(w) \/ CacheHit(w) \/ CacheGone(w)
    \/ CacheStale(w) \/ Derive(w) \/ Rederive(w) \/ StoreResult(w) \/ Release(w)
    \/ Policy(w) \/ CurrentRevision(w) \/ PrincipalGet(w) \/ Snapshot(w) \/ PrincipalPut(w)
    \/ Provider(w) \/ ExternalSnapshot(w) \/ Finish(w)
Next == (\E w \in Threads : Begin(w) \/ Run(w)) \/ Change \/ Tick

Spec == Init /\ [][Next]_vars

-----------------------------------------------------------------------------
(* Both caches and both limiters stay within their capacities, and an entry  *)
(* has a place in the order of use exactly while it is stored.               *)
Bounded(m, capacity) ==
    /\ Size(m) <= capacity /\ Ordered(m)
TypeOK ==
    /\ now \in 1..Scenario.now /\ begun \in 0..Scenario.begun
    /\ Bounded(callers, CallerCapacity) /\ Bounded(identities, IdentityCapacity)
    /\ Bounded(cache, CacheCapacity) /\ Bounded(principals, PrincipalCapacity)
    /\ \A w \in Threads : thread[w].from \in 0..Len(hist) /\ thread[w].t \in 0..now

(* A principal is only granted if, at one instant between the arrival of the *)
(* request and its answer, the secret was that of an active credential and   *)
(* the groups and roles were exactly these; the policy version was current   *)
(* at some instant too.  Neither cache can make a revoked credential or a    *)
(* removed role outlive the request that was under way.                      *)
GrantsCurrent == verdicts

(* While a thread waits in the credential cache, for a derivation or for     *)
(* room, some thread is deriving, and its end will wake the waiting ones or  *)
(* leave another one deriving: a removal and a store that wake nobody        *)
(* (auth_cache_verify, auth_cache_store) strand no request.  Likewise a      *)
(* place is only reserved while a thread derives for it.                     *)
Deriving(w) == thread[w].pc \in {"derive", "rederive", "store", "release"}
NoRequestStranded ==
    /\ (\E w \in Threads : thread[w].pc \in {"waitPending", "waitCapacity"}) => \E w \in Threads : Deriving(w)
    /\ \A k \in DOMAIN cache.at : IsPending(cache.at[k]) =>
          \E w \in Threads : Deriving(w) /\ Digest(thread[w]) = k

(* A bucket lets through no more than its burst and what was refilled since  *)
(* it was made (auth_rate_refill), and neither buckets nor cached entries    *)
(* outgrow their capacity.                                                   *)
Paid(b, burst, rate) == b.admitted * TokenUnits + b.units <= burst * TokenUnits + (b.refill - b.made) * rate
AdmissionBounded ==
    /\ TypeOK
    /\ \A k \in DOMAIN callers.at : Paid(callers.at[k], CallerBurst, CallerRate)
    /\ \A k \in DOMAIN identities.at : Paid(identities.at[k], IdentityBurst, IdentityRate)
=============================================================================
