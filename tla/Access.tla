------------------------------- MODULE Access -------------------------------
(***************************************************************************)
(* What a signed-in actor may do: the role tables (internal/rbac/rbac.go), *)
(* the cache of resolved permissions in front of them (internal/rbac/      *)
(* cache.go over internal/cache/cache.go) and its invalidation through the *)
(* in-process event bus (internal/eventbus/eventbus.go).                   *)
(*                                                                         *)
(* Several server processes share the tables, each with its own cache and  *)
(* bus.  The PGBridge, which should carry events to the other processes,   *)
(* subscribes with the pattern "*", which match() accepts for no topic: no *)
(* event leaves its process (pgbridge.go:132, eventbus.go:253).            *)
(*                                                                         *)
(* A key of the cache is (collection, record, tenant); held[k] is the set  *)
(* of roles whose assignment rows the query for k selects.  One action     *)
(* stands for all: `granted' is the set of roles that carry it.            *)
(***************************************************************************)
EXTENDS Naturals, Sequences, SequencesExt, FiniteSets

CONSTANTS
    Proc,       \* server processes
    Key,        \* resolver keys
    Role,       \* roles
    SysAdmin,   \* the role system_admin
    Req,        \* requests handled at the same time
    NoReq,      \* no request
    TTL,        \* life of a cache entry, in ticks
    Instances   \* the bounds to explore

(* An instance says which processes and requests run, which keys they ask  *)
(* for and which operations change the tables, and bounds the changes, a   *)
(* subscriber's buffer and the failed statements.                          *)
Kind == {"grant", "revoke", "assign", "unassign", "delete", "put"}
Instance == [procs : SUBSET Proc, reqs : SUBSET Req, keys : SUBSET Key,
             kinds : SUBSET Kind, changes : Nat, buffer : Nat, mishaps : Nat]

ASSUME AccessAssumption ==
    /\ SysAdmin \in Role
    /\ NoReq \notin Req
    /\ TTL \in Nat
    /\ Instances \subseteq Instance

VARIABLES
    bound,      \* the instance being explored
    held,       \* _user_roles: held[k], the roles of key k
    granted,    \* _role_actions: the roles that carry the action
    roles,      \* _roles: the roles that exist
    changes,    \* number of changes committed to the three tables
    cache,      \* cache[p][k]: sh.entries
    inflight,   \* inflight[p][k]: the request that loads k, sh.inflight
    req,        \* req[c]: where request c is, and its local variables
    answer,     \* answer[c]: how fresh the last answer given to c was
    queue,      \* queue[p][t]: the changes queued for the subscriber of t
    returned,   \* returned[p]: changes whose call has returned in process p
    dropped,    \* dropped[p]: changes whose event met a full buffer
    mishaps,    \* failed statements and panics so far
    unguarded   \* a role change escaped the last-system_admin guard

tables == <<held, granted, roles, changes>>
bus == <<queue, returned, dropped>>
vars == <<bound, tables, cache, inflight, req, answer, bus, mishaps, unguarded>>

----------------------------------------------------------------------------
(* Resolve.                                                                *)

\* What Resolve returns: system_admin bypasses every check and its actions
\* are not loaded.
Resolved(hs, gs) == [bypass |-> SysAdmin \in hs,
                     can |-> SysAdmin \notin hs /\ hs \cap gs # {}]

\* What one query over both tables would return now.
Truth(k) == Resolved(held[k], granted)

\* `read' is the change count at the first query, `missed' the changes the
\* process purged its cache for while the load ran.
Load == [held |-> {}, val |-> Resolved({}, {}), read |-> 0, missed |-> {}]

NoEntry == [present |-> FALSE, age |-> 0, load |-> Load]
Idle == [st |-> "idle", p |-> NoReq, k |-> NoReq, on |-> NoReq,
         due |-> {}, load |-> Load, kind |-> "grant", n |-> 0, want |-> {}]

Queued(p) == UNION {Range(queue[p][t]) : t \in Kind}

\* The changes made through process p that its cache should know of.
Due(p) == returned[p] \ (Queued(p) \cup dropped[p])

\* What a request that asked with `due' lacks in the answer it gets.
Answer(due, load) == LET lost == {n \in due : n > load.read}
                     IN  [lost |-> lost, missed |-> lost \cap load.missed]

----------------------------------------------------------------------------
(* The cache.                                                              *)

Expired(entry) == entry.age > TTL
Fresh(entry) == entry.present /\ ~Expired(entry)

\* setLocked: an existing entry is overwritten, its life starts again.
SetLocked(p, k, load) ==
    cache' = [cache EXCEPT ![p][k] = [present |-> TRUE, age |-> 0, load |-> load]]

\* Mutant: a hit prolongs the entry's life.
GetSliding(c, p, k) ==
    /\ req[c].st = "idle"
    /\ IF Fresh(cache[p][k])
       THEN /\ answer' = [answer EXCEPT ![c] = Answer(Due(p), cache[p][k].load)]
            /\ cache' = [cache EXCEPT ![p][k].age = 0]
            /\ UNCHANGED req
       ELSE /\ req' = [req EXCEPT ![c] = [Idle EXCEPT !.st = "lock", !.p = p, !.k = k,
                                                      !.due = Due(p)]]
            /\ cache' = [cache EXCEPT ![p][k] = NoEntry]
            /\ UNCHANGED answer
    /\ UNCHANGED <<tables, inflight, bus, mishaps, unguarded>>

\* cachedResolve, GetOrLoad: the first Get.  An expired entry is evicted.
Get(c, p, k) ==
    /\ req[c].st = "idle"
    /\ IF Fresh(cache[p][k])
       THEN /\ answer' = [answer EXCEPT ![c] = Answer(Due(p), cache[p][k].load)]
            /\ UNCHANGED <<cache, req>>
       ELSE /\ req' = [req EXCEPT ![c] = [Idle EXCEPT !.st = "lock", !.p = p, !.k = k,
                                                      !.due = Due(p)]]
            /\ cache' = [cache EXCEPT ![p][k] = NoEntry]
            /\ UNCHANGED answer
    /\ UNCHANGED <<tables, inflight, bus, mishaps, unguarded>>

\* GetOrLoad under the shard's lock: the entry is there by now, or a load is
\* in flight and the request parks on it, or the request becomes the loader.
GetOrLoad(c) ==
    LET p == req[c].p
        k == req[c].k
    IN  /\ req[c].st = "lock"
        /\ \/ /\ Fresh(cache[p][k])
              /\ answer' = [answer EXCEPT ![c] = Answer(req[c].due, cache[p][k].load)]
              /\ req' = [req EXCEPT ![c] = Idle]
              /\ UNCHANGED inflight
           \/ /\ ~Fresh(cache[p][k])
              /\ inflight[p][k] # NoReq
              /\ req' = [req EXCEPT ![c].st = "park", ![c].on = inflight[p][k]]
              /\ UNCHANGED <<answer, inflight>>
           \/ /\ ~Fresh(cache[p][k])
              /\ inflight[p][k] = NoReq
              /\ inflight' = [inflight EXCEPT ![p][k] = c]
              /\ req' = [req EXCEPT ![c].st = "roles"]
              /\ UNCHANGED answer
        /\ UNCHANGED <<tables, cache, bus, mishaps, unguarded>>

\* Resolve, first query.  A system_admin and an actor without roles need no
\* second one.
QueryRoles(c) ==
    LET hs == held[req[c].k]
    IN  /\ req[c].st = "roles"
        /\ req' = [req EXCEPT
                    ![c].st = IF hs = {} \/ SysAdmin \in hs THEN "store" ELSE "actions",
                    ![c].load = [held |-> hs, val |-> Resolved(hs, {}), read |-> changes,
                                 missed |-> {}]]
        /\ UNCHANGED <<tables, cache, inflight, answer, bus, mishaps, unguarded>>

\* Resolve, second query: the actions those roles carry by now.
QueryActions(c) ==
    /\ req[c].st = "actions"
    /\ req' = [req EXCEPT ![c].st = "store",
                          ![c].load.val = Resolved(req[c].load.held, granted)]
    /\ UNCHANGED <<tables, cache, inflight, answer, bus, mishaps, unguarded>>

\* The requests a finished flight releases, the loader among them.
Released(c) == {c} \cup {d \in Req : req[d].st = "park" /\ req[d].on = c}

\* GetOrLoad after a load that succeeded: the value is stored and handed to
\* everyone who waited for it.
Store(c) ==
    LET p == req[c].p
        k == req[c].k
        load == [req[c].load EXCEPT !.held = {}]
    IN  /\ req[c].st = "store"
        /\ inflight' = [inflight EXCEPT ![p][k] = NoReq]
        /\ SetLocked(p, k, load)
        /\ answer' = [d \in Req |-> IF d \in Released(c) THEN Answer(req[d].due, load)
                                    ELSE answer[d]]
        /\ req' = [d \in Req |-> IF d \in Released(c) THEN Idle ELSE req[d]]
        /\ UNCHANGED <<tables, bus, mishaps, unguarded>>

\* Mutant: the error path returns without ending the flight.
LoadFailsUnreleased(c) ==
    /\ req[c].st \in {"roles", "actions"}
    /\ mishaps < bound.mishaps
    /\ mishaps' = mishaps + 1
    /\ req' = [req EXCEPT ![c] = Idle]
    /\ UNCHANGED <<tables, cache, inflight, answer, bus, unguarded>>

\* GetOrLoad after a query failed, or the loader's own request was cancelled:
\* nothing is stored, everyone who waited gets the error.
LoadFails(c) ==
    /\ req[c].st \in {"roles", "actions"}
    /\ mishaps < bound.mishaps
    /\ mishaps' = mishaps + 1
    /\ inflight' = [inflight EXCEPT ![req[c].p][req[c].k] = NoReq]
    /\ req' = [d \in Req |-> IF d \in Released(c) THEN Idle ELSE req[d]]
    /\ UNCHANGED <<tables, cache, answer, bus, unguarded>>

\* The loader panics: the server recovers the request, the flight stays
\* registered.
LoaderPanics(c) ==
    /\ req[c].st \in {"roles", "actions"}
    /\ mishaps < bound.mishaps
    /\ mishaps' = mishaps + 1
    /\ req' = [req EXCEPT ![c].st = "dead"]
    /\ UNCHANGED <<tables, cache, inflight, answer, bus, unguarded>>

\* setLocked for another key of a full shard evicts the least recently used
\* entry; the cache inspector's Clear drops entries as well.
Evict(p, k) ==
    /\ cache[p][k].present
    /\ cache' = [cache EXCEPT ![p][k] = NoEntry]
    /\ UNCHANGED <<tables, inflight, req, answer, bus, mishaps, unguarded>>

\* Time passes.  Ages beyond the life of an entry are all alike.
Tick ==
    /\ \E p \in Proc, k \in Key : cache[p][k].present /\ cache[p][k].age <= TTL
    /\ cache' = [p \in Proc |-> [k \in Key |->
            IF Fresh(cache[p][k])
            THEN [cache[p][k] EXCEPT !.age = @ + 1]
            ELSE cache[p][k]]]
    /\ UNCHANGED <<tables, inflight, req, answer, bus, mishaps, unguarded>>

----------------------------------------------------------------------------
(* Changes to the tables.  A call runs its statement, then publishes.  The *)
(* CLI runs the same calls in a process of its own, without a bus.         *)

Locked(ks) == \E c \in Req : req[c].st = "put" /\ req[c].k \in ks

\* The tables after one statement of a Store method.
Statement(kind, ks, r) ==
    /\ r \in roles
    /\ ~Locked(ks)
    /\ CASE kind = "grant"    -> granted' = granted \cup {r} /\ UNCHANGED <<held, roles>>
         [] kind = "revoke"   -> granted' = granted \ {r} /\ UNCHANGED <<held, roles>>
         [] kind = "assign"   -> /\ \E k \in ks : r \notin held[k]
                                 /\ held' = [k \in Key |-> IF k \in ks THEN held[k] \cup {r}
                                                           ELSE held[k]]
                                 /\ UNCHANGED <<granted, roles>>
         [] kind = "unassign" -> /\ held' = [k \in Key |-> IF k \in ks THEN held[k] \ {r}
                                                           ELSE held[k]]
                                 /\ UNCHANGED <<granted, roles>>
         [] kind = "delete"   -> /\ r # SysAdmin
                                 /\ roles' = roles \ {r}
                                 /\ granted' = granted \ {r}
                                 /\ held' = [k \in Key |-> held[k] \ {r}]
    /\ changes < bound.changes
    /\ changes' = changes + 1
    /\ unguarded' = (unguarded \/ (kind = "unassign" /\ r = SysAdmin))

\* Grant, Revoke, Assign, Unassign and DeleteRole up to the publish.  The
\* no-op Assign of a role already held publishes nothing and is left out.
Change(c, p, kind, ks, r) ==
    /\ req[c].st = "idle"
    /\ Statement(kind, ks, r)
    /\ req' = [req EXCEPT ![c] = [Idle EXCEPT !.st = "publish", !.p = p, !.kind = kind,
                                              !.n = changes']]
    /\ UNCHANGED <<cache, inflight, answer, bus, mishaps>>

\* The same through the CLI: no bus, nobody is told.
ChangeByCli(kind, ks, r) ==
    /\ Statement(kind, ks, r)
    /\ UNCHANGED <<cache, inflight, req, answer, bus, mishaps>>

\* Mutant: Publish gives up as soon as the buffer holds an event.
PublishGivesUp(c) ==
    LET p == req[c].p
        t == req[c].kind
    IN  /\ req[c].st = "publish"
        /\ \/ /\ Queued(p) = {}
              /\ queue' = [queue EXCEPT ![p][t] = Append(@, req[c].n)]
              /\ UNCHANGED dropped
           \/ /\ Queued(p) # {}
              /\ UNCHANGED <<queue, dropped>>
        /\ returned' = [returned EXCEPT ![p] = @ \cup {req[c].n}]
        /\ req' = [req EXCEPT ![c] = Idle]
        /\ UNCHANGED <<tables, cache, inflight, answer, mishaps, unguarded>>

\* Publish to the one subscriber of the topic: queued, or dropped when its
\* buffer is full.  The call then returns.
Publish(c) ==
    LET p == req[c].p
        t == req[c].kind
    IN  /\ req[c].st = "publish"
        /\ \/ /\ Len(queue[p][t]) < bound.buffer
              /\ queue' = [queue EXCEPT ![p][t] = Append(@, req[c].n)]
              /\ UNCHANGED dropped
           \/ /\ Len(queue[p][t]) >= bound.buffer
              /\ dropped' = [dropped EXCEPT ![p] = @ \cup {req[c].n}]
              /\ UNCHANGED queue
        /\ returned' = [returned EXCEPT ![p] = @ \cup {req[c].n}]
        /\ req' = [req EXCEPT ![c] = Idle]
        /\ UNCHANGED <<tables, cache, inflight, answer, mishaps, unguarded>>

\* Assign reads the role back before it publishes: when that fails the call
\* returns an error, the row stays and nobody is told.
AssignReadBackFails(c) ==
    /\ req[c].st = "publish"
    /\ req[c].kind = "assign"
    /\ mishaps < bound.mishaps
    /\ mishaps' = mishaps + 1
    /\ req' = [req EXCEPT ![c] = Idle]
    /\ UNCHANGED <<tables, cache, inflight, answer, bus, unguarded>>

\* The subscriber's goroutine takes an event and purges the cache.  Loads in
\* flight go on.
Purge(p, t) ==
    /\ queue[p][t] # << >>
    /\ queue' = [queue EXCEPT ![p][t] = Tail(@)]
    /\ cache' = [cache EXCEPT ![p] = [k \in Key |-> NoEntry]]
    /\ req' = [c \in Req |->
            IF req[c].p = p /\ req[c].st \in {"actions", "store"}
            THEN [req[c] EXCEPT !.load.missed = @ \cup {Head(queue[p][t])}]
            ELSE req[c]]
    /\ UNCHANGED <<tables, inflight, answer, returned, dropped, mishaps, unguarded>>

----------------------------------------------------------------------------
(* PUT /admins/{id}/roles replaces an admin's roles in one READ COMMITTED  *)
(* transaction and refuses to leave no system_admin.                       *)

\* Mutant: the count is taken before the wipe.
SystemAdminsBefore(k, want) == {a \in Key : SysAdmin \in held[a]}

\* SELECT COUNT(DISTINCT record_id): committed rows of the other admins, the
\* transaction's own rows for k.
SystemAdmins(k, want) ==
    {a \in Key \ {k} : SysAdmin \in held[a]} \cup {a \in {k} : SysAdmin \in want}

\* putAdminRolesHandler up to the count.  A refusal rolls back.
PutAdminRoles(c, k, want) ==
    /\ req[c].st = "idle"
    /\ want \subseteq roles
    /\ ~Locked({k})
    /\ changes < bound.changes
    /\ SystemAdmins(k, want) # {}
    /\ req' = [req EXCEPT ![c] = [Idle EXCEPT !.st = "put", !.k = k, !.want = want]]
    /\ unguarded' = (unguarded \/ \E d \in Req : req[d].st = "put")
    /\ UNCHANGED <<tables, cache, inflight, answer, bus, mishaps>>

\* Its commit.  publishAdminRoleChange has an empty body: the cache is not
\* told.  A role deleted meanwhile fails the foreign key: rollback.
PutCommit(c) ==
    /\ req[c].st = "put"
    /\ \/ /\ req[c].want \subseteq roles
          /\ changes < bound.changes
          /\ held' = [held EXCEPT ![req[c].k] = req[c].want]
          /\ changes' = changes + 1
          /\ UNCHANGED mishaps
       \/ /\ mishaps < bound.mishaps
          /\ mishaps' = mishaps + 1
          /\ UNCHANGED <<held, changes>>
    /\ req' = [req EXCEPT ![c] = Idle]
    /\ UNCHANGED <<granted, roles, cache, inflight, answer, bus, unguarded>>

----------------------------------------------------------------------------

Init ==
    /\ bound \in Instances
    /\ \E a \in Key, r \in Role \ {SysAdmin} :
            held = [k \in Key |-> IF k = a THEN {SysAdmin} ELSE {r}]
    /\ granted = Role \ {SysAdmin}
    /\ roles = Role
    /\ changes = 0
    /\ cache = [p \in Proc |-> [k \in Key |-> NoEntry]]
    /\ inflight = [p \in Proc |-> [k \in Key |-> NoReq]]
    /\ req = [c \in Req |-> Idle]
    /\ answer = [c \in Req |-> Answer({}, Load)]
    /\ queue = [p \in Proc |-> [t \in Kind |-> << >>]]
    /\ returned = [p \in Proc |-> {}]
    /\ dropped = [p \in Proc |-> {}]
    /\ mishaps = 0
    /\ unguarded = FALSE

Loader(c) ==
    \/ GetOrLoad(c)
    \/ QueryRoles(c)
    \/ QueryActions(c)
    \/ Store(c)

Request(c) ==
    \/ \E p \in bound.procs, k \in bound.keys : Get(c, p, k)
    \/ Loader(c)
    \/ LoadFails(c)
    \/ LoaderPanics(c)

Admin(c) ==
    \/ \E p \in bound.procs, kind \in bound.kinds \ {"put"}, ks \in {{k} : k \in Key} \cup {Key}, r \in Role :
            Change(c, p, kind, ks, r)
    \/ Publish(c)
    \/ AssignReadBackFails(c)
    \/ "put" \in bound.kinds /\ \E k \in Key, want \in SUBSET Role : PutAdminRoles(c, k, want)
    \/ PutCommit(c)

Next ==
    /\ UNCHANGED bound
    /\ \/ \E c \in bound.reqs : Request(c) \/ Admin(c)
       \/ \E kind \in bound.kinds \ {"put"}, ks \in {{k} : k \in Key} \cup {Key}, r \in Role :
                ChangeByCli(kind, ks, r)
       \/ \E p \in bound.procs, t \in Kind : Purge(p, t)
       \/ \E p \in bound.procs, k \in bound.keys : Evict(p, k)
       \/ Tick

(* A request that runs goes on running, and time passes.  Nobody has to    *)
(* ask or to change anything, and no purge is needed.                      *)
Fairness ==
    /\ \A c \in Req : WF_vars(UNCHANGED bound /\ Loader(c))
    /\ \A c \in Req : WF_vars(UNCHANGED bound /\ Publish(c))
    /\ \A c \in Req : WF_vars(UNCHANGED bound /\ PutCommit(c))
    /\ WF_vars(UNCHANGED bound /\ Tick)

Spec == Init /\ [][Next]_vars /\ Fairness

----------------------------------------------------------------------------
(* Properties.                                                             *)

\* A change made through a process is in every answer to a request that asks
\* that process after the call has returned, once its event has been handled:
\* unless the event met a full buffer, or the answer comes from a load that
\* was already running when the cache was purged.
StaleOnlyIfExcused == \A c \in Req : answer[c].lost \subseteq answer[c].missed

\* When the tables no longer change, every process soon serves what they say:
\* the life of an entry makes up for events that were dropped, never sent or
\* overtaken by a load, and for a Resolve that read half of a change.
CacheConverges == <>[](\A p \in Proc, k \in Key :
    Fresh(cache[p][k]) => cache[p][k].load.val = Truth(k))

\* A request parked on another's load gets its value or its error, unless the
\* loader panicked: no other path leaves a flight registered.
WaitersReleased == \A c \in Req :
    (req[c].st = "park") ~> (req[c].st # "park" \/ req[req[c].on].st = "dead")

\* The guard keeps a system_admin as long as the transactions it guards do not
\* overlap and nobody takes the role away by another way.
SystemAdminRemains == unguarded \/ \E k \in Key : SysAdmin \in held[k]

============================================================================
