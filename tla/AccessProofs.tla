---------------------------- MODULE AccessProofs ----------------------------
(***************************************************************************)
(* Proofs about Access, for any processes, keys, roles, requests, changes, *)
(* failures, sizes of the subscribers' buffers and life of an entry.       *)
(*                                                                         *)
(* The argument has two halves.  A request that edits an admin's roles     *)
(* counted the others, and nobody moves them while it is at work, unless   *)
(* the guard is recorded as passed by (Guarded).  What a process is due to *)
(* know only grows, and all of it is in an entry or in a load under way,   *)
(* by what was read or by the purges it missed (Served); a request waits   *)
(* for the load of its own process and key (Flights).                      *)
(***************************************************************************)
EXTENDS Access, SequenceTheorems, TLAPS

Asking == {"lock", "park", "roles", "actions", "store", "dead"}
Flying == {"roles", "actions", "store", "dead"}

Value == [bypass : BOOLEAN, can : BOOLEAN]
Loaded == [held : SUBSET Role, val : Value, read : Nat, missed : SUBSET Nat]
Entry == [present : BOOLEAN, age : Nat, load : Loaded]
Local == [st : Asking \cup {"idle", "publish", "put"}, p : Proc \cup {NoReq}, k : Key \cup {NoReq},
          on : Req \cup {NoReq}, due : SUBSET Nat, load : Loaded, kind : Kind, n : Nat,
          want : SUBSET Role]

\* A request that asks or publishes does so in a process, and for a key.
Requests ==
    /\ bound \in Instance
    /\ req \in [Req -> Local]
    /\ \A c \in Req : req[c].st \in Asking => req[c].p \in Proc /\ req[c].k \in Key
    /\ \A c \in Req : req[c].st = "publish" => req[c].p \in Proc
    /\ \A c \in Req : req[c].st = "put" => req[c].k \in Key

\* While nothing got past the guard there is a system_admin, one editor at most,
\* and one more admin than those it is about to demote.
Guarded ==
    /\ held \in [Key -> SUBSET Role] /\ roles \subseteq Role
    /\ \/ unguarded
       \/ /\ \E k \in Key : SysAdmin \in held[k]
          /\ \A c, d \in Req : req[c].st = "put" /\ req[d].st = "put" => d = c
          /\ \A c \in Req : req[c].st = "put" => SystemAdmins(req[c].k, req[c].want) # {}

\* A flight is registered while its loader is at it, or has panicked, and those
\* who wait for it have asked for the same.
Flights ==
    /\ inflight \in [Proc -> [Key -> Req \cup {NoReq}]]
    /\ \A c \in Req : req[c].st \in Flying => inflight[req[c].p][req[c].k] = c
    /\ \A p \in Proc, k \in Key : inflight[p][k] # NoReq =>
         LET c == inflight[p][k] IN req[c].st \in Flying /\ req[c].p = p /\ req[c].k = k
    /\ \A c \in Req : req[c].st = "park" =>
         inflight[req[c].p][req[c].k] = req[c].on /\ req[c].on \in Req

\* A change is published once.
Numbers ==
    /\ changes \in Nat
    /\ queue \in [Proc -> [Kind -> Seq(Nat)]]
    /\ returned \in [Proc -> SUBSET (1 .. changes)] /\ dropped \in [Proc -> SUBSET Nat]
    /\ \A c \in Req : req[c].st = "publish" => req[c].n \in 1 .. changes
    /\ \A c, d \in Req : req[c].st = "publish" /\ req[d].st = "publish" /\ req[c].n = req[d].n => d = c
    /\ \A c \in Req, p \in Proc : req[c].st = "publish" => req[c].n \notin returned[p]

\* All that process p is due to know is in the load.
Covers(p, load) == \A n \in Due(p) : n <= load.read \/ n \in load.missed

Served ==
    /\ cache \in [Proc -> [Key -> Entry]]
    /\ answer \in [Req -> [lost : SUBSET Nat, missed : SUBSET Nat]]
    /\ \A c \in Req : req[c].st \in Asking => req[c].due \subseteq Due(req[c].p)
    /\ \A p \in Proc, k \in Key : cache[p][k].present => Covers(p, cache[p][k].load)
    /\ \A c \in Req : req[c].st \in {"actions", "store"} => Covers(req[c].p, req[c].load)
    /\ StaleOnlyIfExcused

IInv == Requests /\ Guarded /\ Flights /\ Numbers /\ Served

USE AccessAssumption

-----------------------------------------------------------------------------
(* Records *)

\* What Resolve returns is a pair of truth values.
LEMMA ResolvedType == ASSUME NEW hs, NEW gs PROVE Resolved(hs, gs) \in Value
<1>1. (SysAdmin \in hs) \in BOOLEAN /\ (SysAdmin \notin hs /\ hs \cap gs # {}) \in BOOLEAN
    OBVIOUS
<1> QED
    BY <1>1 DEF Resolved, Value

\* So a load and an entry are records, and there is no entry at first.
LEMMA LoadType == Load \in Loaded /\ NoEntry \in Entry /\ ~NoEntry.present
<1>1. Load \in Loaded
    BY ResolvedType DEF Load, Loaded
<1> QED
    BY <1>1 DEF NoEntry, Entry

\* A request that does nothing.
LEMMA IdleType == Idle \in Local /\ Idle.st = "idle"
BY LoadType DEF Idle, Local, Asking, Kind

\* One request moves.
LEMMA ReqSet ==
    ASSUME req \in [Req -> Local], NEW c \in Req, NEW y \in Local, req' = [req EXCEPT ![c] = y]
    PROVE  /\ req' \in [Req -> Local]
           /\ req'[c] = y
           /\ \A d \in Req : d # c => req'[d] = req[d]
OBVIOUS

\* Who is let into an instance is a request, a process or a key.
LEMMA BoundSets ==
    ASSUME Requests
    PROVE  bound.reqs \subseteq Req /\ bound.procs \subseteq Proc /\ bound.keys \subseteq Key
           /\ bound.kinds \subseteq Kind
BY DEF Requests, Instance

-----------------------------------------------------------------------------
(* What a step that leaves a part alone preserves *)

\* No roles change hands, and no editor begins.
LEMMA GuardedStays ==
    ASSUME Guarded, UNCHANGED <<held, roles, unguarded>>,
           \A d \in Req : req'[d].st = "put" => req'[d] = req[d]
    PROVE  Guarded'
<1>1. held' \in [Key -> SUBSET Role] /\ roles' \subseteq Role
    BY DEF Guarded
<1>2. CASE unguarded
    BY <1>1, <1>2 DEF Guarded
<1>3. CASE ~unguarded
    <2>1. \A k, want : SystemAdmins(k, want)' = SystemAdmins(k, want)
        BY DEF SystemAdmins
    <2>2. \A d \in Req : req'[d].st = "put" => SystemAdmins(req[d].k, req[d].want)' # {}
        BY <1>3, <2>1 DEF Guarded
    <2>3. \A c, d \in Req : req'[c].st = "put" /\ req'[d].st = "put" => d = c
        BY <1>3 DEF Guarded
    <2> QED
        BY <1>1, <1>3, <2>2, <2>3 DEF Guarded
<1> QED
    BY <1>2, <1>3

\* Request d goes on with its flight, or has none before and after.
Aloft(d) ==
    \/ req[d].st \notin Flying \cup {"park"} /\ req'[d].st \notin Flying \cup {"park"}
    \/ /\ req'[d].p = req[d].p /\ req'[d].k = req[d].k /\ req'[d].on = req[d].on
       /\ \/ req'[d].st = req[d].st
          \/ req'[d].st \in Flying /\ req[d].st \in Flying

\* No flight begins or ends.
LEMMA FlightsStay ==
    ASSUME Flights, UNCHANGED inflight, \A d \in Req : Aloft(d)
    PROVE  Flights'
<1>0. "park" \notin Flying
    BY DEF Flying
<1>1. \A d \in Req : req'[d].st \in Flying => inflight'[req'[d].p][req'[d].k] = d
    BY <1>0 DEF Flights, Aloft
<1>2. ASSUME NEW p \in Proc, NEW k \in Key, inflight'[p][k] # NoReq
      PROVE  LET c == inflight'[p][k] IN req'[c].st \in Flying /\ req'[c].p = p /\ req'[c].k = k
    <2>1. PICK c : c = inflight[p][k]
        OBVIOUS
    <2>2. c \in Req /\ req[c].st \in Flying /\ req[c].p = p /\ req[c].k = k
        BY <1>2, <2>1 DEF Flights
    <2> QED
        BY <1>0, <2>1, <2>2 DEF Aloft
<1>3. \A d \in Req : req'[d].st = "park" =>
         inflight'[req'[d].p][req'[d].k] = req'[d].on /\ req'[d].on \in Req
    BY <1>0 DEF Flights, Aloft
<1> QED
    BY <1>1, <1>2, <1>3 DEF Flights

\* Nothing is counted, queued or returned.
LEMMA NumbersStay ==
    ASSUME Numbers, UNCHANGED <<changes, queue, returned, dropped>>,
           \A d \in Req : req'[d].st = "publish" => req'[d] = req[d]
    PROVE  Numbers'
<1>1. \A c \in Req : req'[c].st = "publish" => req'[c].n \in 1 .. changes
    BY DEF Numbers
<1>2. \A c, d \in Req : req'[c].st = "publish" /\ req'[d].st = "publish" /\ req'[c].n = req'[d].n => d = c
    BY DEF Numbers
<1>3. \A c \in Req, p \in Proc : req'[c].st = "publish" => req'[c].n \notin returned[p]
    BY DEF Numbers
<1> QED
    BY <1>1, <1>2, <1>3 DEF Numbers

\* Request d does not begin to ask, and goes on with what it has loaded.
Patient(d) ==
    /\ req'[d].st \in Asking => req[d].st \in Asking /\ req'[d].p = req[d].p /\ req'[d].due = req[d].due
    /\ req'[d].st \in {"actions", "store"} =>
         /\ req[d].st \in {"actions", "store"}
         /\ req'[d].load.read = req[d].load.read /\ req'[d].load.missed = req[d].load.missed

\* What is due to be known depends on the bus alone.
LEMMA DueStays ==
    ASSUME UNCHANGED bus
    PROVE  \A p : Due(p)' = Due(p)
BY DEF bus, Due, Queued

\* A part of it is known as long as nothing becomes due.
LEMMA CoversStays ==
    ASSUME UNCHANGED bus
    PROVE  \A p, load : Covers(p, load)' <=> Covers(p, load)
BY DueStays DEF Covers

\* Nothing is stored, answered or due.
LEMMA ServedStays ==
    ASSUME Served, UNCHANGED <<cache, answer>>, UNCHANGED bus, \A d \in Req : Patient(d)
    PROVE  Served'
<1>1. \A p : Due(p)' = Due(p)
    BY DueStays
<1>2. \A d \in Req : req'[d].st \in Asking => req'[d].due \subseteq Due(req[d].p)'
    BY <1>1 DEF Served, Patient
<1>3. \A p \in Proc, k \in Key : cache'[p][k].present => Covers(p, cache[p][k].load)'
    BY <1>1 DEF Served, Covers
<1>4. \A d \in Req : req'[d].st \in {"actions", "store"} => Covers(req[d].p, req[d].load)'
    BY <1>1 DEF Served, Patient, Covers, Asking
<1>5. StaleOnlyIfExcused'
    BY DEF Served, StaleOnlyIfExcused
<1> QED
    BY <1>2, <1>3, <1>4, <1>5 DEF Served

-----------------------------------------------------------------------------
(* The cache *)

\* Request c goes on as y, in the same place.
LEMMA Goes ==
    ASSUME Requests, NEW c \in Req, NEW y \in Local, req' = [req EXCEPT ![c] = y], UNCHANGED bound,
           y.st \in Asking => y.p \in Proc /\ y.k \in Key,
           y.st = "publish" => y.p \in Proc,
           y.st = "put" => y.k \in Key
    PROVE  Requests' /\ req'[c] = y /\ \A d \in Req : d # c => req'[d] = req[d]
<1>1. req' \in [Req -> Local] /\ req'[c] = y /\ \A d \in Req : d # c => req'[d] = req[d]
    BY ReqSet DEF Requests
<1> QED
    BY <1>1 DEF Requests

\* The record of a request that ends.
LEMMA EndsAs ==
    ASSUME Requests, NEW c \in Req, req' = [req EXCEPT ![c] = Idle], UNCHANGED bound
    PROVE  Requests' /\ req'[c].st = "idle" /\ \A d \in Req : d # c => req'[d] = req[d]
BY Goes, IdleType DEF Asking

\* Resolve's second query.
LEMMA QueryActionsStep ==
    ASSUME IInv, NEW c \in Req, QueryActions(c), UNCHANGED bound
    PROVE  IInv'
<1>1. PICK y : y = [req[c] EXCEPT !.st = "store", !.load.val = Resolved(req[c].load.held, granted)]
    OBVIOUS
<1>2. PICK v : v = Resolved(req[c].load.held, granted)
    OBVIOUS
<1>3. /\ y \in Local /\ y.st = "store" /\ y.p = req[c].p /\ y.k = req[c].k /\ y.on = req[c].on
      /\ y.due = req[c].due /\ y.load.read = req[c].load.read /\ y.load.missed = req[c].load.missed
    <2>1. v \in Value
        BY <1>2, ResolvedType
    <2>2. req[c] \in Local
        BY DEF IInv, Requests
    <2>3. y = [req[c] EXCEPT !.st = "store", !.load.val = v]
        BY <1>1, <1>2
    <2> HIDE <1>1, <1>2
    <2> QED
        BY <2>1, <2>2, <2>3 DEF Local, Loaded, Asking
<1>4. req' = [req EXCEPT ![c] = y] /\ req[c].st = "actions" /\ UNCHANGED <<tables, cache, inflight, answer, bus, unguarded>>
    BY <1>1 DEF QueryActions, IInv, Requests
<1>5. Requests' /\ req'[c] = y /\ \A d \in Req : d # c => req'[d] = req[d]
    BY <1>3, <1>4, Goes DEF IInv, Requests, Asking
<1>6. Guarded'
    BY <1>3, <1>4, <1>5, GuardedStays DEF IInv, tables
<1>7. Flights'
    BY <1>3, <1>4, <1>5, FlightsStay DEF IInv, Aloft, Flying
<1>8. Numbers'
    BY <1>3, <1>4, <1>5, NumbersStay DEF IInv, tables, bus
<1>9. Served'
    BY <1>3, <1>4, <1>5, ServedStays DEF IInv, Patient, Asking
<1> QED
    BY <1>5, <1>6, <1>7, <1>8, <1>9 DEF IInv

\* The loader panics.
LEMMA LoaderPanicsStep ==
    ASSUME IInv, NEW c \in Req, LoaderPanics(c), UNCHANGED bound
    PROVE  IInv'
<1>1. PICK y : y = [req[c] EXCEPT !.st = "dead"]
    OBVIOUS
<1>3. /\ y \in Local /\ y.st = "dead" /\ y.p = req[c].p /\ y.k = req[c].k /\ y.on = req[c].on
      /\ y.due = req[c].due
    BY <1>1 DEF IInv, Requests, Local, Asking
<1>4. /\ req' = [req EXCEPT ![c] = y] /\ req[c].st \in {"roles", "actions"}
      /\ UNCHANGED <<tables, cache, inflight, answer, bus, unguarded>>
    BY <1>1 DEF LoaderPanics, IInv, Requests
<1>5. Requests' /\ req'[c] = y /\ \A d \in Req : d # c => req'[d] = req[d]
    BY <1>3, <1>4, Goes DEF IInv, Requests, Asking
<1>6. Guarded'
    BY <1>3, <1>4, <1>5, GuardedStays DEF IInv, tables
<1>7. Flights'
    BY <1>3, <1>4, <1>5, FlightsStay DEF IInv, Aloft, Flying
<1>8. Numbers'
    BY <1>3, <1>4, <1>5, NumbersStay DEF IInv, tables, bus
<1>9. Served'
    BY <1>3, <1>4, <1>5, ServedStays DEF IInv, Patient, Asking
<1> QED
    BY <1>5, <1>6, <1>7, <1>8, <1>9 DEF IInv

\* Resolve's first query: the load has seen every change there is.
LEMMA QueryRolesStep ==
    ASSUME IInv, NEW c \in Req, QueryRoles(c), UNCHANGED bound
    PROVE  IInv'
<1>1. PICK l : l = [held |-> held[req[c].k], val |-> Resolved(held[req[c].k], {}), read |-> changes,
                    missed |-> {}]
    OBVIOUS
<1>2. l \in Loaded /\ l.read = changes /\ changes \in Nat
    <2>1. req[c].k \in Key /\ held[req[c].k] \subseteq Role /\ changes \in Nat
        BY DEF IInv, Requests, Guarded, Numbers, QueryRoles, Asking
    <2>2. Resolved(held[req[c].k], {}) \in Value
        BY ResolvedType
    <2> QED
        BY <1>1, <2>1, <2>2 DEF Loaded
<1>3. PICK st \in {"store", "actions"} : req' = [req EXCEPT ![c].st = st, ![c].load = l]
    BY <1>1 DEF QueryRoles
<1>4. PICK y : y = [req[c] EXCEPT !.st = st, !.load = l]
    OBVIOUS
<1>5. /\ y \in Local /\ y.st = st /\ y.p = req[c].p /\ y.k = req[c].k /\ y.on = req[c].on
      /\ y.due = req[c].due /\ y.load = l
    BY <1>2, <1>3, <1>4 DEF IInv, Requests, Local, Asking
<1>6. /\ req' = [req EXCEPT ![c] = y] /\ req[c].st = "roles"
      /\ UNCHANGED <<tables, cache, inflight, answer, bus, unguarded>>
    BY <1>3, <1>4 DEF QueryRoles, IInv, Requests
<1>7. Requests' /\ req'[c] = y /\ \A d \in Req : d # c => req'[d] = req[d]
    BY <1>5, <1>6, Goes DEF IInv, Requests, Asking
<1>8. Guarded'
    BY <1>3, <1>5, <1>6, <1>7, GuardedStays DEF IInv, tables
<1>9. Flights'
    BY <1>3, <1>5, <1>6, <1>7, FlightsStay DEF IInv, Aloft, Flying
<1>10. Numbers'
    BY <1>3, <1>5, <1>6, <1>7, NumbersStay DEF IInv, tables, bus
<1>11. Served'
    <2>1. \A p : Due(p)' = Due(p)
        BY <1>6, DueStays
    <2>2. \A d \in Req : req'[d].st \in Asking => req'[d].due \subseteq Due(req[d].p)'
        BY <1>5, <1>6, <1>7, <2>1 DEF IInv, Served, Asking
    <2>3. \A p \in Proc, k \in Key : cache'[p][k].present => Covers(p, cache[p][k].load)'
        BY <1>6, <2>1 DEF IInv, Served, Covers
    <2>4. \A p \in Proc : \A n \in Due(p) : n <= l.read
        BY <1>2 DEF Due, IInv, Numbers
    <2>5. req[c].p \in Proc
        BY <1>6 DEF IInv, Requests, Asking
    <2>6. \A d \in Req : req'[d].st \in {"actions", "store"} => Covers(req[d].p, req[d].load)'
        BY <1>5, <1>7, <2>1, <2>4, <2>5 DEF IInv, Served, Covers
    <2>7. StaleOnlyIfExcused'
        BY <1>6 DEF IInv, Served, StaleOnlyIfExcused
    <2> QED
        BY <1>6, <2>2, <2>3, <2>6, <2>7 DEF IInv, Served
<1> QED
    BY <1>7, <1>8, <1>9, <1>10, <1>11 DEF IInv

\* An answer lacks nothing that was due when it was asked for, but for what the
\* load missed.
LEMMA AnswerFits ==
    ASSUME NEW p, NEW due \in SUBSET Nat, due \subseteq Due(p), NEW load \in Loaded, Covers(p, load)
    PROVE  /\ Answer(due, load) \in [lost : SUBSET Nat, missed : SUBSET Nat]
           /\ Answer(due, load).lost \subseteq Answer(due, load).missed
<1>1. load.read \in Nat /\ load.missed \subseteq Nat
    BY DEF Loaded
<1>2. PICK lost : lost = {n \in due : n > load.read}
    OBVIOUS
<1>3. lost \subseteq Nat /\ lost \subseteq load.missed
    <2>1. ASSUME NEW n \in lost PROVE n \in Nat /\ n \in load.missed
        <3>1. n \in due /\ n > load.read /\ n \in Nat /\ n \in Due(p)
            BY <1>2
        <3>2. ~(n <= load.read)
            BY <1>1, <3>1
        <3> QED
            BY <3>1, <3>2 DEF Covers
    <2> QED
        BY <2>1
<1>4. Answer(due, load) = [lost |-> lost, missed |-> lost \cap load.missed]
    BY <1>2 DEF Answer
<1>5. PICK m : m = lost \cap load.missed
    OBVIOUS
<1>6. m \in SUBSET Nat /\ lost \in SUBSET Nat /\ lost \subseteq m
    BY <1>3, <1>5
<1>7. Answer(due, load) = [lost |-> lost, missed |-> m]
    BY <1>4, <1>5
<1> QED
    BY <1>6, <1>7

\* One entry is written.
LEMMA CacheSet ==
    ASSUME cache \in [Proc -> [Key -> Entry]], NEW p \in Proc, NEW k \in Key, NEW e \in Entry,
           cache' = [cache EXCEPT ![p][k] = e]
    PROVE  /\ cache' \in [Proc -> [Key -> Entry]]
           /\ cache'[p][k] = e
           /\ \A q \in Proc, j \in Key : q # p \/ j # k => cache'[q][j] = cache[q][j]
OBVIOUS

\* What is due are numbers of changes.
LEMMA DueNumbers == ASSUME Numbers, NEW p \in Proc PROVE Due(p) \subseteq 1 .. changes /\ Due(p) \subseteq Nat
BY DEF Numbers, Due

\* Entries may go, and others keep what they have loaded.
LEMMA ServedLess ==
    ASSUME Served, UNCHANGED bus,
           cache' \in [Proc -> [Key -> Entry]],
           \A q \in Proc, j \in Key : cache'[q][j].present =>
              cache[q][j].present /\ cache'[q][j].load = cache[q][j].load,
           answer' \in [Req -> [lost : SUBSET Nat, missed : SUBSET Nat]],
           \A d \in Req : answer'[d].lost \subseteq answer'[d].missed,
           \A d \in Req : Patient(d) \/ /\ req'[d].st \in Asking \ {"actions", "store"}
                                        /\ req'[d].due = Due(req'[d].p)
    PROVE  Served'
<1>1. \A p : Due(p)' = Due(p)
    BY DueStays
<1>2. \A d \in Req : req'[d].st \in Asking => req'[d].due \subseteq Due(req[d].p)'
    BY <1>1 DEF Served, Patient
<1>3. \A p \in Proc, k \in Key : cache'[p][k].present => Covers(p, cache[p][k].load)'
    BY <1>1 DEF Served, Covers
<1>4. \A d \in Req : req'[d].st \in {"actions", "store"} => Covers(req[d].p, req[d].load)'
    BY <1>1 DEF Served, Patient, Covers, Asking
<1>5. StaleOnlyIfExcused'
    BY DEF Served, StaleOnlyIfExcused
<1> QED
    BY <1>2, <1>3, <1>4, <1>5 DEF Served

\* The first Get: a hit is answered, a miss asks on.
LEMMA GetStep ==
    ASSUME IInv, NEW c \in Req, NEW p \in Proc, NEW k \in Key, Get(c, p, k), UNCHANGED bound
    PROVE  IInv'
<1>0. /\ req[c].st = "idle" /\ UNCHANGED <<tables, inflight, bus, unguarded>>
      /\ cache \in [Proc -> [Key -> Entry]] /\ cache[p][k] \in Entry
      /\ answer \in [Req -> [lost : SUBSET Nat, missed : SUBSET Nat]]
      /\ \A d \in Req : answer[d].lost \subseteq answer[d].missed
    BY DEF Get, IInv, Served, StaleOnlyIfExcused
<1>1. CASE Fresh(cache[p][k])
    <2>1. /\ UNCHANGED <<cache, req>>
          /\ answer' = [answer EXCEPT ![c] = Answer(Due(p), cache[p][k].load)]
        BY <1>1 DEF Get
    <2>2. PICK a : a = Answer(Due(p), cache[p][k].load)
        OBVIOUS
    <2>3. a \in [lost : SUBSET Nat, missed : SUBSET Nat] /\ a.lost \subseteq a.missed
        <3>1. cache[p][k].load \in Loaded /\ Covers(p, cache[p][k].load)
            BY <1>0, <1>1 DEF Fresh, IInv, Served, Entry
        <3>2. Due(p) \in SUBSET Nat
            BY DueNumbers DEF IInv
        <3> QED
            BY <2>2, <3>1, <3>2, AnswerFits
    <2>4. /\ answer' \in [Req -> [lost : SUBSET Nat, missed : SUBSET Nat]]
          /\ \A d \in Req : answer'[d].lost \subseteq answer'[d].missed
        BY <1>0, <2>1, <2>2, <2>3
    <2>5. Requests' /\ Guarded' /\ Flights' /\ Numbers'
        <3>1. Requests'
            BY <2>1 DEF IInv, Requests
        <3>2. Guarded'
            BY <1>0, <2>1, GuardedStays DEF IInv, tables
        <3>3. Flights'
            BY <1>0, <2>1, FlightsStay DEF IInv, Aloft
        <3>4. Numbers'
            BY <1>0, <2>1, NumbersStay DEF IInv, tables, bus
        <3> QED
            BY <3>1, <3>2, <3>3, <3>4
    <2>6. \A d \in Req : Patient(d)
        BY <2>1 DEF Patient
    <2>7. Served'
        BY <1>0, <2>1, <2>4, <2>6, ServedLess DEF IInv
    <2> QED
        BY <2>5, <2>7 DEF IInv
<1>2. CASE ~Fresh(cache[p][k])
    <2>1. PICK y : y = [Idle EXCEPT !.st = "lock", !.p = p, !.k = k, !.due = Due(p)]
        OBVIOUS
    <2>2. /\ req' = [req EXCEPT ![c] = y] /\ UNCHANGED answer
          /\ cache' = [cache EXCEPT ![p][k] = NoEntry]
        BY <1>2, <2>1 DEF Get
    <2>3. y \in Local /\ y.st = "lock" /\ y.p = p /\ y.k = k /\ y.due = Due(p)
        <3>1. Due(p) \in SUBSET Nat
            BY DueNumbers DEF IInv
        <3> QED
            BY <2>1, <3>1, IdleType DEF Local, Asking
    <2>4. Requests' /\ req'[c] = y /\ \A d \in Req : d # c => req'[d] = req[d]
        BY <2>2, <2>3, Goes DEF IInv
    <2>5. /\ cache' \in [Proc -> [Key -> Entry]]
          /\ \A q \in Proc, j \in Key : cache'[q][j].present =>
               cache[q][j].present /\ cache'[q][j].load = cache[q][j].load
        <3>1. NoEntry \in Entry /\ ~NoEntry.present
            BY LoadType
        <3>2. /\ cache' \in [Proc -> [Key -> Entry]] /\ cache'[p][k] = NoEntry
              /\ \A q \in Proc, j \in Key : q # p \/ j # k => cache'[q][j] = cache[q][j]
            BY <1>0, <2>2, <3>1, CacheSet
        <3> QED
            BY <3>1, <3>2
    <2>6. Guarded'
        BY <1>0, <2>3, <2>4, GuardedStays DEF IInv, tables
    <2>7. Flights'
        BY <1>0, <2>3, <2>4, FlightsStay DEF IInv, Aloft, Flying
    <2>8. Numbers'
        BY <1>0, <2>3, <2>4, NumbersStay DEF IInv, tables, bus
    <2>9. \A d \in Req : Patient(d) \/ /\ req'[d].st \in Asking \ {"actions", "store"}
                                       /\ req'[d].due = Due(req'[d].p)
        BY <2>3, <2>4 DEF Patient, Asking
    <2>10. Served'
        BY <1>0, <2>2, <2>5, <2>9, ServedLess DEF IInv
    <2> QED
        BY <2>4, <2>6, <2>7, <2>8, <2>10 DEF IInv
<1> QED
    BY <1>1, <1>2

\* A flight is registered, or ends.
LEMMA InflightSet ==
    ASSUME inflight \in [Proc -> [Key -> Req \cup {NoReq}]], NEW p \in Proc, NEW k \in Key,
           NEW e \in Req \cup {NoReq}, inflight' = [inflight EXCEPT ![p][k] = e]
    PROVE  /\ inflight' \in [Proc -> [Key -> Req \cup {NoReq}]]
           /\ inflight'[p][k] = e
           /\ \A q \in Proc, j \in Key : q # p \/ j # k => inflight'[q][j] = inflight[q][j]
OBVIOUS

\* GetOrLoad under the lock: an answer, a seat in a flight, or a flight of its own.
LEMMA GetOrLoadStep ==
    ASSUME IInv, NEW c \in Req, GetOrLoad(c), UNCHANGED bound
    PROVE  IInv'
<1>1. PICK p, k : p = req[c].p /\ k = req[c].k
    OBVIOUS
<1>2. /\ p \in Proc /\ k \in Key /\ req[c].st = "lock" /\ req[c] \in Local
      /\ UNCHANGED <<tables, cache, bus, unguarded>>
      /\ cache[p][k] \in Entry /\ cache \in [Proc -> [Key -> Entry]]
      /\ answer \in [Req -> [lost : SUBSET Nat, missed : SUBSET Nat]]
      /\ \A d \in Req : answer[d].lost \subseteq answer[d].missed
      /\ inflight \in [Proc -> [Key -> Req \cup {NoReq}]]
    BY <1>1 DEF GetOrLoad, IInv, Requests, Served, StaleOnlyIfExcused, Flights, Asking
<1>3. CASE /\ Fresh(cache[p][k])
           /\ answer' = [answer EXCEPT ![c] = Answer(req[c].due, cache[p][k].load)]
           /\ req' = [req EXCEPT ![c] = Idle]
           /\ UNCHANGED inflight
    <2>1. Requests' /\ req'[c].st = "idle" /\ \A d \in Req : d # c => req'[d] = req[d]
        BY <1>3, EndsAs DEF IInv
    <2>2. PICK a : a = Answer(req[c].due, cache[p][k].load)
        OBVIOUS
    <2>3. a \in [lost : SUBSET Nat, missed : SUBSET Nat] /\ a.lost \subseteq a.missed
        <3>1. cache[p][k].load \in Loaded /\ Covers(p, cache[p][k].load)
            BY <1>2, <1>3 DEF Fresh, IInv, Served, Entry
        <3>2. req[c].due \in SUBSET Nat /\ req[c].due \subseteq Due(p)
            BY <1>1, <1>2 DEF Local, IInv, Served, Asking
        <3> QED
            BY <2>2, <3>1, <3>2, AnswerFits
    <2>4. /\ answer' \in [Req -> [lost : SUBSET Nat, missed : SUBSET Nat]]
          /\ \A d \in Req : answer'[d].lost \subseteq answer'[d].missed
        BY <1>2, <1>3, <2>2, <2>3
    <2>5. Guarded'
        BY <1>2, <2>1, GuardedStays DEF IInv, tables
    <2>6. Flights'
        BY <1>2, <1>3, <2>1, FlightsStay DEF IInv, Aloft, Flying
    <2>7. Numbers'
        BY <1>2, <2>1, NumbersStay DEF IInv, tables, bus
    <2>8. \A d \in Req : Patient(d)
        BY <2>1 DEF Patient, Asking
    <2>9. Served'
        BY <1>2, <2>4, <2>8, ServedLess DEF IInv
    <2> QED
        BY <2>1, <2>5, <2>6, <2>7, <2>9 DEF IInv
<1>4. CASE /\ inflight[p][k] # NoReq
           /\ req' = [req EXCEPT ![c].st = "park", ![c].on = inflight[p][k]]
           /\ UNCHANGED <<answer, inflight>>
    <2>1. PICK o : o = inflight[p][k]
        OBVIOUS
    <2>2. o \in Req
        BY <1>2, <1>4, <2>1
    <2>3. PICK y : y = [req[c] EXCEPT !.st = "park", !.on = o]
        OBVIOUS
    <2>4. y \in Local /\ y.st = "park" /\ y.on = o /\ y.p = p /\ y.k = k /\ y.due = req[c].due
        BY <1>1, <1>2, <2>2, <2>3 DEF Local, Asking
    <2>5. req' = [req EXCEPT ![c] = y]
        BY <1>4, <2>1, <2>3 DEF IInv, Requests
    <2>6. Requests' /\ req'[c] = y /\ \A d \in Req : d # c => req'[d] = req[d]
        BY <1>2, <2>4, <2>5, Goes DEF IInv
    <2>7. Guarded'
        BY <1>2, <2>4, <2>6, GuardedStays DEF IInv, tables
    <2>8. Flights'
        <3>1. \A d \in Req : req'[d].st \in Flying => req'[d] = req[d]
            BY <2>4, <2>6 DEF Flying
        <3>2. \A d \in Req : req[d].st \in Flying => req'[d] = req[d]
            BY <1>2, <2>6 DEF Flying
        <3>3. \A q \in Proc, j \in Key : inflight[q][j] # NoReq =>
                 /\ inflight[q][j] \in Req /\ req'[inflight[q][j]].st \in Flying
                 /\ req'[inflight[q][j]].p = q /\ req'[inflight[q][j]].k = j
            BY <3>2 DEF IInv, Flights
        <3>4. \A d \in Req : req'[d].st = "park" =>
                 inflight[req'[d].p][req'[d].k] = req'[d].on /\ req'[d].on \in Req
            BY <2>1, <2>2, <2>4, <2>6 DEF IInv, Flights
        <3>5. \A d \in Req : req'[d].st \in Flying => inflight[req'[d].p][req'[d].k] = d
            BY <3>1 DEF IInv, Flights
        <3>6. inflight' = inflight /\ inflight \in [Proc -> [Key -> Req \cup {NoReq}]]
            BY <1>2, <1>4
        <3> QED
            BY <3>3, <3>4, <3>5, <3>6 DEF Flights
    <2>9. Numbers'
        BY <1>2, <2>4, <2>6, NumbersStay DEF IInv, tables, bus
    <2>10. \A d \in Req : Patient(d)
        BY <1>1, <1>2, <2>4, <2>6 DEF Patient, Asking
    <2>11. Served'
        BY <1>2, <1>4, <2>10, ServedStays DEF IInv
    <2> QED
        BY <2>6, <2>7, <2>8, <2>9, <2>11 DEF IInv
<1>5. CASE /\ inflight[p][k] = NoReq
           /\ inflight' = [inflight EXCEPT ![p][k] = c]
           /\ req' = [req EXCEPT ![c].st = "roles"]
           /\ UNCHANGED answer
    <2>3. PICK y : y = [req[c] EXCEPT !.st = "roles"]
        OBVIOUS
    <2>4. y \in Local /\ y.st = "roles" /\ y.p = p /\ y.k = k /\ y.due = req[c].due
        BY <1>1, <1>2, <2>3 DEF Local, Asking
    <2>5. req' = [req EXCEPT ![c] = y]
        BY <1>5, <2>3 DEF IInv, Requests
    <2>6. Requests' /\ req'[c] = y /\ \A d \in Req : d # c => req'[d] = req[d]
        BY <1>2, <2>4, <2>5, Goes DEF IInv
    <2>7. Guarded'
        BY <1>2, <2>4, <2>6, GuardedStays DEF IInv, tables
    <2>8. Flights'
        <3>1. /\ inflight' \in [Proc -> [Key -> Req \cup {NoReq}]] /\ inflight'[p][k] = c
              /\ \A q \in Proc, j \in Key : q # p \/ j # k => inflight'[q][j] = inflight[q][j]
            BY <1>2, <1>5, InflightSet
        <3>2. \A d \in Req : req[d].st \in Flying => d # c
            BY <1>2 DEF Flying
        <3>3. ASSUME NEW d \in Req, req'[d].st \in Flying
              PROVE  inflight'[req'[d].p][req'[d].k] = d
            <4>1. CASE d = c
                BY <2>4, <2>6, <3>1, <4>1
            <4>2. CASE d # c
                <5>1. req'[d] = req[d] /\ req[d].st \in Flying /\ inflight[req[d].p][req[d].k] = d
                    BY <2>6, <3>3, <4>2 DEF IInv, Flights
                <5>2. req[d].p \in Proc /\ req[d].k \in Key
                    BY <5>1 DEF IInv, Requests, Flying, Asking
                <5>3. req[d].p # p \/ req[d].k # k
                    BY <1>5, <5>1
                <5> QED
                    BY <3>1, <5>1, <5>2, <5>3
            <4> QED
                BY <4>1, <4>2
        <3>4. ASSUME NEW q \in Proc, NEW j \in Key, inflight'[q][j] # NoReq
              PROVE  /\ req'[inflight'[q][j]].st \in Flying
                     /\ req'[inflight'[q][j]].p = q /\ req'[inflight'[q][j]].k = j
            <4>1. CASE q = p /\ j = k
                BY <2>4, <2>6, <3>1, <4>1 DEF Flying
            <4>2. CASE q # p \/ j # k
                <5>1. PICK d : d = inflight[q][j]
                    OBVIOUS
                <5>2. d \in Req /\ req[d].st \in Flying /\ req[d].p = q /\ req[d].k = j /\ inflight'[q][j] = d
                    BY <3>1, <3>4, <4>2, <5>1 DEF IInv, Flights
                <5> QED
                    BY <2>6, <3>2, <5>2
            <4> QED
                BY <4>1, <4>2
        <3>5. ASSUME NEW d \in Req, req'[d].st = "park"
              PROVE  inflight'[req'[d].p][req'[d].k] = req'[d].on /\ req'[d].on \in Req
            <4>1. req'[d] = req[d] /\ req[d].st = "park"
                BY <2>4, <2>6, <3>5
            <4>2. /\ inflight[req[d].p][req[d].k] = req[d].on /\ req[d].on \in Req
                  /\ req[d].p \in Proc /\ req[d].k \in Key
                BY <4>1 DEF IInv, Flights, Requests, Asking
            <4>3. req[d].p # p \/ req[d].k # k
                BY <1>5, <4>2
            <4> QED
                BY <3>1, <4>1, <4>2, <4>3
        <3> QED
            BY <3>1, <3>3, <3>4, <3>5 DEF Flights
    <2>9. Numbers'
        BY <1>2, <2>4, <2>6, NumbersStay DEF IInv, tables, bus
    <2>10. \A d \in Req : Patient(d)
        BY <1>1, <1>2, <2>4, <2>6 DEF Patient, Asking
    <2>11. Served'
        BY <1>2, <1>5, <2>10, ServedStays DEF IInv
    <2> QED
        BY <2>6, <2>7, <2>8, <2>9, <2>11 DEF IInv
<1> QED
    BY <1>1, <1>3, <1>4, <1>5 DEF GetOrLoad

\* A flight ends: everybody who waited for it is released, nobody else is.
LEMMA Landing ==
    ASSUME IInv, NEW c \in Req, req[c].st \in Flying, UNCHANGED bound,
           inflight' = [inflight EXCEPT ![req[c].p][req[c].k] = NoReq],
           req' = [d \in Req |-> IF d \in Released(c) THEN Idle ELSE req[d]]
    PROVE  /\ Requests' /\ Flights'
           /\ \A d \in Released(c) : d \in Req /\ req'[d].st = "idle"
           /\ \A d \in Req : d \notin Released(c) => req'[d] = req[d]
           /\ \A d \in Released(c) : req[d].st \in Asking /\ req[d].p = req[c].p
<1>1. PICK p, k : p = req[c].p /\ k = req[c].k
    OBVIOUS
<1>2. /\ p \in Proc /\ k \in Key /\ inflight[p][k] = c /\ req \in [Req -> Local]
      /\ inflight \in [Proc -> [Key -> Req \cup {NoReq}]]
    BY <1>1 DEF IInv, Requests, Flights, Flying, Asking
<1>3. /\ \A d \in Released(c) : d \in Req /\ req'[d] = Idle
      /\ \A d \in Req : d \notin Released(c) => req'[d] = req[d]
    BY DEF Released
<1>4. Requests'
    <2>1. req' \in [Req -> Local]
        BY <1>2, IdleType
    <2> QED
        BY <1>3, <2>1, IdleType DEF IInv, Requests, Asking
<1>5. /\ inflight' \in [Proc -> [Key -> Req \cup {NoReq}]] /\ inflight'[p][k] = NoReq
      /\ \A q \in Proc, j \in Key : q # p \/ j # k => inflight'[q][j] = inflight[q][j]
    BY <1>1, <1>2, InflightSet
<1>6. ASSUME NEW d \in Released(c)
      PROVE  req[d].st \in Asking /\ req[d].p = p
    <2>1. CASE d = c
        BY <1>1, <2>1 DEF Flying, Asking
    <2>2. CASE d # c
        <3>1. d \in Req /\ req[d].st = "park" /\ req[d].on = c
            BY <2>2 DEF Released
        <3>2. req[d].p \in Proc /\ req[d].k \in Key /\ inflight[req[d].p][req[d].k] = c
            BY <3>1 DEF IInv, Requests, Flights, Asking
        <3>3. req[c].p = req[d].p
            BY <3>2 DEF IInv, Flights
        <3> QED
            BY <1>1, <3>1, <3>3 DEF Asking
    <2> QED
        BY <2>1, <2>2
<1>7. Flights'
    <2>1. ASSUME NEW d \in Req, req'[d].st \in Flying
          PROVE  inflight'[req'[d].p][req'[d].k] = d
        <3>1. d \notin Released(c) /\ req'[d] = req[d] /\ d # c
            BY <1>3, <2>1, IdleType DEF Flying, Released
        <3>2. inflight[req[d].p][req[d].k] = d /\ req[d].p \in Proc /\ req[d].k \in Key
            BY <2>1, <3>1 DEF IInv, Flights, Requests, Flying, Asking
        <3>3. req[d].p # p \/ req[d].k # k
            BY <1>2, <3>1, <3>2
        <3> QED
            BY <1>5, <3>1, <3>2, <3>3
    <2>2. ASSUME NEW q \in Proc, NEW j \in Key, inflight'[q][j] # NoReq
          PROVE  /\ req'[inflight'[q][j]].st \in Flying
                 /\ req'[inflight'[q][j]].p = q /\ req'[inflight'[q][j]].k = j
        <3>1. q # p \/ j # k
            BY <1>5, <2>2
        <3>2. PICK d : d = inflight[q][j]
            OBVIOUS
        <3>3. d \in Req /\ req[d].st \in Flying /\ req[d].p = q /\ req[d].k = j /\ inflight'[q][j] = d
            BY <1>5, <2>2, <3>1, <3>2 DEF IInv, Flights
        <3>4. d \notin Released(c)
            BY <1>1, <3>1, <3>3 DEF Released, Flying
        <3> QED
            BY <1>3, <3>3, <3>4
    <2>3. ASSUME NEW d \in Req, req'[d].st = "park"
          PROVE  inflight'[req'[d].p][req'[d].k] = req'[d].on /\ req'[d].on \in Req
        <3>1. d \notin Released(c) /\ req'[d] = req[d]
            BY <1>3, <2>3, IdleType
        <3>2. /\ inflight[req[d].p][req[d].k] = req[d].on /\ req[d].on \in Req
              /\ req[d].p \in Proc /\ req[d].k \in Key
            BY <2>3, <3>1 DEF IInv, Flights, Requests, Asking
        <3>3. req[d].on # c
            BY <2>3, <3>1 DEF Released
        <3>4. req[d].p # p \/ req[d].k # k
            BY <1>2, <3>2, <3>3
        <3> QED
            BY <1>5, <3>1, <3>2, <3>4
    <2> QED
        BY <1>5, <2>1, <2>2, <2>3 DEF Flights
<1> QED
    BY <1>1, <1>3, <1>4, <1>6, <1>7, IdleType

\* A load fails, and everyone who waited gets the error.
LEMMA LoadFailsStep ==
    ASSUME IInv, NEW c \in Req, LoadFails(c), UNCHANGED bound
    PROVE  IInv'
<1>1. /\ req[c].st \in Flying /\ UNCHANGED <<tables, cache, answer, bus, unguarded>>
      /\ inflight' = [inflight EXCEPT ![req[c].p][req[c].k] = NoReq]
      /\ req' = [d \in Req |-> IF d \in Released(c) THEN Idle ELSE req[d]]
    BY DEF LoadFails, Flying
<1>2. /\ Requests' /\ Flights'
      /\ \A d \in Released(c) : req'[d].st = "idle"
      /\ \A d \in Req : d \notin Released(c) => req'[d] = req[d]
    BY <1>1, Landing
<1>3. UNCHANGED <<tables, cache, answer, bus, unguarded>>
    BY <1>1
<1>4. \A d \in Req : req'[d].st # "idle" => req'[d] = req[d]
    BY <1>2
<1> HIDE <1>1
<1>5. Guarded'
    BY <1>3, <1>4, GuardedStays DEF IInv, tables
<1>6. Numbers'
    BY <1>3, <1>4, NumbersStay DEF IInv, tables, bus
<1>7. \A d \in Req : Patient(d)
    BY <1>4 DEF Patient, Asking
<1>8. Served'
    BY <1>3, <1>7, ServedStays DEF IInv
<1> QED
    BY <1>2, <1>5, <1>6, <1>8 DEF IInv

\* A load succeeds: it is stored, and handed to everyone who waited.
LEMMA StoreStep ==
    ASSUME IInv, NEW c \in Req, Store(c), UNCHANGED bound
    PROVE  IInv'
<1>1. PICK p, k, l : p = req[c].p /\ k = req[c].k /\ l = [req[c].load EXCEPT !.held = {}]
    OBVIOUS
<1>2. /\ req[c].st = "store" /\ UNCHANGED <<tables, bus, unguarded>>
      /\ inflight' = [inflight EXCEPT ![req[c].p][req[c].k] = NoReq]
      /\ req' = [d \in Req |-> IF d \in Released(c) THEN Idle ELSE req[d]]
      /\ answer' = [d \in Req |-> IF d \in Released(c) THEN Answer(req[d].due, l) ELSE answer[d]]
      /\ cache' = [cache EXCEPT ![p][k] = [present |-> TRUE, age |-> 0, load |-> l]]
    BY <1>1 DEF Store, SetLocked
<1>3. /\ Requests' /\ Flights'
      /\ \A d \in Released(c) : d \in Req /\ req'[d].st = "idle"
      /\ \A d \in Req : d \notin Released(c) => req'[d] = req[d]
      /\ \A d \in Released(c) : req[d].st \in Asking /\ req[d].p = p
    BY <1>1, <1>2, Landing DEF Flying
<1>4. /\ \A d \in Req : req'[d].st # "idle" => req'[d] = req[d]
      /\ UNCHANGED <<tables, bus, unguarded>>
    BY <1>2, <1>3
<1>5. /\ p \in Proc /\ k \in Key /\ l \in Loaded /\ Covers(p, l)
    <2>1. p \in Proc /\ k \in Key /\ Covers(p, req[c].load) /\ req[c].load \in Loaded
        BY <1>1, <1>2 DEF IInv, Requests, Served, Asking, Local
    <2>2. l \in Loaded /\ l.read = req[c].load.read /\ l.missed = req[c].load.missed
        BY <1>1, <2>1 DEF Loaded
    <2> QED
        BY <2>1, <2>2 DEF Covers
<1>6. /\ answer' \in [Req -> [lost : SUBSET Nat, missed : SUBSET Nat]]
      /\ \A d \in Req : answer'[d].lost \subseteq answer'[d].missed
    <2>1. ASSUME NEW d \in Req
          PROVE  /\ answer'[d] \in [lost : SUBSET Nat, missed : SUBSET Nat]
                 /\ answer'[d].lost \subseteq answer'[d].missed
        <3>1. CASE d \in Released(c)
            <4>1. req[d].due \in SUBSET Nat /\ req[d].due \subseteq Due(p)
                BY <1>3, <3>1 DEF IInv, Requests, Served, Local
            <4>2. answer'[d] = Answer(req[d].due, l)
                BY <1>2, <3>1
            <4> QED
                BY <1>5, <4>1, <4>2, AnswerFits
        <3>2. CASE d \notin Released(c)
            <4>1. answer'[d] = answer[d]
                BY <1>2, <3>2
            <4> QED
                BY <4>1 DEF IInv, Served, StaleOnlyIfExcused
        <3> QED
            BY <3>1, <3>2
    <2>2. answer' = [d \in Req |-> answer'[d]]
        BY <1>2
    <2> QED
        BY <2>1, <2>2
<1>7. /\ cache' \in [Proc -> [Key -> Entry]] /\ cache'[p][k].load = l
      /\ \A q \in Proc, j \in Key : q # p \/ j # k => cache'[q][j] = cache[q][j]
    <2>1. PICK b \in BOOLEAN : b = TRUE
        OBVIOUS
    <2>2. PICK e : e = [present |-> b, age |-> 0, load |-> l]
        OBVIOUS
    <2>3. e \in Entry /\ e.load = l
        BY <1>5, <2>2 DEF Entry
    <2>4. cache \in [Proc -> [Key -> Entry]] /\ cache' = [cache EXCEPT ![p][k] = e]
        BY <1>2, <2>1, <2>2 DEF IInv, Served
    <2> QED
        BY <1>5, <2>3, <2>4, CacheSet
<1> HIDE <1>2
<1>8. Guarded'
    BY <1>4, GuardedStays DEF IInv, tables
<1>9. Numbers'
    BY <1>4, NumbersStay DEF IInv, tables, bus
<1>10. Served'
    <2>1. \A q : Due(q)' = Due(q)
        BY <1>4, DueStays
    <2>2. \A d \in Req : req'[d].st \in Asking => req'[d].due \subseteq Due(req[d].p)'
        BY <1>4, <2>1 DEF IInv, Served, Asking
    <2>3. ASSUME NEW q \in Proc, NEW j \in Key, cache'[q][j].present
          PROVE  Covers(q, cache[q][j].load)'
        <3>1. CASE q = p /\ j = k
            BY <1>5, <1>7, <2>1, <3>1 DEF Covers
        <3>2. CASE q # p \/ j # k
            BY <1>7, <2>1, <2>3, <3>2 DEF IInv, Served, Covers
        <3> QED
            BY <3>1, <3>2
    <2>4. \A d \in Req : req'[d].st \in {"actions", "store"} => Covers(req[d].p, req[d].load)'
        BY <1>4, <2>1 DEF IInv, Served, Covers
    <2>5. StaleOnlyIfExcused'
        BY <1>6 DEF StaleOnlyIfExcused
    <2> QED
        BY <1>6, <1>7, <2>2, <2>3, <2>4, <2>5 DEF Served
<1> QED
    BY <1>3, <1>8, <1>9, <1>10 DEF IInv

\* Entries that go, or grow older, owe nothing.
LEMMA CacheOnly ==
    ASSUME IInv, UNCHANGED <<bound, tables, inflight, req, answer, bus, unguarded>>,
           cache' \in [Proc -> [Key -> Entry]],
           \A q \in Proc, j \in Key : cache'[q][j].present =>
              cache[q][j].present /\ cache'[q][j].load = cache[q][j].load
    PROVE  IInv'
<1>1. Requests'
    BY DEF IInv, Requests
<1>2. Guarded'
    BY GuardedStays DEF IInv, tables
<1>3. Flights'
    BY FlightsStay DEF IInv, Aloft
<1>4. Numbers'
    BY NumbersStay DEF IInv, tables, bus
<1>5. \A d \in Req : Patient(d)
    BY DEF Patient
<1>6. /\ answer' \in [Req -> [lost : SUBSET Nat, missed : SUBSET Nat]]
      /\ \A d \in Req : answer'[d].lost \subseteq answer'[d].missed
    BY DEF IInv, Served, StaleOnlyIfExcused
<1>7. Served'
    BY <1>5, <1>6, ServedLess DEF IInv
<1> QED
    BY <1>1, <1>2, <1>3, <1>4, <1>7 DEF IInv

\* An entry is evicted.
LEMMA EvictStep ==
    ASSUME IInv, NEW p \in Proc, NEW k \in Key, Evict(p, k), UNCHANGED bound
    PROVE  IInv'
<1>1. /\ UNCHANGED <<bound, tables, inflight, req, answer, bus, unguarded>>
      /\ cache' = [cache EXCEPT ![p][k] = NoEntry] /\ cache \in [Proc -> [Key -> Entry]]
    BY DEF Evict, IInv, Served
<1>2. NoEntry \in Entry /\ ~NoEntry.present
    BY LoadType
<1>3. /\ cache' \in [Proc -> [Key -> Entry]] /\ cache'[p][k] = NoEntry
      /\ \A q \in Proc, j \in Key : q # p \/ j # k => cache'[q][j] = cache[q][j]
    BY <1>1, <1>2, CacheSet
<1>4. \A q \in Proc, j \in Key : cache'[q][j].present =>
         cache[q][j].present /\ cache'[q][j].load = cache[q][j].load
    BY <1>2, <1>3
<1> QED
    BY <1>1, <1>3, <1>4, CacheOnly

\* Time passes.
LEMMA TickStep ==
    ASSUME IInv, Tick, UNCHANGED bound
    PROVE  IInv'
<1>1. /\ UNCHANGED <<bound, tables, inflight, req, answer, bus, unguarded>>
      /\ cache' = [p \in Proc |-> [k \in Key |->
            IF Fresh(cache[p][k]) THEN [cache[p][k] EXCEPT !.age = @ + 1] ELSE cache[p][k]]]
      /\ cache \in [Proc -> [Key -> Entry]]
    BY DEF Tick, IInv, Served
<1>2. ASSUME NEW q \in Proc, NEW j \in Key
      PROVE  /\ cache'[q][j] \in Entry
             /\ cache'[q][j].present = cache[q][j].present /\ cache'[q][j].load = cache[q][j].load
    <2>1. PICK e : e = cache[q][j]
        OBVIOUS
    <2>2. e \in Entry
        BY <1>1, <2>1
    <2>3. [e EXCEPT !.age = @ + 1] \in Entry /\ [e EXCEPT !.age = @ + 1].present = e.present
          /\ [e EXCEPT !.age = @ + 1].load = e.load
        BY <2>2 DEF Entry
    <2>4. cache'[q][j] \in {[e EXCEPT !.age = @ + 1], e}
        BY <1>1, <2>1
    <2> QED
        BY <2>1, <2>2, <2>3, <2>4
<1>3. cache' \in [Proc -> [Key -> Entry]]
    BY <1>1, <1>2
<1> QED
    BY <1>1, <1>2, <1>3, CacheOnly

-----------------------------------------------------------------------------
(* The bus *)

\* Taking the first of a queue's numbers.
LEMMA RangeTail ==
    ASSUME NEW s \in Seq(Nat), s # << >>
    PROVE  Range(s) \subseteq Range(Tail(s)) \cup {Head(s)} /\ Range(Tail(s)) \subseteq Range(s)
           /\ Tail(s) \in Seq(Nat) /\ Head(s) \in Nat
<1>1. Len(s) \in Nat \ {0} /\ DOMAIN s = 1 .. Len(s) /\ Head(s) = s[1] /\ Head(s) \in Nat
    BY EmptySeq, HeadTailProperties, LenProperties
<1>2. /\ Tail(s) \in Seq(Nat) /\ Len(Tail(s)) = Len(s) - 1 /\ DOMAIN Tail(s) = 1 .. Len(Tail(s))
      /\ \A i \in 1 .. Len(Tail(s)) : Tail(s)[i] = s[i + 1]
    BY HeadTailProperties, LenProperties
<1>3. ASSUME NEW i \in DOMAIN s PROVE s[i] \in Range(Tail(s)) \cup {Head(s)}
    <2>1. CASE i = 1
        BY <1>1, <2>1
    <2>2. CASE i # 1
        <3>1. i - 1 \in 1 .. Len(Tail(s)) /\ Tail(s)[i - 1] = s[i]
            BY <1>1, <1>2, <2>2
        <3> QED
            BY <1>2, <3>1 DEF Range
    <2> QED
        BY <2>1, <2>2
<1>4. ASSUME NEW i \in DOMAIN Tail(s) PROVE Tail(s)[i] \in Range(s)
    <2>1. i + 1 \in DOMAIN s /\ Tail(s)[i] = s[i + 1]
        BY <1>1, <1>2
    <2> QED
        BY <2>1 DEF Range
<1> QED
    BY <1>1, <1>2, <1>3, <1>4 DEF Range

\* Adding one.
LEMMA RangeAppend ==
    ASSUME NEW s \in Seq(Nat), NEW n \in Nat
    PROVE  Range(Append(s, n)) = Range(s) \cup {n} /\ Append(s, n) \in Seq(Nat)
<1>1. /\ Append(s, n) \in Seq(Nat) /\ Len(Append(s, n)) = Len(s) + 1 /\ Append(s, n)[Len(s) + 1] = n
      /\ \A i \in 1 .. Len(s) : Append(s, n)[i] = s[i]
      /\ DOMAIN Append(s, n) = 1 .. (Len(s) + 1) /\ DOMAIN s = 1 .. Len(s) /\ Len(s) \in Nat
    BY AppendProperties, LenProperties
<1>2. ASSUME NEW i \in DOMAIN Append(s, n) PROVE Append(s, n)[i] \in Range(s) \cup {n}
    BY <1>1 DEF Range
<1>3. ASSUME NEW i \in DOMAIN s PROVE s[i] \in Range(Append(s, n))
    <2>1. i \in DOMAIN Append(s, n) /\ Append(s, n)[i] = s[i]
        BY <1>1
    <2> QED
        BY <2>1 DEF Range
<1>4. n \in Range(Append(s, n))
    <2>1. Len(s) + 1 \in DOMAIN Append(s, n)
        BY <1>1
    <2> QED
        BY <1>1, <2>1 DEF Range
<1> QED
    BY <1>1, <1>2, <1>3, <1>4 DEF Range

\* One queue of one process changes.
LEMMA QueueSet ==
    ASSUME queue \in [Proc -> [Kind -> Seq(Nat)]], NEW p \in Proc, NEW t \in Kind, NEW s \in Seq(Nat),
           queue' = [queue EXCEPT ![p][t] = s]
    PROVE  /\ queue' \in [Proc -> [Kind -> Seq(Nat)]]
           /\ queue'[p][t] = s
           /\ \A u \in Kind : u # t => queue'[p][u] = queue[p][u]
           /\ \A q \in Proc : q # p => queue'[q] = queue[q]
OBVIOUS

\* A purge makes one change due, at most.
LEMMA PurgeDue ==
    ASSUME Numbers, NEW p \in Proc, NEW t \in Kind, queue[p][t] # << >>,
           queue' = [queue EXCEPT ![p][t] = Tail(@)], UNCHANGED <<returned, dropped>>
    PROVE  /\ queue' \in [Proc -> [Kind -> Seq(Nat)]] /\ Head(queue[p][t]) \in Nat
           /\ \A q \in Proc : q # p => Due(q)' = Due(q)
           /\ Due(p) \subseteq Due(p)'
           /\ \A n \in Due(p)' : n \in Due(p) \/ n = Head(queue[p][t])
<1>1. PICK s, h : s = queue[p][t] /\ h = Head(queue[p][t])
    OBVIOUS
<1>2. s \in Seq(Nat) /\ s # << >> /\ h = Head(s) /\ queue \in [Proc -> [Kind -> Seq(Nat)]]
    BY <1>1 DEF Numbers
<1>3. /\ Range(s) \subseteq Range(Tail(s)) \cup {h} /\ Range(Tail(s)) \subseteq Range(s)
      /\ Tail(s) \in Seq(Nat) /\ h \in Nat
    BY <1>2, RangeTail
<1>4. queue' = [queue EXCEPT ![p][t] = Tail(s)]
    BY <1>1
<1>5. /\ queue' \in [Proc -> [Kind -> Seq(Nat)]] /\ queue'[p][t] = Tail(s)
      /\ \A u \in Kind : u # t => queue'[p][u] = queue[p][u]
      /\ \A q \in Proc : q # p => queue'[q] = queue[q]
    BY <1>2, <1>3, <1>4, QueueSet
<1>6. \A q \in Proc : q # p => Due(q)' = Due(q)
    BY <1>5 DEF Due, Queued
<1>7. Queued(p)' \subseteq Queued(p)
    <2>1. ASSUME NEW u \in Kind PROVE Range(queue'[p][u]) \subseteq Range(queue[p][u])
        BY <1>1, <1>3, <1>5
    <2> QED
        BY <2>1 DEF Queued
<1>8. \A n \in Queued(p) : n \in Queued(p)' \/ n = h
    <2>1. ASSUME NEW u \in Kind, NEW n \in Range(queue[p][u])
          PROVE  n \in Range(queue'[p][u]) \/ n = h
        BY <1>1, <1>3, <1>5
    <2> QED
        BY <2>1 DEF Queued
<1>9. Due(p) \subseteq Due(p)' /\ \A n \in Due(p)' : n \in Due(p) \/ n = h
    BY <1>7, <1>8 DEF Due
<1> QED
    BY <1>1, <1>3, <1>5, <1>6, <1>9

\* The subscriber purges the cache of its process; loads go on, and miss it.
LEMMA PurgeStep ==
    ASSUME IInv, NEW p \in Proc, NEW t \in Kind, Purge(p, t), UNCHANGED bound
    PROVE  IInv'
<1>1. PICK h : h = Head(queue[p][t])
    OBVIOUS
<1>2. /\ UNCHANGED <<bound, tables, inflight, answer, returned, dropped, unguarded>>
      /\ cache' = [cache EXCEPT ![p] = [k \in Key |-> NoEntry]]
      /\ cache \in [Proc -> [Key -> Entry]]
    BY DEF Purge, IInv, Served
<1>3. /\ queue' \in [Proc -> [Kind -> Seq(Nat)]] /\ h \in Nat
      /\ \A q \in Proc : q # p => Due(q)' = Due(q)
      /\ Due(p) \subseteq Due(p)'
      /\ \A n \in Due(p)' : n \in Due(p) \/ n = h
    BY <1>1, PurgeDue DEF Purge, IInv
<1>4. /\ cache' \in [Proc -> [Key -> Entry]]
      /\ \A q \in Proc, j \in Key : cache'[q][j].present => q # p /\ cache'[q][j] = cache[q][j]
    <2>1. NoEntry \in Entry /\ ~NoEntry.present
        BY LoadType
    <2> QED
        BY <1>2, <2>1
<1>5. /\ req' \in [Req -> Local]
      /\ \A d \in Req : \/ req'[d] = req[d] /\ ~(req[d].p = p /\ req[d].st \in {"actions", "store"})
                        \/ /\ req[d].p = p /\ req[d].st \in {"actions", "store"}
                           /\ req'[d].st = req[d].st /\ req'[d].p = req[d].p /\ req'[d].k = req[d].k
                           /\ req'[d].on = req[d].on /\ req'[d].due = req[d].due
                           /\ req'[d].load.read = req[d].load.read
                           /\ req'[d].load.missed = req[d].load.missed \cup {h}
    <2>1. req' = [c \in Req |->
            IF req[c].p = p /\ req[c].st \in {"actions", "store"}
            THEN [req[c] EXCEPT !.load.missed = @ \cup {h}]
            ELSE req[c]]
        BY <1>1 DEF Purge
    <2>2. ASSUME NEW d \in Req
          PROVE  LET y == [req[d] EXCEPT !.load.missed = @ \cup {h}]
                 IN  /\ y \in Local
                     /\ y.st = req[d].st /\ y.p = req[d].p /\ y.k = req[d].k
                     /\ y.on = req[d].on /\ y.due = req[d].due
                     /\ y.load.read = req[d].load.read
                     /\ y.load.missed = req[d].load.missed \cup {h}
        <3>1. req[d] \in Local
            BY DEF IInv, Requests
        <3> QED
            BY <1>3, <3>1 DEF Local, Loaded
    <2>3. req \in [Req -> Local]
        BY DEF IInv, Requests
    <2> QED
        BY <2>1, <2>2, <2>3
<1>6. Requests'
    BY <1>2, <1>5 DEF IInv, Requests
<1>7. Guarded'
    BY <1>2, <1>5, GuardedStays DEF IInv, tables
<1>8. Flights'
    BY <1>2, <1>5, FlightsStay DEF IInv, Aloft
<1>9. Numbers'
    <2>1. \A d \in Req : req'[d].st = "publish" => req'[d] = req[d]
        BY <1>5
    <2>2. changes' = changes /\ returned' = returned /\ dropped' = dropped
        BY <1>2 DEF tables
    <2>3. \A c \in Req : req'[c].st = "publish" => req'[c].n \in 1 .. changes
        BY <2>1 DEF IInv, Numbers
    <2>4. \A c, d \in Req : req'[c].st = "publish" /\ req'[d].st = "publish" /\ req'[c].n = req'[d].n => d = c
        BY <2>1 DEF IInv, Numbers
    <2>5. \A c \in Req, q \in Proc : req'[c].st = "publish" => req'[c].n \notin returned[q]
        BY <2>1 DEF IInv, Numbers
    <2> QED
        BY <1>3, <2>2, <2>3, <2>4, <2>5 DEF IInv, Numbers
<1>10. Served'
    <2>1. \A d \in Req : req'[d].st \in Asking => req'[d].due \subseteq Due(req[d].p)'
        <3>1. ASSUME NEW d \in Req, req'[d].st \in Asking PROVE req'[d].due \subseteq Due(req[d].p)'
            <4>1. PICK q \in Proc : q = req[d].p /\ q = req'[d].p /\ req'[d].due \subseteq Due(q)
                BY <1>5, <3>1 DEF IInv, Served, Requests
            <4>2. Due(q) \subseteq Due(q)'
                BY <1>3
            <4> QED
                BY <4>1, <4>2
        <3> QED
            BY <3>1
    <2>2. \A q \in Proc, j \in Key : cache'[q][j].present => Covers(q, cache[q][j].load)'
        BY <1>3, <1>4 DEF IInv, Served, Covers
    <2>3. ASSUME NEW d \in Req, req'[d].st \in {"actions", "store"}
          PROVE  Covers(req[d].p, req[d].load)'
        <3>1. PICK q \in Proc : q = req[d].p
            BY <1>5, <2>3 DEF IInv, Requests, Asking
        <3>2. req'[d].p = q /\ Covers(q, req[d].load)
            BY <1>5, <2>3, <3>1 DEF IInv, Served
        <3>3. ASSUME NEW n \in Due(q)' PROVE n <= req'[d].load.read \/ n \in req'[d].load.missed
            <4>1. CASE q = p
                BY <1>3, <1>5, <2>3, <3>1, <3>2, <3>3, <4>1 DEF Covers
            <4>2. CASE q # p
                BY <1>3, <1>5, <3>1, <3>2, <3>3, <4>2 DEF Covers
            <4> QED
                BY <4>1, <4>2
        <3> QED
            BY <3>2, <3>3 DEF Covers
    <2>4. StaleOnlyIfExcused'
        BY <1>2 DEF IInv, Served, StaleOnlyIfExcused
    <2> QED
        BY <1>2, <1>4, <2>1, <2>2, <2>3, <2>4 DEF IInv, Served
<1> QED
    BY <1>6, <1>7, <1>8, <1>9, <1>10 DEF IInv

\* A change that is published is queued or dropped when its call returns: nothing
\* becomes due.
LEMMA PublishDue ==
    ASSUME Numbers, NEW p \in Proc, NEW t \in Kind, NEW n \in Nat, n \notin returned[p],
           returned' = [returned EXCEPT ![p] = @ \cup {n}],
           \/ queue' = [queue EXCEPT ![p][t] = Append(@, n)] /\ UNCHANGED dropped
           \/ dropped' = [dropped EXCEPT ![p] = @ \cup {n}] /\ UNCHANGED queue
    PROVE  /\ queue' \in [Proc -> [Kind -> Seq(Nat)]] /\ dropped' \in [Proc -> SUBSET Nat]
           /\ \A q \in Proc : Due(q)' = Due(q)
<1>0. /\ queue \in [Proc -> [Kind -> Seq(Nat)]] /\ dropped \in [Proc -> SUBSET Nat]
      /\ returned'[p] = returned[p] \cup {n} /\ \A q \in Proc : q # p => returned'[q] = returned[q]
    BY DEF Numbers
<1>1. CASE queue' = [queue EXCEPT ![p][t] = Append(@, n)] /\ UNCHANGED dropped
    <2>1. PICK s : s = queue[p][t]
        OBVIOUS
    <2>2. s \in Seq(Nat) /\ queue' = [queue EXCEPT ![p][t] = Append(s, n)]
        BY <1>0, <1>1, <2>1
    <2>3. Range(Append(s, n)) = Range(s) \cup {n} /\ Append(s, n) \in Seq(Nat)
        BY <2>2, RangeAppend
    <2>4. /\ queue' \in [Proc -> [Kind -> Seq(Nat)]] /\ queue'[p][t] = Append(s, n)
          /\ \A u \in Kind : u # t => queue'[p][u] = queue[p][u]
          /\ \A q \in Proc : q # p => queue'[q] = queue[q]
        BY <1>0, <2>2, <2>3, QueueSet
    <2>5. Queued(p)' \subseteq Queued(p) \cup {n} /\ Queued(p) \cup {n} \subseteq Queued(p)'
        <3>1. ASSUME NEW u \in Kind
              PROVE  /\ Range(queue'[p][u]) \subseteq Range(queue[p][u]) \cup {n}
                     /\ Range(queue[p][u]) \subseteq Range(queue'[p][u])
            BY <2>1, <2>3, <2>4
        <3>2. n \in Range(queue'[p][t])
            BY <2>3, <2>4
        <3>3. ASSUME NEW m \in Queued(p)' PROVE m \in Queued(p) \cup {n}
            <4>1. PICK u \in Kind : m \in Range(queue'[p][u])
                BY DEF Queued
            <4> QED
                BY <3>1, <4>1 DEF Queued
        <3>4. ASSUME NEW m \in Queued(p) PROVE m \in Queued(p)'
            <4>1. PICK u \in Kind : m \in Range(queue[p][u])
                BY DEF Queued
            <4> QED
                BY <3>1, <4>1 DEF Queued
        <3>5. n \in Queued(p)'
            BY <3>2 DEF Queued
        <3> QED
            BY <3>3, <3>4, <3>5
    <2>6. Due(p)' = Due(p)
        BY <1>0, <1>1, <2>5 DEF Due
    <2>7. \A q \in Proc : q # p => Due(q)' = Due(q)
        BY <1>0, <1>1, <2>4 DEF Due, Queued
    <2> QED
        BY <1>0, <1>1, <2>4, <2>6, <2>7
<1>2. CASE dropped' = [dropped EXCEPT ![p] = @ \cup {n}] /\ UNCHANGED queue
    <2>1. /\ dropped' \in [Proc -> SUBSET Nat] /\ dropped'[p] = dropped[p] \cup {n}
          /\ \A q \in Proc : q # p => dropped'[q] = dropped[q]
        BY <1>0, <1>2
    <2>2. \A q : Queued(q)' = Queued(q)
        BY <1>2 DEF Queued
    <2> QED
        BY <1>0, <1>2, <2>1, <2>2 DEF Due
<1> QED
    BY <1>1, <1>2

\* The publish, with which the call returns.
LEMMA PublishStep ==
    ASSUME IInv, NEW c \in Req, Publish(c), UNCHANGED bound
    PROVE  IInv'
<1>1. PICK p, t, n : p = req[c].p /\ t = req[c].kind /\ n = req[c].n
    OBVIOUS
<1>2. /\ req[c].st = "publish" /\ UNCHANGED <<tables, cache, inflight, answer, unguarded>>
      /\ returned' = [returned EXCEPT ![p] = @ \cup {n}]
      /\ req' = [req EXCEPT ![c] = Idle]
    BY <1>1 DEF Publish
<1>3. /\ p \in Proc /\ t \in Kind /\ n \in 1 .. changes /\ n \in Nat /\ changes \in Nat
      /\ \A q \in Proc : n \notin returned[q]
      /\ returned \in [Proc -> SUBSET (1 .. changes)]
    BY <1>1, <1>2 DEF IInv, Requests, Numbers, Local
<1>4. /\ queue' \in [Proc -> [Kind -> Seq(Nat)]] /\ dropped' \in [Proc -> SUBSET Nat]
      /\ \A q \in Proc : Due(q)' = Due(q)
    <2>1. \/ queue' = [queue EXCEPT ![p][t] = Append(@, n)] /\ UNCHANGED dropped
          \/ dropped' = [dropped EXCEPT ![p] = @ \cup {n}] /\ UNCHANGED queue
        BY <1>1 DEF Publish
    <2> QED
        BY <1>2, <1>3, <2>1, PublishDue DEF IInv
<1>5. Requests' /\ req'[c].st = "idle" /\ \A d \in Req : d # c => req'[d] = req[d]
    BY <1>2, EndsAs DEF IInv
<1>6. /\ UNCHANGED <<tables, cache, inflight, answer, unguarded>>
      /\ returned' \in [Proc -> SUBSET (1 .. changes)]
      /\ \A q \in Proc : returned'[q] \subseteq returned[q] \cup {n}
    BY <1>2, <1>3
<1>7. \A d \in Req : req'[d].st # "idle" => req'[d] = req[d] /\ d # c
    BY <1>5
<1>8. Guarded'
    BY <1>6, <1>7, GuardedStays DEF IInv, tables
<1>9. Flights'
    BY <1>2, <1>5, FlightsStay DEF IInv, Aloft, Flying
<1>10. Numbers'
    <2>1. \A d \in Req : req'[d].st = "publish" => req'[d].n \in 1 .. changes
        BY <1>7 DEF IInv, Numbers
    <2>2. \A b, d \in Req : req'[b].st = "publish" /\ req'[d].st = "publish" /\ req'[b].n = req'[d].n => d = b
        BY <1>7 DEF IInv, Numbers
    <2>3. \A d \in Req, q \in Proc : req'[d].st = "publish" => req'[d].n \notin returned'[q]
        <3>1. ASSUME NEW d \in Req, NEW q \in Proc, req'[d].st = "publish"
              PROVE  req'[d].n \notin returned'[q]
            <4>1. req'[d] = req[d] /\ d # c
                BY <1>7, <3>1
            <4>2. req[d].n # n
                BY <1>1, <1>2, <3>1, <4>1 DEF IInv, Numbers
            <4>3. req[d].n \notin returned[q]
                BY <3>1, <4>1 DEF IInv, Numbers
            <4> QED
                BY <1>6, <4>1, <4>2, <4>3
        <3> QED
            BY <3>1
    <2>4. changes' = changes
        BY <1>6 DEF tables
    <2> QED
        BY <1>3, <1>4, <1>6, <2>1, <2>2, <2>3, <2>4 DEF Numbers
<1> HIDE <1>2
<1>11. Served'
    <2>1. \A d \in Req : req'[d].st \in Asking => req'[d].due \subseteq Due(req[d].p)'
        BY <1>4, <1>7 DEF IInv, Served, Requests, Asking
    <2>2. \A q \in Proc, j \in Key : cache'[q][j].present => Covers(q, cache[q][j].load)'
        BY <1>4, <1>6 DEF IInv, Served, Covers
    <2>3. \A d \in Req : req'[d].st \in {"actions", "store"} => Covers(req[d].p, req[d].load)'
        BY <1>4, <1>7 DEF IInv, Served, Covers, Requests, Asking
    <2>4. StaleOnlyIfExcused'
        BY <1>6 DEF IInv, Served, StaleOnlyIfExcused
    <2> QED
        BY <1>6, <2>1, <2>2, <2>3, <2>4 DEF IInv, Served
<1> QED
    BY <1>5, <1>8, <1>9, <1>10, <1>11 DEF IInv

\* Assign fails after its statement: nobody is told.
LEMMA AssignReadBackFailsStep ==
    ASSUME IInv, NEW c \in Req, AssignReadBackFails(c), UNCHANGED bound
    PROVE  IInv'
<1>1. /\ req[c].st = "publish" /\ req' = [req EXCEPT ![c] = Idle]
      /\ UNCHANGED <<tables, cache, inflight, answer, bus, unguarded>>
    BY DEF AssignReadBackFails
<1>2. Requests' /\ req'[c].st = "idle" /\ \A d \in Req : d # c => req'[d] = req[d]
    BY <1>1, EndsAs DEF IInv
<1>3. Guarded'
    BY <1>1, <1>2, GuardedStays DEF IInv, tables
<1>4. Flights'
    BY <1>1, <1>2, FlightsStay DEF IInv, Aloft, Flying
<1>5. Numbers'
    BY <1>1, <1>2, NumbersStay DEF IInv, tables, bus
<1>6. \A d \in Req : Patient(d)
    BY <1>2 DEF Patient, Asking
<1>7. Served'
    BY <1>1, <1>6, ServedStays DEF IInv
<1> QED
    BY <1>2, <1>3, <1>4, <1>5, <1>7 DEF IInv

-----------------------------------------------------------------------------
(* Changes to the tables *)

\* What a statement does to the admins: one is lost only past the guard.
LEMMA StatementDoes ==
    ASSUME Guarded, changes \in Nat, NEW kind \in Kind \ {"put"}, NEW ks, NEW r \in Role, Statement(kind, ks, r)
    PROVE  /\ held' \in [Key -> SUBSET Role] /\ roles' \subseteq Role
           /\ changes' = changes + 1
           /\ unguarded => unguarded'
           /\ unguarded' \/ \A k \in Key : SysAdmin \in held[k] => SysAdmin \in held'[k]
<1>0. held \in [Key -> SUBSET Role] /\ roles \subseteq Role
    BY DEF Guarded
<1>1. /\ changes' = changes + 1
      /\ unguarded' = (unguarded \/ (kind = "unassign" /\ r = SysAdmin))
    BY DEF Statement
<1>2. CASE kind \in {"grant", "revoke"}
    <2>1. UNCHANGED <<held, roles>>
        BY <1>2 DEF Statement
    <2> QED
        BY <1>0, <1>1, <2>1
<1>3. CASE kind = "assign"
    <2>1. /\ held' = [k \in Key |-> IF k \in ks THEN held[k] \cup {r} ELSE held[k]]
          /\ UNCHANGED roles
        BY <1>3 DEF Statement
    <2>2. held' \in [Key -> SUBSET Role] /\ \A k \in Key : held[k] \subseteq held'[k]
        BY <1>0, <2>1
    <2> QED
        BY <1>0, <1>1, <2>1, <2>2
<1>4. CASE kind = "unassign"
    <2>1. /\ held' = [k \in Key |-> IF k \in ks THEN held[k] \ {r} ELSE held[k]]
          /\ UNCHANGED roles
        BY <1>4 DEF Statement
    <2>2. held' \in [Key -> SUBSET Role] /\ \A k \in Key : held[k] \ {r} \subseteq held'[k]
        BY <1>0, <2>1
    <2> QED
        BY <1>0, <1>1, <1>4, <2>1, <2>2
<1>5. CASE kind = "delete"
    <2>1. /\ held' = [k \in Key |-> held[k] \ {r}] /\ roles' = roles \ {r} /\ r # SysAdmin
        BY <1>5 DEF Statement
    <2>2. held' \in [Key -> SUBSET Role] /\ \A k \in Key : held[k] \ {r} \subseteq held'[k]
        BY <1>0, <2>1
    <2> QED
        BY <1>0, <1>1, <2>1, <2>2
<1> QED
    BY <1>2, <1>3, <1>4, <1>5 DEF Kind

\* The guard holds as long as the admins there are remain.
LEMMA GuardedGrows ==
    ASSUME Guarded, held' \in [Key -> SUBSET Role], roles' \subseteq Role,
           unguarded => unguarded',
           unguarded' \/ \A k \in Key : SysAdmin \in held[k] => SysAdmin \in held'[k],
           \A d \in Req : req'[d].st = "put" => req'[d] = req[d]
    PROVE  Guarded'
<1>1. CASE unguarded'
    BY <1>1 DEF Guarded
<1>2. CASE ~unguarded'
    <2>1. /\ \E k \in Key : SysAdmin \in held[k]
          /\ \A c, d \in Req : req[c].st = "put" /\ req[d].st = "put" => d = c
          /\ \A c \in Req : req[c].st = "put" => SystemAdmins(req[c].k, req[c].want) # {}
        BY <1>2 DEF Guarded
    <2>2. \A k \in Key : SysAdmin \in held[k] => SysAdmin \in held'[k]
        BY <1>2
    <2>3. \E k \in Key : SysAdmin \in held'[k]
        BY <2>1, <2>2
    <2>4. \A c, d \in Req : req'[c].st = "put" /\ req'[d].st = "put" => d = c
        BY <2>1
    <2>5. ASSUME NEW c \in Req, req'[c].st = "put"
          PROVE  SystemAdmins(req[c].k, req[c].want)' # {}
        <3>1. req'[c] = req[c] /\ SystemAdmins(req[c].k, req[c].want) # {}
            BY <2>1, <2>5
        <3> QED
            BY <2>2, <3>1 DEF SystemAdmins
    <2> QED
        BY <2>3, <2>4, <2>5 DEF Guarded
<1> QED
    BY <1>1, <1>2

\* One change more is counted, and perhaps published by c.
LEMMA NumbersGrow ==
    ASSUME Numbers, UNCHANGED bus, changes' = changes + 1,
           NEW c \in Req \cup {NoReq},
           c \in Req => req'[c].st = "publish" /\ req'[c].n = changes',
           \A d \in Req : d # c => req'[d] = req[d] \/ req'[d].st # "publish"
    PROVE  Numbers'
<1>0. changes \in Nat /\ UNCHANGED <<queue, returned, dropped>>
    BY DEF Numbers, bus
<1>1. returned' \in [Proc -> SUBSET (1 .. changes')]
    <2>1. 1 .. changes \subseteq 1 .. changes'
        BY <1>0
    <2> QED
        BY <1>0, <2>1 DEF Numbers
<1>2. \A d \in Req : req'[d].st = "publish" => req'[d].n \in 1 .. changes' /\ (d # c => req'[d].n \in 1 .. changes)
    BY <1>0 DEF Numbers
<1>3. \A b, d \in Req : req'[b].st = "publish" /\ req'[d].st = "publish" /\ req'[b].n = req'[d].n => d = b
    <2>1. ASSUME NEW b \in Req, NEW d \in Req, req'[b].st = "publish", req'[d].st = "publish",
                 req'[b].n = req'[d].n, d # b
          PROVE  FALSE
        <3>1. CASE b = c
            BY <1>0, <1>2, <2>1, <3>1
        <3>2. CASE d = c
            BY <1>0, <1>2, <2>1, <3>2
        <3>3. CASE b # c /\ d # c
            BY <2>1, <3>3 DEF Numbers
        <3> QED
            BY <3>1, <3>2, <3>3
    <2> QED
        BY <2>1
<1>4. \A d \in Req, p \in Proc : req'[d].st = "publish" => req'[d].n \notin returned'[p]
    <2>1. ASSUME NEW d \in Req, NEW p \in Proc, req'[d].st = "publish"
          PROVE  req'[d].n \notin returned'[p]
        <3>1. CASE d = c
            BY <1>0, <3>1 DEF Numbers
        <3>2. CASE d # c
            BY <1>0, <2>1, <3>2 DEF Numbers
        <3> QED
            BY <3>1, <3>2
    <2> QED
        BY <2>1
<1>5. changes' \in Nat
    BY <1>0
<1> QED
    BY <1>0, <1>1, <1>2, <1>3, <1>4, <1>5 DEF Numbers

\* A change through a process, up to its publish.
LEMMA ChangeStep ==
    ASSUME IInv, NEW c \in Req, NEW p \in Proc, NEW kind \in Kind \ {"put"}, NEW ks, NEW r \in Role,
           Change(c, p, kind, ks, r), UNCHANGED bound
    PROVE  IInv'
<1>1. req[c].st = "idle" /\ Statement(kind, ks, r) /\ UNCHANGED <<cache, inflight, answer, bus>>
    BY DEF Change
<1>2. /\ held' \in [Key -> SUBSET Role] /\ roles' \subseteq Role
      /\ changes' = changes + 1 /\ changes \in Nat
      /\ unguarded => unguarded'
      /\ unguarded' \/ \A k \in Key : SysAdmin \in held[k] => SysAdmin \in held'[k]
    BY <1>1, StatementDoes DEF IInv, Numbers
<1>3. PICK m : m = changes'
    OBVIOUS
<1>4. PICK y : y = [Idle EXCEPT !.st = "publish", !.p = p, !.kind = kind, !.n = m]
    OBVIOUS
<1>5. req' = [req EXCEPT ![c] = y]
    BY <1>3, <1>4 DEF Change
<1>6. y \in Local /\ y.st = "publish" /\ y.p = p /\ y.n = m
    <2>1. m \in Nat
        BY <1>2, <1>3
    <2> QED
        BY <1>4, <2>1, IdleType DEF Local
<1>7. Requests' /\ req'[c] = y /\ \A d \in Req : d # c => req'[d] = req[d]
    BY <1>5, <1>6, Goes DEF IInv, Asking
<1>8. Guarded'
    BY <1>2, <1>6, <1>7, GuardedGrows DEF IInv
<1>9. Flights'
    BY <1>1, <1>6, <1>7, FlightsStay DEF IInv, Aloft, Flying
<1>10. Numbers'
    BY <1>1, <1>2, <1>3, <1>6, <1>7, NumbersGrow DEF IInv
<1>11. \A d \in Req : Patient(d)
    BY <1>6, <1>7 DEF Patient, Asking
<1>12. Served'
    BY <1>1, <1>11, ServedStays DEF IInv
<1> QED
    BY <1>7, <1>8, <1>9, <1>10, <1>12 DEF IInv

\* A change by the CLI.
LEMMA ChangeByCliStep ==
    ASSUME IInv, NEW kind \in Kind \ {"put"}, NEW ks, NEW r \in Role,
           ChangeByCli(kind, ks, r), UNCHANGED bound
    PROVE  IInv'
<1>1. Statement(kind, ks, r) /\ UNCHANGED <<cache, inflight, req, answer, bus>>
    BY DEF ChangeByCli
<1>2. /\ held' \in [Key -> SUBSET Role] /\ roles' \subseteq Role
      /\ changes' = changes + 1
      /\ unguarded => unguarded'
      /\ unguarded' \/ \A k \in Key : SysAdmin \in held[k] => SysAdmin \in held'[k]
    BY <1>1, StatementDoes DEF IInv, Numbers
<1>3. Requests'
    BY <1>1 DEF IInv, Requests
<1>4. Guarded'
    BY <1>1, <1>2, GuardedGrows DEF IInv
<1>5. Flights'
    BY <1>1, FlightsStay DEF IInv, Aloft
<1>6. Numbers'
    <2>1. NoReq \in Req \cup {NoReq} /\ NoReq \notin Req
        OBVIOUS
    <2> QED
        BY <1>1, <1>2, <2>1, NumbersGrow DEF IInv
<1>7. \A d \in Req : Patient(d)
    BY <1>1 DEF Patient
<1>8. Served'
    BY <1>1, <1>7, ServedStays DEF IInv
<1> QED
    BY <1>3, <1>4, <1>5, <1>6, <1>8 DEF IInv

\* An editor passes the guard: another system_admin remains, or it is alone no more.
LEMMA PutAdminRolesStep ==
    ASSUME IInv, NEW c \in Req, NEW k \in Key, NEW want \in SUBSET Role, PutAdminRoles(c, k, want),
           UNCHANGED bound
    PROVE  IInv'
<1>1. /\ req[c].st = "idle" /\ SystemAdmins(k, want) # {}
      /\ UNCHANGED <<tables, cache, inflight, answer, bus>>
      /\ unguarded' = (unguarded \/ \E d \in Req : req[d].st = "put")
    BY DEF PutAdminRoles
<1>2. PICK y : y = [Idle EXCEPT !.st = "put", !.k = k, !.want = want]
    OBVIOUS
<1>3. req' = [req EXCEPT ![c] = y]
    BY <1>2 DEF PutAdminRoles
<1>4. y \in Local /\ y.st = "put" /\ y.k = k /\ y.want = want
    BY <1>2, IdleType DEF Local
<1>5. Requests' /\ req'[c] = y /\ \A d \in Req : d # c => req'[d] = req[d]
    BY <1>3, <1>4, Goes DEF IInv, Asking
<1>6. Guarded'
    <2>0. held' \in [Key -> SUBSET Role] /\ roles' \subseteq Role /\ held' = held
        BY <1>1 DEF IInv, Guarded, tables
    <2>1. CASE unguarded \/ \E d \in Req : req[d].st = "put"
        BY <1>1, <2>0, <2>1 DEF Guarded
    <2>2. CASE ~(unguarded \/ \E d \in Req : req[d].st = "put")
        <3>1. \A d \in Req : req'[d].st = "put" => d = c
            BY <1>5, <2>2
        <3>2. \E j \in Key : SysAdmin \in held[j]
            BY <2>2 DEF IInv, Guarded
        <3>3. \A d \in Req : req'[d].st = "put" => SystemAdmins(req[d].k, req[d].want)' # {}
            <4>1. SystemAdmins(req[c].k, req[c].want)' # {}
                BY <1>1, <1>4, <1>5, <2>0 DEF SystemAdmins
            <4> QED
                BY <3>1, <4>1
        <3> QED
            BY <2>0, <3>1, <3>2, <3>3 DEF Guarded
    <2> QED
        BY <2>1, <2>2
<1>7. Flights'
    BY <1>1, <1>4, <1>5, FlightsStay DEF IInv, Aloft, Flying
<1>8. Numbers'
    BY <1>1, <1>4, <1>5, NumbersStay DEF IInv, tables, bus
<1>9. \A d \in Req : Patient(d)
    BY <1>4, <1>5 DEF Patient, Asking
<1>10. Served'
    BY <1>1, <1>9, ServedStays DEF IInv
<1> QED
    BY <1>5, <1>6, <1>7, <1>8, <1>10 DEF IInv

\* An editor commits, or rolls back: the admins it counted are still there.
LEMMA PutCommitStep ==
    ASSUME IInv, NEW c \in Req, PutCommit(c), UNCHANGED bound
    PROVE  IInv'
<1>1. /\ req[c].st = "put" /\ req' = [req EXCEPT ![c] = Idle]
      /\ UNCHANGED <<roles, cache, inflight, answer, bus, unguarded>>
      /\ \/ held' = [held EXCEPT ![req[c].k] = req[c].want] /\ changes' = changes + 1
         \/ UNCHANGED <<held, changes>>
    BY DEF PutCommit
<1>2. Requests' /\ req'[c].st = "idle" /\ \A d \in Req : d # c => req'[d] = req[d]
    BY <1>1, EndsAs DEF IInv
<1>3. /\ req[c].k \in Key /\ req[c].want \in SUBSET Role /\ held \in [Key -> SUBSET Role]
      /\ roles' \subseteq Role
    BY <1>1 DEF IInv, Requests, Local, Guarded
<1>4. held' \in [Key -> SUBSET Role]
    BY <1>1, <1>3
<1>5. Guarded'
    <2>1. CASE unguarded
        BY <1>1, <1>3, <1>4, <2>1 DEF Guarded
    <2>2. CASE ~unguarded
        <3>1. \A d \in Req : req'[d].st # "put"
            BY <1>1, <1>2, <2>2 DEF IInv, Guarded
        <3>2. SystemAdmins(req[c].k, req[c].want) # {} /\ \E j \in Key : SysAdmin \in held[j]
            BY <1>1, <2>2 DEF IInv, Guarded
        <3>3. \E j \in Key : SysAdmin \in held'[j]
            <4>1. CASE held' = held
                BY <3>2, <4>1
            <4>2. CASE held' = [held EXCEPT ![req[c].k] = req[c].want]
                <5>1. PICK a : a \in SystemAdmins(req[c].k, req[c].want)
                    BY <3>2
                <5>2. a \in Key /\ SysAdmin \in held'[a]
                    BY <1>3, <4>2, <5>1 DEF SystemAdmins
                <5> QED
                    BY <5>2
            <4> QED
                BY <1>1, <4>1, <4>2
        <3> QED
            BY <1>3, <1>4, <3>1, <3>3 DEF Guarded
    <2> QED
        BY <2>1, <2>2
<1>6. Flights'
    BY <1>1, <1>2, FlightsStay DEF IInv, Aloft, Flying
<1>7. Numbers'
    <2>1. CASE changes' = changes + 1
        <3>1. NoReq \in Req \cup {NoReq} /\ NoReq \notin Req
            OBVIOUS
        <3>2. \A d \in Req : req'[d] = req[d] \/ req'[d].st # "publish"
            BY <1>2
        <3>3. UNCHANGED bus
            BY <1>1
        <3> QED
            BY <2>1, <3>1, <3>2, <3>3, NumbersGrow DEF IInv
    <2>2. CASE changes' = changes
        BY <1>1, <1>2, <2>2, NumbersStay DEF IInv, bus
    <2> QED
        BY <1>1, <2>1, <2>2
<1>8. \A d \in Req : Patient(d)
    BY <1>2 DEF Patient, Asking
<1>9. Served'
    BY <1>1, <1>8, ServedStays DEF IInv
<1> QED
    BY <1>2, <1>5, <1>6, <1>7, <1>9 DEF IInv

-----------------------------------------------------------------------------
(* The theorems *)

\* At the start one key is system_admin's, and nothing is cached, asked or queued.
LEMMA InitHolds == Init => IInv
<1> SUFFICES ASSUME Init PROVE IInv
    OBVIOUS
<1>1. \A c \in Req : req[c] = Idle /\ req[c].st = "idle"
    BY IdleType DEF Init
<1>2. Requests
    <2>1. bound \in Instance /\ req \in [Req -> Local]
        BY IdleType DEF Init
    <2> QED
        BY <1>1, <2>1 DEF Requests, Asking
<1>3. Guarded
    <2>1. held \in [Key -> SUBSET Role] /\ roles \subseteq Role /\ \E k \in Key : SysAdmin \in held[k]
        BY DEF Init
    <2> QED
        BY <1>1, <2>1 DEF Guarded
<1>4. Flights
    BY <1>1 DEF Init, Flights, Flying
<1>5. Numbers
    <2>1. << >> \in Seq(Nat)
        BY EmptySeq
    <2> QED
        BY <1>1, <2>1 DEF Init, Numbers
<1>6. Served
    <2>1. cache \in [Proc -> [Key -> Entry]] /\ \A p \in Proc, k \in Key : ~cache[p][k].present
        BY LoadType DEF Init
    <2>2. Load.read \in Nat /\ Load.missed \subseteq Nat
        BY LoadType DEF Loaded
    <2>3. Answer({}, Load) = [lost |-> {}, missed |-> {}]
        BY DEF Answer
    <2>4. answer = [c \in Req |-> [lost |-> {}, missed |-> {}]]
        BY <2>3 DEF Init
    <2>5. /\ answer \in [Req -> [lost : SUBSET Nat, missed : SUBSET Nat]]
          /\ \A c \in Req : answer[c].lost \subseteq answer[c].missed
        BY <2>4
    <2> QED
        BY <1>1, <2>1, <2>5 DEF Served, StaleOnlyIfExcused, Asking
<1> QED
    BY <1>2, <1>3, <1>4, <1>5, <1>6 DEF IInv

\* Every step keeps the invariant.
LEMMA NextKeeps == IInv /\ [Next]_vars => IInv'
<1> SUFFICES ASSUME IInv, [Next]_vars PROVE IInv'
    OBVIOUS
<1>0. bound.reqs \subseteq Req /\ bound.procs \subseteq Proc /\ bound.keys \subseteq Key
      /\ bound.kinds \subseteq Kind
    BY BoundSets DEF IInv
<1>1. CASE Next
    <2>0. UNCHANGED bound
        BY <1>1 DEF Next
    <2>1. ASSUME NEW c \in bound.reqs, Request(c) PROVE IInv'
        <3>0. c \in Req
            BY <1>0
        <3>1. ASSUME NEW p \in bound.procs, NEW k \in bound.keys, Get(c, p, k) PROVE IInv'
            <4>1. p \in Proc /\ k \in Key
                BY <1>0
            <4> QED
                BY <2>0, <3>0, <3>1, <4>1, GetStep
        <3>2. CASE Loader(c)
            BY <2>0, <3>0, <3>2, GetOrLoadStep, QueryRolesStep, QueryActionsStep, StoreStep DEF Loader
        <3> QED
            BY <2>0, <2>1, <3>0, <3>1, <3>2, LoadFailsStep, LoaderPanicsStep DEF Request
    <2>2. ASSUME NEW c \in bound.reqs, Admin(c) PROVE IInv'
        <3>0. c \in Req
            BY <1>0
        <3>1. ASSUME NEW p \in bound.procs, NEW kind \in bound.kinds \ {"put"},
                     NEW ks \in {{k} : k \in Key} \cup {Key}, NEW r \in Role, Change(c, p, kind, ks, r)
              PROVE  IInv'
            <4>1. p \in Proc /\ kind \in Kind \ {"put"}
                BY <1>0
            <4> QED
                BY <2>0, <3>0, <3>1, <4>1, ChangeStep
        <3>2. ASSUME NEW k \in Key, NEW want \in SUBSET Role, PutAdminRoles(c, k, want) PROVE IInv'
            BY <2>0, <3>0, <3>2, PutAdminRolesStep
        <3> QED
            BY <2>0, <2>2, <3>0, <3>1, <3>2, PublishStep, AssignReadBackFailsStep, PutCommitStep DEF Admin
    <2>3. ASSUME NEW kind \in bound.kinds \ {"put"}, NEW ks \in {{k} : k \in Key} \cup {Key}, NEW r \in Role,
                 ChangeByCli(kind, ks, r)
          PROVE  IInv'
        <3>1. kind \in Kind \ {"put"}
            BY <1>0
        <3> QED
            BY <2>0, <2>3, <3>1, ChangeByCliStep
    <2>4. ASSUME NEW p \in bound.procs, NEW t \in Kind, Purge(p, t) PROVE IInv'
        <3>1. p \in Proc
            BY <1>0
        <3> QED
            BY <2>0, <2>4, <3>1, PurgeStep
    <2>5. ASSUME NEW p \in bound.procs, NEW k \in bound.keys, Evict(p, k) PROVE IInv'
        <3>1. p \in Proc /\ k \in Key
            BY <1>0
        <3> QED
            BY <2>0, <2>5, <3>1, EvictStep
    <2> QED
        BY <1>1, <2>0, <2>1, <2>2, <2>3, <2>4, <2>5, TickStep DEF Next
<1>2. CASE UNCHANGED vars
    <2>1. UNCHANGED <<bound, tables, inflight, req, answer, bus, unguarded, cache>>
        BY <1>2 DEF vars
    <2>2. cache' \in [Proc -> [Key -> Entry]]
        BY <2>1 DEF IInv, Served
    <2> QED
        BY <2>1, <2>2, CacheOnly
<1> QED
    BY <1>1, <1>2

\* What processes are due to know, who waits for which load, and what an editor
\* has counted, in every reachable state of resolver, bus and role tables.
THEOREM Invariant == Spec => []IInv
<1> QED
    BY InitHolds, NextKeeps, PTL DEF Spec

\* Once the event of a change has been handled, every answer to a request that
\* asks its process afterwards contains it, but for loads that were running
\* during the purge and events that met a full buffer.
THEOREM ServesChanges == Spec => []StaleOnlyIfExcused
<1>1. IInv => StaleOnlyIfExcused
    BY DEF IInv, Served
<1> QED
    BY <1>1, Invariant, PTL

\* The last-admin guard of the role editor keeps a system_admin, as long as two
\* edits do not overlap and the role is not taken away past it.
THEOREM KeepsAnAdmin == Spec => []SystemAdminRemains
<1>1. IInv => SystemAdminRemains
    BY DEF IInv, Guarded, SystemAdminRemains
<1> QED
    BY <1>1, Invariant, PTL

=============================================================================
