-------------------------------- MODULE Audit --------------------------------
(***************************************************************************)
(* The audit log: the legacy hash chain (internal/audit/audit.go), the     *)
(* site and tenant chains of the v3 Store (store.go), the seals (seal.go), *)
(* and the monthly partitions with their archives (archive.go).            *)
(*                                                                         *)
(* Several server processes share one database.  Each keeps the last hash  *)
(* of every chain it writes in memory, under a mutex of its own.           *)
(*                                                                         *)
(* A row is named by its position in `log'.  The rows of the legacy and of *)
(* the site chain stand there in the order of their BIGSERIAL seq, a       *)
(* tenant's in the order in which they became visible: a tenant_seq is read*)
(* by the INSERT before that, at READ COMMITTED and under no unique index. *)
(* SHA-256(prev || canonical row) is injective and a row's id is fresh, so *)
(* the position also stands for the row's hash; Genesis is the hash of 32  *)
(* zero bytes.  Rows are never altered, hence "hash mismatch" never        *)
(* happens and a verifier can only fail on prev_hash.                      *)
(***************************************************************************)
EXTENDS Naturals, Sequences, SequencesExt, FiniteSetsExt

CONSTANTS
    Proc,          \* server processes
    Tenant,        \* tenants that have a chain
    TenantId,      \* their ids, by which Postgres sorts them
    Instances      \* the bounds to explore, see below

(* An instance bounds the rows of all chains together (rows), the calls of *)
(* the legacy Write (writes), the calendar (months) and the failed         *)
(* statements and restarts together (mishaps), and says which processes    *)
(* run and which chains receive events.  TLC explores the instances one    *)
(* after the other, each from its own initial state.                       *)
Instance == [procs : SUBSET Proc, chains : SUBSET ({"site"} \cup Tenant),
             rows : Nat, writes : Nat, months : Nat, mishaps : Nat]

ASSUME AuditAssumption ==
    /\ Tenant \cap {"legacy", "site"} = {}
    /\ TenantId \in [Tenant -> Nat \ {0}]
    /\ \A t, u \in Tenant : TenantId[t] = TenantId[u] => t = u
    /\ Proc \cap Nat = {}
    /\ Instances \subseteq Instance

VARIABLES
    bound,      \* the instance being explored
    log,        \* every row ever inserted, in seq order
    live,       \* positions of the rows still in a table
    head,       \* head[p][c]: what process p keeps of chain c in memory
    waiter,     \* <<p, t>>: a second goroutine waits for p's load of t's head
    orphan,     \* <<p, t, n>>: it holds a chain object dropped after a failed
                \* load; n is the number its INSERT has read, 0 before that
    drawn,      \* drawn[p][t]: the number the INSERT under way has read, or 0
    writing,    \* writing[p]: the legacy Write in flight in process p
    clock,      \* microsecond clock: the next value of `at'
    month,      \* the current month
    parts,      \* the monthly partitions that exist, <<kind, month>>
    seals,      \* the rows of _audit_seals
    staged,     \* archive payloads on disk: <<kind, month>> -> rows
    manifests,  \* the archives whose .seal.json has landed
    archiving,  \* where the audit_archive sweep is
    mishaps     \* failed statements and restarts so far

table == <<log, live>>
lazy == <<waiter, orphan, drawn>>
archive == <<parts, staged, manifests, archiving>>
vars == <<bound, table, head, lazy, writing, clock, month, seals, archive, mishaps>>

Genesis == 0
Chain == {"legacy", "site"} \cup Tenant
Kind == {"site", "tenant"}
Partition == Kind \X (0 .. (bound.months + 1))

KindOf(c) == IF c \in Tenant THEN "tenant" ELSE c

----------------------------------------------------------------------------
(* Rows and chains.                                                        *)

RowsOf(c) == {i \in DOMAIN log : log[i].chain = c}

\* The row of the chain inserted before i.
Predecessor(c, i) == Max({k \in RowsOf(c) : k < i} \cup {Genesis})

\* SELECT hash ... ORDER BY seq DESC LIMIT 1: dropped rows are not seen.
LatestHash(c) == Max((RowsOf(c) \cap live) \cup {Genesis})

\* The same for a tenant, by tenant_seq: any of the rows with the highest number.
TenantHeads(t) ==
    LET rows == RowsOf(t) \cap live
    IN IF rows = {} THEN {Genesis}
       ELSE {i \in rows : \A k \in rows : log[k].seq <= log[i].seq}

\* COALESCE(MAX(tenant_seq), 0) + 1 over the rows still in the table.
NextTenantSeq(c) ==
    Max({log[k].seq : k \in RowsOf(c) \cap live} \cup {0}) + 1

\* What a load leaves in memory.  The last three fields only feed the properties:
\* when the head was read; whether the newest row of the chain had already been
\* dropped with its partition; whether its number was not the highest alone.
Loaded(c, h) ==
    LET newest == Max(RowsOf(c) \cup {Genesis})
    IN [st |-> "ready", hash |-> h, since |-> Len(log),
        behind |-> newest \notin live \cup {Genesis},
        tied |-> \E k \in RowsOf(c) \cap live : k # newest /\ log[k].seq >= log[newest].seq]

Absent == [st |-> "absent", hash |-> Genesis, since |-> 0, behind |-> FALSE, tied |-> FALSE]
Loading == [Absent EXCEPT !.st = "loading"]
Ready(p, c) == head[p][c].st = "ready"

\* The row an INSERT adds.  Rows of a month without a partition land in the
\* _default partition.
NewRow(p, c, prev, at, acked) ==
    [chain |-> c, prev |-> prev, at |-> at, month |-> month,
     seq |-> IF c \in Tenant THEN drawn[p][c] ELSE Len(log) + 1,
     stray |-> c # "legacy" /\ <<KindOf(c), month>> \notin parts,
     by |-> p, acked |-> acked,
     since |-> head[p][c].since, behind |-> head[p][c].behind, tied |-> head[p][c].tied]

\* An INSERT by process p ends: it succeeds and the head advances, it fails, or
\* it is stored and reported as failed (the connection breaks after the
\* commit).  In the last two cases prevHash keeps its value.
Insert(p, c, prev, at) ==
    /\ Len(log) < bound.rows
    /\ \/ /\ log' = Append(log, NewRow(p, c, prev, at, TRUE))
          /\ live' = live \cup {Len(log) + 1}
          /\ head' = [head EXCEPT ![p][c].hash = Len(log) + 1]
          /\ UNCHANGED mishaps
       \/ /\ mishaps < bound.mishaps
          /\ mishaps' = mishaps + 1
          /\ UNCHANGED <<log, live, head>>
       \/ /\ mishaps < bound.mishaps
          /\ mishaps' = mishaps + 1
          /\ log' = Append(log, NewRow(p, c, prev, at, FALSE))
          /\ live' = live \cup {Len(log) + 1}
          /\ UNCHANGED head

----------------------------------------------------------------------------
(* Writers.                                                                *)

\* Write, up to its INSERT: the mutex is taken and `at' is stamped.  The event
\* is later mirrored to the site chain or to its tenant's chain.
WriteBegin(p, dest) ==
    /\ writing[p].stage = "idle"
    /\ clock < bound.writes
    /\ writing' = [writing EXCEPT ![p] = [stage |-> "insert", at |-> clock + 1, dest |-> dest]]
    /\ clock' = clock + 1
    /\ UNCHANGED <<table, head, lazy, month, seals, archive, mishaps>>

\* The INSERT of Write.  An error returns at once: the event is not mirrored.
WriteInsert(p) ==
    /\ writing[p].stage = "insert"
    /\ Insert(p, "legacy", head[p]["legacy"].hash, writing[p].at)
    /\ writing' = [writing EXCEPT ![p].stage = IF mishaps' = mishaps THEN "forward" ELSE "idle"]
    /\ UNCHANGED <<lazy, clock, month, seals, archive>>

\* The INSERT of a tenant's row begins under the mutex of its chain, and reads the
\* number the row will have.
Draw(p, t) ==
    /\ Ready(p, t)
    /\ drawn[p][t] = 0
    /\ Len(log) < bound.rows
    /\ drawn' = [drawn EXCEPT ![p][t] = NextTenantSeq(t)]
    /\ UNCHANGED <<table, head, waiter, orphan, clock, month, seals, archive, mishaps>>

\* forwardToStore: the same event into the v3 Store, errors swallowed.
Forward(p) ==
    LET c == writing[p].dest
    IN  /\ writing[p].stage = "forward"
        /\ \/ /\ c = "site"
              /\ Insert(p, c, head[p][c].hash, 0)
              /\ writing' = [writing EXCEPT ![p].stage = "idle"]
              /\ UNCHANGED <<lazy, clock, month, seals, archive>>
           \/ /\ c \in Tenant
              /\ Draw(p, c)
              /\ writing' = [writing EXCEPT ![p].stage = "mirror"]

\* A caller that writes to the Store itself (WriteSite, WriteTenant and their
\* Entity / ActorOnly wrappers).
StoreWrite(p, c) ==
    /\ UNCHANGED writing
    /\ \/ /\ c = "site"
          /\ Insert(p, c, head[p][c].hash, 0)
          /\ UNCHANGED <<lazy, clock, month, seals, archive>>
       \/ /\ c \in Tenant
          /\ Draw(p, c)

\* The INSERT of a tenant's row ends.
TenantInsert(p, t) ==
    /\ drawn[p][t] # 0
    /\ Insert(p, t, head[p][t].hash, 0)
    /\ drawn' = [drawn EXCEPT ![p][t] = 0]
    /\ writing' = [writing EXCEPT ![p].stage =
                     IF @ = "mirror" /\ writing[p].dest = t THEN "idle" ELSE @]
    /\ UNCHANGED <<waiter, orphan, clock, month, seals, archive>>

\* Mutant: the reserved slot is published without holding its mutex.
LoadBeginUnlocked(p, t) ==
    /\ head[p][t].st = "absent"
    /\ Len(log) < bound.rows
    /\ head' = [head EXCEPT ![p][t] = [Absent EXCEPT !.st = "ready"]]
    /\ UNCHANGED <<table, lazy, writing, clock, month, seals, archive, mishaps>>

\* tenantChainFor, first write for a tenant: reserve the slot, lock it.
LoadBegin(p, t) ==
    /\ head[p][t].st = "absent"
    /\ Len(log) < bound.rows
    /\ head' = [head EXCEPT ![p][t] = Loading]
    /\ UNCHANGED <<table, lazy, writing, clock, month, seals, archive, mishaps>>

\* tenantChainFor, a second goroutine finds the slot and waits for its mutex.
LoadWait(p, t) ==
    /\ head[p][t].st = "loading"
    /\ <<p, t>> \notin waiter
    /\ waiter' = waiter \cup {<<p, t>>}
    /\ UNCHANGED <<table, head, orphan, drawn, writing, clock, month, seals, archive, mishaps>>

\* The SELECT answers: the head is filled in, the waiter proceeds on it.
LoadDone(p, t) ==
    /\ head[p][t].st = "loading"
    /\ \E h \in TenantHeads(t) : head' = [head EXCEPT ![p][t] = Loaded(t, h)]
    /\ waiter' = waiter \ {<<p, t>>}
    /\ UNCHANGED <<table, orphan, drawn, writing, clock, month, seals, archive, mishaps>>

\* The SELECT fails: the slot is deleted so that a retry loads again, and the
\* loader's own event is given up.  The waiter still holds the deleted object,
\* whose prevHash is 32 zero bytes.
LoadFail(p, t) ==
    /\ head[p][t].st = "loading"
    /\ mishaps < bound.mishaps
    /\ mishaps' = mishaps + 1
    /\ head' = [head EXCEPT ![p][t] = Absent]
    /\ waiter' = waiter \ {<<p, t>>}
    /\ orphan' = IF <<p, t>> \in waiter THEN orphan \cup {<<p, t, 0>>} ELSE orphan
    /\ writing' = [writing EXCEPT ![p].stage =
                     IF @ = "forward" /\ writing[p].dest = t THEN "idle" ELSE @]
    /\ UNCHANGED <<table, drawn, clock, month, seals, archive>>

\* WriteTenant of the goroutine left with the deleted object: its INSERT begins.
OrphanDraw(p, t) ==
    /\ <<p, t, 0>> \in orphan
    /\ Len(log) < bound.rows
    /\ orphan' = (orphan \ {<<p, t, 0>>}) \cup {<<p, t, NextTenantSeq(t)>>}
    /\ UNCHANGED <<table, head, waiter, drawn, writing, clock, month, seals, archive, mishaps>>

\* And ends.  The row counts as that of a writer of its own.
OrphanWrite(p, t, n) ==
    /\ n # 0 /\ <<p, t, n>> \in orphan
    /\ Len(log) < bound.rows
    /\ orphan' = orphan \ {<<p, t, n>>}
    /\ log' = Append(log, [NewRow(p, t, Genesis, 0, TRUE) EXCEPT !.by = Len(log) + 1,
                           !.seq = n, !.since = 0, !.behind = FALSE, !.tied = FALSE])
    /\ live' = live \cup {Len(log) + 1}
    /\ UNCHANGED <<head, waiter, drawn, writing, clock, month, seals, archive, mishaps>>

\* Bootstrap and NewStore: what a process holds in memory after its boot.
Booted == [c \in Chain |-> IF c \in Tenant THEN Absent ELSE Loaded(c, LatestHash(c))]

NoneDrawn == [t \in Tenant |-> 0]

\* Process p dies and boots again: whatever it was doing is lost; an INSERT under
\* way that reached the database is one that ended just before.
Restart(p) ==
    /\ mishaps < bound.mishaps
    /\ mishaps' = mishaps + 1
    /\ head' = [head EXCEPT ![p] = Booted]
    /\ waiter' = {w \in waiter : w[1] # p}
    /\ orphan' = {w \in orphan : w[1] # p}
    /\ drawn' = [drawn EXCEPT ![p] = NoneDrawn]
    /\ writing' = [writing EXCEPT ![p].stage = "idle"]
    /\ UNCHANGED <<table, clock, month, seals, archive>>

----------------------------------------------------------------------------
(* Seals: the audit_seal job over the legacy chain.                        *)

\* COALESCE(MAX(range_end), 'epoch')
LastSealed == Max({seals[i].end : i \in DOMAIN seals} \cup {0})

\* Mutant: at >= range_end instead of at > range_end.
UnsealedInclusive == {i \in RowsOf("legacy") : log[i].at >= LastSealed}

Unsealed == {i \in RowsOf("legacy") : log[i].at > LastSealed}

\* SealUnsealed: the unsealed rows come in seq order, the last one gives the
\* head and range_end; it is signed and the seal inserted.  Rows inserted
\* between the SELECT and the INSERT do not change what was read, so the two
\* are one step; a failure leaves nothing behind.
SealUnsealed ==
    /\ Unsealed # {}
    /\ LET first == Min(Unsealed)
           last == Max(Unsealed)
       IN seals' = Append(seals,
                      [start |-> IF seals = <<>> THEN log[first].at ELSE LastSealed,
                       end |-> log[last].at,
                       count |-> Cardinality(Unsealed), head |-> last])
    /\ UNCHANGED <<table, head, lazy, writing, clock, month, archive, mishaps>>

----------------------------------------------------------------------------
(* Partitions and archives of the v3 tables.                               *)

NextMonth ==
    /\ month < bound.months
    /\ month' = month + 1
    /\ UNCHANGED <<table, head, lazy, writing, clock, seals, archive, mishaps>>

InPartition(i, k, m) ==
    /\ log[i].chain # "legacy" /\ KindOf(log[i].chain) = k
    /\ log[i].month = m /\ ~log[i].stray

PartitionRows(k, m) == {i \in live : InPartition(i, k, m)}

\* Postgres refuses a partition whose rows are already in _default.
Blocked(pt) ==
    \E i \in live : /\ log[i].chain # "legacy"
                    /\ <<KindOf(log[i].chain), log[i].month>> = pt
                    /\ log[i].stray

\* The partitions EnsurePartitions wants, in its order.
WantedPartitions ==
    <<<<"site", month>>, <<"tenant", month>>,
      <<"site", month + 1>>, <<"tenant", month + 1>>>>

\* It creates the missing ones up to the first that is refused.
Created ==
    {WantedPartitions[i] : i \in {j \in 1 .. 4 :
        \A k \in 1 .. j : WantedPartitions[k] \in parts \/ ~Blocked(WantedPartitions[k])}}

EnsurePartitions ==
    /\ ~ (Created \subseteq parts)
    /\ parts' = parts \cup Created
    /\ UNCHANGED <<table, head, lazy, writing, clock, month,
                   seals, staged, manifests, archiving, mishaps>>

\* listEligiblePartitions: a past month, old enough.  The retention window is
\* shorter than a month, so within the month after it a partition may or may
\* not be past the cutoff yet.  No seal is asked for.
Eligible == {pt \in parts : pt[2] < month}

\* Mutant: the partition is dropped without waiting for the manifest.
ArchiveStageUnconfirmed(pt) ==
    /\ archiving.stage = "idle"
    /\ pt \in Eligible
    /\ staged' = [staged EXCEPT ![pt] = PartitionRows(pt[1], pt[2])]
    /\ archiving' = [stage |-> "drop", part |-> pt]
    /\ UNCHANGED <<table, head, lazy, writing, clock, month, seals, parts, manifests, mishaps>>

\* archiveOnePartition, up to the rename of the payload.
ArchiveStage(pt) ==
    /\ archiving.stage = "idle"
    /\ pt \in Eligible
    /\ staged' = [staged EXCEPT ![pt] = PartitionRows(pt[1], pt[2])]
    /\ archiving' = [stage |-> "put", part |-> pt]
    /\ UNCHANGED <<table, head, lazy, writing, clock, month,
                   seals, parts, manifests, mishaps>>

\* PutArchive: the manifest lands, with the row count.
ArchivePut ==
    /\ archiving.stage = "put"
    /\ manifests' = manifests \cup {archiving.part}
    /\ archiving' = [archiving EXCEPT !.stage = "drop"]
    /\ UNCHANGED <<table, head, lazy, writing, clock, month, seals, parts, staged, mishaps>>

\* DROP TABLE of the partition.
ArchiveDrop ==
    /\ archiving.stage = "drop"
    /\ live' = live \ PartitionRows(archiving.part[1], archiving.part[2])
    /\ parts' = parts \ {archiving.part}
    /\ archiving' = [archiving EXCEPT !.stage = "idle"]
    /\ UNCHANGED <<log, head, lazy, writing, clock, month,
                   seals, staged, manifests, mishaps>>

\* A step of the sweep fails, or the worker dies in the middle of it.
ArchiveAbort ==
    /\ archiving.stage # "idle"
    /\ mishaps < bound.mishaps
    /\ mishaps' = mishaps + 1
    /\ archiving' = [archiving EXCEPT !.stage = "idle"]
    /\ UNCHANGED <<table, head, lazy, writing, clock, month,
                   seals, parts, staged, manifests>>

----------------------------------------------------------------------------
(* Verifiers.                                                              *)

\* ORDER BY seq, or tenant_id and then tenant_seq.  Rows with the same number come
\* in any order, here in that of their insertion: the properties that walk a chain
\* ask about none.
ChainId(c) == IF c \in Tenant THEN TenantId[c] ELSE 0

RowOrder(k, i) ==
    LET a == ChainId(log[k].chain)
        b == ChainId(log[i].chain)
    IN a < b \/ (a = b /\ (log[k].seq < log[i].seq \/ (log[k].seq = log[i].seq /\ k < i)))

Before(rows, i) == {k \in rows : RowOrder(k, i)}
Previous(rows, i) ==
    CHOOSE k \in Before(rows, i) : \A j \in Before(rows, i) : j = k \/ RowOrder(j, k)

\* The walk every verifier makes: each prev_hash is the hash of the row before
\* it, the first one's is the expected one.
Walk(rows, expected) ==
    \A i \in rows :
        log[i].prev = IF Before(rows, i) = {} THEN expected ELSE Previous(rows, i)

\* Writer.Verify, VerifySite, VerifyTenant: the rows in the table, from genesis.
Verify(c) == Walk(RowsOf(c) \cap live, Genesis)

\* Mutant: every archive is expected to start at the genesis hash.
VerifyArchiveFromGenesis(pt) == Walk(staged[pt], Genesis)

\* VerifyArchive trusts the first row's prev_hash and then walks the file.
VerifyArchive(pt) ==
    \A i \in staged[pt] : Before(staged[pt], i) = {} => Walk(staged[pt], log[i].prev)

----------------------------------------------------------------------------
Init ==
    /\ bound \in Instances
    /\ log = <<>> /\ live = {}
    /\ head = [p \in Proc |-> Booted]
    /\ waiter = {} /\ orphan = {} /\ drawn = [p \in Proc |-> NoneDrawn]
    /\ writing = [p \in Proc |-> [stage |-> "idle", at |-> 0, dest |-> "site"]]
    /\ clock = 0 /\ month = 0
    /\ parts = {}
    /\ seals = <<>>
    /\ staged = [pt \in Partition |-> {}] /\ manifests = {}
    /\ archiving = [stage |-> "idle", part |-> <<"site", 0>>]
    /\ mishaps = 0

Next ==
    /\ \/ \E p \in bound.procs :
            \/ \E c \in bound.chains : WriteBegin(p, c) \/ StoreWrite(p, c)
            \/ WriteInsert(p) \/ Forward(p) \/ Restart(p)
            \/ \E t \in Tenant \cap bound.chains :
                 \/ LoadBegin(p, t) \/ LoadWait(p, t) \/ LoadDone(p, t)
                 \/ LoadFail(p, t) \/ TenantInsert(p, t) \/ OrphanDraw(p, t)
                 \/ \E n \in 1 .. bound.rows : OrphanWrite(p, t, n)
       \/ SealUnsealed
       \/ NextMonth \/ EnsurePartitions
       \/ \E pt \in Partition : ArchiveStage(pt)
       \/ ArchivePut \/ ArchiveDrop \/ ArchiveAbort
    /\ UNCHANGED bound

Spec == Init /\ [][Next]_vars

----------------------------------------------------------------------------
(* Properties.                                                             *)

\* The values the tables and the process memories hold.
TypeOK ==
    /\ \A i \in DOMAIN log :
         /\ log[i].chain \in Chain
         /\ log[i].prev \in 0 .. (i - 1)
         /\ log[i].seq \in 1 .. i
         /\ log[i].at \in 0 .. clock
         /\ log[i].month \in 0 .. month
    /\ live \subseteq DOMAIN log
    /\ \A p \in Proc, c \in Chain :
         /\ head[p][c].hash \in {Genesis} \cup RowsOf(c)
         /\ c \notin Tenant => Ready(p, c)
    /\ waiter \subseteq Proc \X Tenant
    /\ \A w \in orphan : w[1] \in Proc /\ w[2] \in Tenant /\ w[3] \in 0 .. (Len(log) + 1)
    /\ \A p \in Proc, t \in Tenant : drawn[p][t] \in 0 .. (Len(log) + 1)
    /\ parts \cup manifests \subseteq Partition
    /\ \A j \in DOMAIN seals : seals[j].head \in RowsOf("legacy")

\* The row before i in its chain came when i's writer had its head already, and
\* did not move that head: another process had inserted it, or a goroutine with a
\* chain object dropped after a failed load, or it is the writer's own and was
\* reported as failed.
Overtaken(c, i) ==
    LET k == Predecessor(c, i)
    IN k > log[i].since /\ (log[k].by # log[i].by \/ ~log[k].acked)

\* Row i is the first after a load of the head that came when the newest row of
\* the chain was archived already.
LoadedBehind(c, i) ==
    Predecessor(c, i) \in 1 .. log[i].since /\ log[i].behind

\* Or when another row had its number, or a higher one: overlapping INSERTs had
\* drawn them, and the load cannot tell which row is the newest.
LoadedTied(c, i) ==
    Predecessor(c, i) \in 1 .. log[i].since /\ log[i].tied

\* The chain forks only for these three causes, and for the first two always:
\* nothing else that a process does breaks a link.
ChainLinks ==
    \A c \in Chain : \A i \in RowsOf(c) :
        /\ log[i].prev # Predecessor(c, i) =>
              Overtaken(c, i) \/ LoadedBehind(c, i) \/ LoadedTied(c, i)
        /\ Overtaken(c, i) \/ LoadedBehind(c, i) => log[i].prev # Predecessor(c, i)

Sound(c) == \A i \in RowsOf(c) : ~(Overtaken(c, i) \/ LoadedBehind(c, i) \/ LoadedTied(c, i))

\* An audit row is never lost: it is in its table, or in an archive whose
\* manifest has landed, whatever step of the archive sweep failed.
NothingLost ==
    \A i \in DOMAIN log \ live :
        LET pt == <<KindOf(log[i].chain), log[i].month>>
        IN pt \in manifests /\ i \in staged[pt]

\* Row i lies in the range of seal j.
InRange(i, j) ==
    /\ log[i].at <= seals[j].end
    /\ log[i].at > seals[j].start \/ (j = 1 /\ log[i].at = seals[j].start)

\* While the legacy chain is sound, the seals tile it: every row up to the
\* last sealed head lies in the range of exactly one seal, and a seal's
\* row_count is the number of rows in its range.
SealsCover ==
    Sound("legacy") /\ seals # <<>> =>
        /\ \A i \in RowsOf("legacy") : i <= Last(seals).head =>
               Cardinality({j \in DOMAIN seals : InRange(i, j)}) = 1
        /\ \A j \in DOMAIN seals :
               seals[j].count = Cardinality({i \in RowsOf("legacy") : InRange(i, j)})

\* What the verifiers answer about a sound chain.  The live walk fails as soon
\* as the row before a live one has been archived; an archive verifies exactly
\* when all its rows belong to one chain, for VerifyArchive does not start
\* again at the next tenant's rows.
VerdictExact ==
    /\ \A c \in Chain : Sound(c) =>
         (Verify(c) <=> \A i \in RowsOf(c) \cap live :
                           Predecessor(c, i) \in live \cup {Genesis})
    /\ \A pt \in manifests :
         (\A i \in staged[pt] : Sound(log[i].chain)) =>
         (VerifyArchive(pt) <=>
            \A i, k \in staged[pt] : log[i].chain = log[k].chain)
============================================================================
