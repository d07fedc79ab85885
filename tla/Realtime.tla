------------------------------ MODULE Realtime ------------------------------
(***************************************************************************)
(* Record events on their way to SSE clients: the event bus's queue for    *)
(* the broker (internal/eventbus/eventbus.go), the broker with its resume  *)
(* ring (internal/realtime/realtime.go), the connection handler (sse.go)   *)
(* and clients that reconnect with the Last-Event-ID they have.            *)
(*                                                                         *)
(* fanOut runs on the one goroutine that drains the bus queue.  It numbers *)
(* the event and takes the list of subscriptions under the broker's mutex, *)
(* then enqueues to each of them without it.  Taking a frame from a queue  *)
(* and its arrival at the client are one step: a frame lost with its       *)
(* connection is one the handler had not yet taken.                        *)
(*                                                                         *)
(* "ledger" lists all events ever fanned out, by this process and the ones *)
(* before it; g is an index of it.  A client's cursor is the broker's id,  *)
(* which starts again with every process.                                  *)
(***************************************************************************)
EXTENDS Integers, Sequences, FiniteSets

CONSTANTS
  Client,
  Interest,     \* what each client subscribes to: see InterestType
  RecordEvent,  \* the events that mutations publish
  BusCap,       \* buffer of the broker's bus subscription (256)
  QueueCap,     \* buffer of a subscription (64)
  RingCap,      \* ReplayBufferSize (1000)
  MaxEvents,    \* bound on mutations
  MaxRestarts,  \* bound on restarts of the process
  None

\* "topics" are the <collection>/<verb> topics that the patterns match,
\* "records" the records that the patterns name.
InterestType == [topics: SUBSET {e.topic : e \in RecordEvent},
                 records: SUBSET {e.record : e \in RecordEvent},
                 tenant: {e.tenant : e \in RecordEvent} \cup {None}]

VARIABLES
  published,  \* mutations so far
  bus,        \* the broker's queue on the bus
  epoch,      \* restarts so far
  nextID, ring, ringPos, ringLen,  \* the broker
  fan,        \* the fanOut in progress
  conn,       \* the connection and the subscription of each client
  client,     \* what each client knows
  ledger,     \* history: the events fanned out
  excused     \* history: why a client may lack an event

broker == <<nextID, ring, ringPos, ringLen>>
realtimeVars == <<published, bus, epoch, broker, fan, conn, client, ledger, excused>>

-----------------------------------------------------------------------------

Index == 1..MaxEvents
Entry == [id: Nat, g: Index]
Fan == [entry: Entry, todo: SUBSET Client, full: Client \cup {None}]

ASSUME RealtimeAssumption ==
  /\ Interest \in [Client -> InterestType]
  /\ \A e \in RecordEvent : DOMAIN e = {"topic", "record", "tenant"}
  /\ BusCap \in Nat \ {0}
  /\ QueueCap \in Nat \ {0}
  /\ RingCap \in Nat \ {0}
  /\ MaxEvents \in Nat
  /\ MaxRestarts \in Nat
  /\ None \notin Client \cup Fan

Reason == {"overflow", "record", "cut", "restart"}

\* "truncated" and "start", the length of the ledger when the subscription was
\* registered, are of use until the replay is done.
Conn == [pc: {"off", "replay", "live"}, replay: Seq(Entry), truncated: BOOLEAN,
         queue: Seq(Entry), start: 0..MaxEvents]
Off == [pc |-> "off", replay |-> <<>>, truncated |-> FALSE, queue |-> <<>>, start |-> 0]

\* "cursor" is the Last-Event-ID, from process "epoch".  "base" and "mark" bound
\* the events the client must know of: from its first subscription, or the last
\* gap it was told of, to the latest one received or replayed up to.
ClientState == [cursor: Nat, epoch: Nat, base: 0..MaxEvents, mark: 0..MaxEvents,
                got: SUBSET Index]

TypeOK ==
  /\ published \in 0..MaxEvents
  /\ bus \in Seq(RecordEvent) /\ Len(bus) <= BusCap
  /\ epoch \in 0..MaxRestarts
  /\ nextID \in 0..Len(ledger)
  /\ ring \in [0..(RingCap - 1) -> Entry \cup {None}]
  /\ ringPos \in 0..(RingCap - 1)
  /\ ringLen \in 0..RingCap
  /\ fan \in Fan \cup {None}
  /\ fan # None => fan.full \in fan.todo \cup {None}
  /\ conn \in [Client -> Conn]
  /\ \A c \in Client : Len(conn[c].queue) <= QueueCap
  /\ client \in [Client -> ClientState]
  /\ ledger \in Seq(RecordEvent)
  /\ excused \in [Client -> SUBSET (Index \X Reason)]

RealtimeInit ==
  /\ published = 0
  /\ bus = <<>>
  /\ epoch = 0
  /\ nextID = 0
  /\ ring = [i \in 0..(RingCap - 1) |-> None]
  /\ ringPos = 0
  /\ ringLen = 0
  /\ fan = None
  /\ conn = [c \in Client |-> Off]
  /\ client = [c \in Client |-> [cursor |-> 0, epoch |-> 0, base |-> 0, mark |-> 0,
                                 got |-> {}]]
  /\ ledger = <<>>
  /\ excused = [c \in Client |-> {}]

-----------------------------------------------------------------------------
(* Matching *)

matches(c, e) == e.topic \in Interest[c].topics

\* Mutant: the tenant filter is left out.
TenantUnchecked(c, e) == TRUE

tenantOK(c, e) == Interest[c].tenant = None \/ e.tenant \in {None, Interest[c].tenant}

\* The per-record leg; the ring does not serve it.
Wants(c, e) ==
  tenantOK(c, e) /\ (matches(c, e) \/ e.record \in Interest[c].records)

-----------------------------------------------------------------------------
(* Publishing *)

\* A mutation's event; the bus drops it when the broker's buffer is full.
Publish(e) ==
  /\ published < MaxEvents
  /\ published' = published + 1
  /\ bus' = IF Len(bus) < BusCap THEN Append(bus, e) ELSE bus
  /\ UNCHANGED <<epoch, broker, fan, conn, client, ledger, excused>>

Subscribers == {c \in Client : conn[c].pc # "off"}

AppendToRing(x) ==
  /\ ring' = [ring EXCEPT ![ringPos] = x]
  /\ ringPos' = (ringPos + 1) % RingCap
  /\ ringLen' = IF ringLen < RingCap THEN ringLen + 1 ELSE ringLen

\* The part of fanOut under the mutex.
FanOut ==
  LET g == Len(ledger) + 1
  IN  /\ fan = None
      /\ bus # <<>>
      /\ bus' = Tail(bus)
      /\ ledger' = Append(ledger, Head(bus))
      /\ nextID' = nextID + 1
      /\ AppendToRing([id |-> nextID + 1, g |-> g])
      /\ fan' = IF Subscribers = {} THEN None
                ELSE [entry |-> [id |-> nextID + 1, g |-> g], todo |-> Subscribers,
                      full |-> None]
      /\ UNCHANGED <<published, epoch, conn, client, excused>>

\* What is left of the fan-out without client c.
Without(c) ==
  IF fan = None \/ fan.todo \subseteq {c} THEN None
  ELSE [fan EXCEPT !.todo = @ \ {c}, !.full = IF @ = c THEN None ELSE @]

\* One subscription's turn: skipped, enqueued, or found full.
Enqueue(c) ==
  /\ fan # None
  /\ fan.full = None
  /\ c \in fan.todo
  /\ \/ /\ ~Wants(c, ledger[fan.entry.g])
        /\ fan' = Without(c)
        /\ UNCHANGED conn
     \/ /\ Wants(c, ledger[fan.entry.g])
        /\ Len(conn[c].queue) < QueueCap
        /\ conn' = [conn EXCEPT ![c].queue = Append(@, fan.entry)]
        /\ fan' = Without(c)
     \/ /\ Wants(c, ledger[fan.entry.g])
        /\ Len(conn[c].queue) = QueueCap
        /\ fan' = [fan EXCEPT !.full = c]
        /\ UNCHANGED conn
  /\ UNCHANGED <<published, bus, epoch, broker, client, ledger, excused>>

\* The second half of enqueueOrDrop: the reader may have made room since, and
\* the oldest of what is left is dropped all the same.
DropOldest ==
  LET c == fan.full
      q == conn[c].queue
  IN  /\ fan # None
      /\ c # None
      /\ conn' = [conn EXCEPT ![c].queue =
                    Append(IF q = <<>> THEN q ELSE Tail(q), fan.entry)]
      /\ excused' = [excused EXCEPT ![c] =
                       IF q = <<>> THEN @ ELSE @ \cup {<<Head(q).g, "overflow">>}]
      /\ fan' = Without(c)
      /\ UNCHANGED <<published, bus, epoch, broker, client, ledger>>

-----------------------------------------------------------------------------
(* Connections *)

Oldest == (ringPos - ringLen + RingCap) % RingCap
Buffered == [i \in 1..ringLen |-> ring[(Oldest + i - 1) % RingCap]]

\* Mutant: an event the client has seen is replayed.
AgainMissed(c, since, x) ==
  x.id >= since /\ matches(c, ledger[x.g]) /\ tenantOK(c, ledger[x.g])

Missed(c, since, x) ==
  x.id > since /\ matches(c, ledger[x.g]) /\ tenantOK(c, ledger[x.g])

\* The loop over the ring, oldest entry first.
replaySince(c, since) ==
  LET kept[n \in 0..ringLen] ==
        IF n = 0 THEN <<>>
        ELSE IF Missed(c, since, Buffered[n]) THEN Append(kept[n - 1], Buffered[n])
        ELSE kept[n - 1]
  IN  kept[ringLen]

\* Mutant: off by one.
TruncatedLate(since) == ringLen > 0 /\ since < ring[Oldest].id - 2

Truncated(since) == ringLen > 0 /\ since < ring[Oldest].id - 1

\* A resume that cannot see what it misses: the events before a restart, and
\* those that only the per-record leg would deliver.
Unseen(c) ==
  {g \in (client[c].base + 1)..Len(ledger) :
     Wants(c, ledger[g]) /\ g \notin client[c].got}

ResumeExcuses(c) ==
  IF client[c].epoch # epoch
  THEN Unseen(c) \X {"restart"}
  ELSE {g \in Unseen(c) : ~matches(c, ledger[g])} \X {"record"}

\* SubscribeWithResume: snapshot and registration under the mutex.  A client
\* that has received no id has nothing to resume from.
SubscribeWithResume(c) ==
  LET resume == client[c].cursor > 0
  IN  /\ conn[c].pc = "off"
      /\ conn' = [conn EXCEPT ![c] =
                    [pc |-> "replay", queue |-> <<>>, start |-> Len(ledger),
                     replay |-> IF resume THEN replaySince(c, client[c].cursor) ELSE <<>>,
                     truncated |-> resume /\ Truncated(client[c].cursor)]]
      /\ client' = IF resume THEN client
                   ELSE [client EXCEPT ![c].base = Len(ledger), ![c].mark = Len(ledger),
                                       ![c].epoch = epoch]
      /\ excused' = IF resume THEN [excused EXCEPT ![c] = @ \cup ResumeExcuses(c)]
                    ELSE excused
      /\ UNCHANGED <<published, bus, epoch, broker, fan, ledger>>

Later(a, b) == IF a > b THEN a ELSE b

\* A client that has received frame x, and remembers its id.
Took(k, x) ==
  [k EXCEPT !.cursor = x.id, !.epoch = epoch, !.mark = Later(@, x.g), !.got = @ \cup {x.g}]

Receive(c, x) == client' = [client EXCEPT ![c] = Took(@, x)]

WriteReplay(c) ==
  /\ conn[c].pc = "replay"
  /\ conn[c].replay # <<>>
  /\ Receive(c, Head(conn[c].replay))
  /\ conn' = [conn EXCEPT ![c].replay = Tail(@)]
  /\ UNCHANGED <<published, bus, epoch, broker, fan, ledger, excused>>

\* The replay-truncated marker comes last; then the live loop begins.
ReplayDone(c) ==
  /\ conn[c].pc = "replay"
  /\ conn[c].replay = <<>>
  /\ conn' = [conn EXCEPT ![c] = [@ EXCEPT !.pc = "live", !.truncated = FALSE, !.start = 0]]
  /\ client' = [client EXCEPT ![c].mark = Later(@, conn[c].start),
                              ![c].base = IF conn[c].truncated THEN conn[c].start ELSE @]
  /\ UNCHANGED <<published, bus, epoch, broker, fan, ledger, excused>>

WriteEvent(c) ==
  /\ conn[c].pc = "live"
  /\ conn[c].queue # <<>>
  /\ Receive(c, Head(conn[c].queue))
  /\ conn' = [conn EXCEPT ![c].queue = Tail(@)]
  /\ UNCHANGED <<published, bus, epoch, broker, fan, ledger, excused>>

\* The connection ends and the handler unsubscribes.  A fan-out that has the
\* subscription on its list finds it closed.  A replay cut before its marker
\* has moved the cursor past the gap.
Disconnect(c) ==
  /\ conn[c].pc # "off"
  /\ conn' = [conn EXCEPT ![c] = Off]
  /\ fan' = Without(c)
  /\ excused' = IF conn[c].pc = "replay" /\ conn[c].truncated
                THEN [excused EXCEPT ![c] = @ \cup
                        (((client[c].base + 1)..client[c].mark) \X {"cut"})]
                ELSE excused
  /\ UNCHANGED <<published, bus, epoch, broker, client, ledger>>

\* The process ends and another one starts: queues, ring and ids are gone.
Restart ==
  /\ epoch < MaxRestarts
  /\ epoch' = epoch + 1
  /\ bus' = <<>>
  /\ nextID' = 0
  /\ ring' = [i \in 0..(RingCap - 1) |-> None]
  /\ ringPos' = 0
  /\ ringLen' = 0
  /\ fan' = None
  /\ conn' = [c \in Client |-> Off]
  /\ excused' = [c \in Client |->
                   IF conn[c].pc = "replay" /\ conn[c].truncated
                   THEN excused[c] \cup (((client[c].base + 1)..client[c].mark) \X {"cut"})
                   ELSE excused[c]]
  /\ UNCHANGED <<published, client, ledger>>

-----------------------------------------------------------------------------

Broker == FanOut \/ DropOldest \/ \E c \in Client : Enqueue(c)
SseHandler(c) == WriteReplay(c) \/ ReplayDone(c) \/ WriteEvent(c)

RealtimeNext ==
  \/ \E e \in RecordEvent : Publish(e)
  \/ Broker
  \/ \E c \in Client : SubscribeWithResume(c) \/ SseHandler(c) \/ Disconnect(c)
  \/ Restart

RealtimeSpec == RealtimeInit /\ [][RealtimeNext]_realtimeVars

-----------------------------------------------------------------------------
(* Properties *)

\* Whether a frame of client c has been written in a step.
FrameWritten(c) ==
  /\ conn[c].pc # "off" /\ conn'[c].pc # "off"
  /\ \/ Len(conn'[c].replay) < Len(conn[c].replay)
     \/ Len(conn'[c].queue) < Len(conn[c].queue)

\* Every frame a client gets carries an event fanned out after all those it
\* has: none is repeated or late, over reconnects, replays that race a fan-out,
\* overflows and restarts of the process.
InOrder ==
  [][\A c \in Client : FrameWritten(c) =>
       \E g \in client'[c].got : \A h \in client[c].got : h < g]_realtimeVars

Lacks(c, why) ==
  {g \in (client[c].base + 1)..client[c].mark :
     Wants(c, ledger[g]) /\ g \notin client[c].got
       /\ \A r \in why : <<g, r>> \notin excused[c]}

\* What a client lacks of the events up to the last it received, and was not
\* told of by replay-truncated, it lost in one of four ways: its queue
\* overflowed, it resumed a per-record subscription, its connection broke
\* between a partial replay and the marker, or the process was restarted.
GapsAccounted == \A c \in Client : conn[c].pc # "replay" => Lacks(c, Reason) = {}

\* The ring is shared by all tenants, and replay and live delivery filter it
\* separately: neither hands a tenant's event to a client of another one.
TenantIsolation ==
  \A c \in Client : \A g \in client[c].got :
    Interest[c].tenant # None => ledger[g].tenant \in {None, Interest[c].tenant}
=============================================================================
