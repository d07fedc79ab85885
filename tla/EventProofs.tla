---------------------------- MODULE EventProofs ----------------------------
(***************************************************************************)
(* Proofs about the two consumers of the event bus.                        *)
(*                                                                         *)
(* Webhooks, for any webhooks, patterns, publishers, workers, events,      *)
(* deliveries, edits and mishaps: three arguments that hardly touch.  A    *)
(* copied list of subscribers is as old as its Publish (Bus); an event is  *)
(* in one place on its way from the publisher to the rows (Flow); and a    *)
(* run of a delivery job uses up one queueing of it, and is alone unless   *)
(* the sweep or an operator's reset made the job pending again (Rows).     *)
(*                                                                         *)
(* Realtime, for any clients, interests, buffers, events and restarts: the *)
(* ring holds the latest entries (Broad), and what is on its way to a      *)
(* client is in order and accounts for all that the client lacks (Served). *)
(***************************************************************************)
EXTENDS Webhooks, Realtime, FiniteSetTheorems, SequenceTheorems,
        WellFoundedInduction, TLAPS

-----------------------------------------------------------------------------
(* Webhooks *)

Event == [n : Nat, topic : Topic]
Phase == {"up", "removed", "closed", "stopped"}
Publisher == [st : {"idle", "send", "panicked"}, ev : Event \cup {0}, to : BOOLEAN,
              since : Phase \cup {"none"}]
Subscription == [st : Phase, listed : BOOLEAN, open : BOOLEAN, q : Seq(Event)]
Dispatch == [st : {"ready", "insert", "enqueue"}, ev : Nat, todo : SUBSET Hook, d : Nat]
Account == [done : BOOLEAN, found : SUBSET Hook, failed : SUBSET Hook]

Job == [st : {"none", "pending", "running", "completed", "failed", "cancelled"}, attempts : Nat]
Delivery == [hook : Hook, ev : Nat, st : {"pending", "success", "retry", "dead", "gone"},
             job : Job, origin : {"event", "replay"}, received : BOOLEAN, told : Nat,
             reruns : Nat, blind : BOOLEAN]
Run == [st : {"idle", "check", "post", "record", "announce", "finish"}, d : Nat, attempts : Nat,
        outcome : {"none", "success", "retry", "dead", "unread"}]

\* Who has the subscription in its copy made the copy before the Unsubscribe.
Bus ==
    /\ pub \in [Handler -> Publisher] /\ sub \in Subscription
    /\ sub.listed => sub.st = "up"
    /\ \A r \in Handler : pub[r].st = "panicked" => pub[r].to
    /\ \A r \in Handler : pub[r].st # "idle" /\ pub[r].to => pub[r].since = "up"

Sending(r) == pub[r].st = "send"
Busy == disp.st # "ready"

\* Hook h has a row for event n.
HasRow(h, n) == \E d \in DOMAIN dels : dels[d].hook = h /\ dels[d].ev = n /\ dels[d].origin = "event"

\* Every event has a number of its own, is with one publisher, in the queue or at
\* the dispatcher, and is not done before it has been there.
Flow ==
    /\ events \in Nat /\ events <= bound.events
    /\ handled \in [1 .. bound.events -> Account]
    /\ disp \in Dispatch
    /\ \A n \in 1 .. bound.events : handled[n].done => n <= events
    /\ \A r \in Handler : Sending(r) =>
         /\ pub[r].ev \in Event /\ pub[r].ev.n \in 1 .. events /\ ~handled[pub[r].ev.n].done
         /\ Busy => disp.ev # pub[r].ev.n
         /\ \A i \in DOMAIN sub.q : sub.q[i].n # pub[r].ev.n
         /\ \A s \in Handler : Sending(s) /\ pub[s].ev.n = pub[r].ev.n => s = r
    /\ \A i \in DOMAIN sub.q :
         /\ sub.q[i].n \in 1 .. events /\ ~handled[sub.q[i].n].done
         /\ Busy => disp.ev # sub.q[i].n
         /\ \A j \in DOMAIN sub.q : sub.q[j].n = sub.q[i].n => j = i
    /\ Busy => disp.ev \in 1 .. events /\ ~handled[disp.ev].done

\* What the dispatcher found and is through with has its row, or failed.
Matched ==
    /\ Busy => \A h \in handled[disp.ev].found :
         h \in handled[disp.ev].failed \/ h \in disp.todo \/ HasRow(h, disp.ev)
    /\ EachMatchServed

\* The workers at delivery d, and those of them that still owe the announcement,
\* or the error that queues the job again.
At(d) == {w \in Worker : work[w].st # "idle" /\ work[w].d = d}
Owing(d) == {w \in At(d) : ~(work[w].st = "finish" /\ Announced(work[w].outcome))}
Queued(d) == IF dels[d].job.st = "pending" THEN 1 ELSE 0

\* The run of a delivery whose job nobody has made pending again.
LoneRun(d) ==
    /\ \A v, w \in At(d) : v = w
    /\ At(d) # {} => dels[d].job.st \in {"running", "cancelled"}

Told(d) == dels[d].st \in {"success", "gone"}

\* An accepted delivery of which no outcome was lost: the row says so, or is about to.
Accepted(d) ==
    /\ dels[d].job.st \in {"running", "completed", "cancelled"}
    /\ At(d) = {} => Told(d)
    /\ \A w \in At(d) : /\ work[w].outcome = "success"
                        /\ \/ work[w].st = "record"
                           \/ work[w].st \in {"announce", "finish"} /\ Told(d)

RowSound(d) ==
    /\ dels[d].job.st = "none" => dels[d].told = 0 /\ At(d) = {}
    /\ dels[d].told + Cardinality(Owing(d)) + Queued(d) <= 1 + dels[d].reruns
    /\ dels[d].reruns = 0 => LoneRun(d)
    /\ dels[d].st = "success" => dels[d].received
    /\ \A w \in At(d) : /\ work[w].outcome = "success" => dels[d].received
                        /\ work[w].st = "announce" => Announced(work[w].outcome)
    /\ dels[d].reruns = 0 /\ ~dels[d].blind /\ dels[d].received => Accepted(d)

Rows ==
    /\ dels \in Seq(Delivery) /\ work \in [Worker -> Run]
    /\ \A w \in Worker : work[w].st # "idle" => work[w].d \in DOMAIN dels
    /\ \A w \in Worker : work[w].st = "record" => work[w].outcome \in {"success", "retry", "dead"}
    /\ disp.st = "enqueue" => disp.d \in DOMAIN dels /\ dels[disp.d].job.st = "none"
    /\ \A d \in DOMAIN dels : RowSound(d)

WebhooksInv == bound \in Instance /\ Bus /\ Flow /\ Matched /\ Rows

USE WebhooksAssumption

-----------------------------------------------------------------------------
(* Sequences and sets *)

\* Writing one row of the table.
LEMMA SeqSet ==
    ASSUME NEW S, NEW s \in Seq(S), NEW i \in DOMAIN s, NEW x \in S
    PROVE  /\ [s EXCEPT ![i] = x] \in Seq(S)
           /\ DOMAIN [s EXCEPT ![i] = x] = DOMAIN s
           /\ [s EXCEPT ![i] = x][i] = x
           /\ \A j \in DOMAIN s : j # i => [s EXCEPT ![i] = x][j] = s[j]
<1>1. i \in 1 .. Len(s) /\ DOMAIN s = 1 .. Len(s)
    BY LenProperties
<1> QED
    BY <1>1, ExceptSeq

\* Inserting one, or queueing an event.
LEMMA SeqAdd ==
    ASSUME NEW S, NEW s \in Seq(S), NEW x \in S
    PROVE  /\ Append(s, x) \in Seq(S)
           /\ Len(s) \in Nat /\ DOMAIN s = 1 .. Len(s)
           /\ DOMAIN Append(s, x) = DOMAIN s \cup {Len(s) + 1}
           /\ Append(s, x)[Len(s) + 1] = x
           /\ \A j \in DOMAIN s : Append(s, x)[j] = s[j] /\ j # Len(s) + 1
<1>1. Append(s, x) \in Seq(S) /\ Len(Append(s, x)) = Len(s) + 1 /\ Append(s, x)[Len(s) + 1] = x
      /\ \A j \in 1 .. Len(s) : Append(s, x)[j] = s[j]
    BY AppendProperties
<1>2. Len(s) \in Nat /\ DOMAIN s = 1 .. Len(s) /\ DOMAIN Append(s, x) = 1 .. (Len(s) + 1)
    BY <1>1, LenProperties
<1> QED
    BY <1>1, <1>2

\* Taking the first.
LEMMA SeqTake ==
    ASSUME NEW S, NEW s \in Seq(S), s # << >>
    PROVE  /\ Tail(s) \in Seq(S) /\ Head(s) \in S /\ 1 \in DOMAIN s /\ Head(s) = s[1]
           /\ \A j \in DOMAIN Tail(s) : j + 1 \in DOMAIN s /\ j + 1 # 1 /\ Tail(s)[j] = s[j + 1] /\ j \in Nat
<1>1. Len(s) \in Nat \ {0} /\ DOMAIN s = 1 .. Len(s) /\ Head(s) = s[1] /\ Head(s) \in S
    BY EmptySeq, HeadTailProperties, LenProperties
<1>2. /\ Tail(s) \in Seq(S) /\ Len(Tail(s)) = Len(s) - 1 /\ DOMAIN Tail(s) = 1 .. Len(Tail(s))
      /\ \A i \in 1 .. Len(Tail(s)) : Tail(s)[i] = s[i + 1]
    BY HeadTailProperties, LenProperties
<1> QED
    BY <1>1, <1>2

\* The workers at a delivery can be counted.
LEMMA AtFinite == ASSUME NEW d PROVE IsFiniteSet(Owing(d)) /\ Cardinality(Owing(d)) \in Nat
<1>1. Owing(d) \subseteq Worker
    BY DEF At, Owing
<1> QED
    BY <1>1, FS_Subset, FS_CardinalityType

-----------------------------------------------------------------------------
(* What a step that leaves a part alone preserves *)

\* Rows keep what they are about.
Kept ==
    \A d \in DOMAIN dels : /\ d \in DOMAIN dels'
                           /\ dels'[d].hook = dels[d].hook /\ dels'[d].ev = dels[d].ev
                           /\ dels'[d].origin = dels[d].origin

\* So what has a row keeps it.
LEMMA RowsRemain == ASSUME Kept PROVE \A h, n : HasRow(h, n) => HasRow(h, n)'
BY DEF Kept, HasRow

\* What is matched stays matched while the dispatcher rests.
LEMMA MatchedStays ==
    ASSUME Matched, Kept, UNCHANGED <<handled, disp>>
    PROVE  Matched'
<1>1. \A h, n : HasRow(h, n) => HasRow(h, n)'
    BY RowsRemain
<1>2. Busy' => \A h \in handled'[disp'.ev].found :
         h \in handled'[disp'.ev].failed \/ h \in disp'.todo \/ HasRow(h, disp.ev)'
    BY <1>1 DEF Matched, Busy
<1>3. \A n \in DOMAIN handled : handled[n].done =>
         \A h \in handled[n].found \ handled[n].failed : HasRow(h, n)
    BY DEF Matched, EachMatchServed, HasRow
<1>4. \A n \in DOMAIN handled' : handled'[n].done =>
         \A h \in handled'[n].found \ handled'[n].failed : HasRow(h, n)'
    BY <1>1, <1>3
<1> QED
    BY <1>2, <1>4 DEF Matched, EachMatchServed, HasRow

\* Events stay where they are while publishers, queue and dispatcher rest.
LEMMA FlowStays ==
    ASSUME Flow, UNCHANGED <<bound, events, handled, disp, pub, sub>>
    PROVE  Flow'
BY DEF Flow, Busy, Sending

\* So do the copies of the list of subscribers.
LEMMA BusStays ==
    ASSUME Bus, UNCHANGED <<pub, sub>>
    PROVE  Bus'
BY DEF Bus

\* No worker comes to delivery d or goes on with it.
Calm(d) == \A w \in Worker : work'[w].st # "idle" /\ work'[w].d = d => work'[w] = work[w]

\* Nothing happens to delivery d, but that workers leave it, with no outcome to record.
RowCalm(d) ==
    /\ dels'[d] = dels[d]
    /\ Calm(d)
    /\ \A w \in At(d) : work[w].st = "record" => work'[w] = work[w]

\* Who stays is as before, and owes what it owed.
LEMMA CalmStays ==
    ASSUME NEW d, Calm(d)
    PROVE  /\ At(d)' \subseteq At(d) /\ \A w \in At(d)' : work'[w] = work[w]
           /\ Cardinality(Owing(d)') \in Nat /\ Cardinality(Owing(d)') <= Cardinality(Owing(d))
           /\ Cardinality(Owing(d)) \in Nat
<1>1. At(d)' \subseteq At(d) /\ \A w \in At(d)' : work'[w] = work[w]
    BY DEF At, Calm
<1>2. Owing(d)' \subseteq Owing(d)
    BY <1>1 DEF Owing
<1> QED
    BY <1>1, <1>2, AtFinite, FS_Subset, FS_CardinalityType

\* A delivery that workers at most leave stays sound.
LEMMA RowStays ==
    ASSUME NEW d, RowSound(d), RowCalm(d), dels[d] \in Delivery
    PROVE  RowSound(d)'
<1>1. At(d)' \subseteq At(d) /\ \A w \in At(d)' : work'[w] = work[w]
    BY CalmStays DEF RowCalm
<1>2. Cardinality(Owing(d)') \in Nat /\ Cardinality(Owing(d)') <= Cardinality(Owing(d))
      /\ Cardinality(Owing(d)) \in Nat
    BY CalmStays DEF RowCalm
<1>3. Queued(d)' = Queued(d) /\ Queued(d) \in Nat
    BY DEF Queued, RowCalm
<1>4. dels[d].told \in Nat /\ dels[d].reruns \in Nat
    BY DEF Delivery
<1>5. dels'[d].told + Cardinality(Owing(d)') + Queued(d)' <= 1 + dels'[d].reruns
    BY <1>2, <1>3, <1>4 DEF RowSound, RowCalm
<1>6. dels'[d] = dels[d]
    BY DEF RowCalm
<1>7. dels'[d].reruns = 0 => LoneRun(d)'
    BY <1>1, <1>6 DEF RowSound, LoneRun
<1>8. dels'[d].reruns = 0 /\ ~dels'[d].blind /\ dels'[d].received => Accepted(d)'
    <2>1. ASSUME Accepted(d) PROVE Accepted(d)'
        <3>1. \A w \in At(d) : work[w].st = "record" => w \in At(d)'
            BY DEF RowCalm, At
        <3>2. At(d)' = {} => Told(d)
            BY <2>1, <3>1 DEF Accepted
        <3> QED
            BY <1>1, <1>6, <2>1, <3>2 DEF Accepted, Told
    <2> QED
        BY <1>6, <2>1 DEF RowSound
<1> QED
    BY <1>1, <1>5, <1>6, <1>7, <1>8 DEF RowSound

\* So does one of which an outcome is lost.
LEMMA RowBlinded ==
    ASSUME NEW d, RowSound(d), Calm(d), dels[d] \in Delivery, NEW b \in BOOLEAN, b,
           dels'[d] = [dels[d] EXCEPT !.blind = b]
    PROVE  RowSound(d)' /\ dels'[d] \in Delivery
<1>0. PICK x, y : x = dels[d] /\ y = dels'[d]
    OBVIOUS
<1>1. At(d)' \subseteq At(d) /\ \A w \in At(d)' : work'[w] = work[w]
    BY CalmStays
<1>2. Cardinality(Owing(d)') \in Nat /\ Cardinality(Owing(d)') <= Cardinality(Owing(d))
      /\ Cardinality(Owing(d)) \in Nat
    BY CalmStays
<1>3. /\ y \in Delivery /\ y.blind /\ y.job = x.job /\ y.told = x.told /\ y.reruns = x.reruns
      /\ y.st = x.st /\ y.received = x.received /\ x.told \in Nat /\ x.reruns \in Nat
    BY <1>0 DEF Delivery
<1>4. Queued(d)' = Queued(d) /\ Queued(d) \in Nat
    BY <1>0, <1>3 DEF Queued
<1>5. y.told + Cardinality(Owing(d)') + Queued(d)' <= 1 + y.reruns
    BY <1>0, <1>2, <1>3, <1>4 DEF RowSound
<1>6. x.reruns = 0 => LoneRun(d)'
    BY <1>0, <1>1, <1>3 DEF RowSound, LoneRun
<1> QED
    BY <1>0, <1>1, <1>3, <1>5, <1>6 DEF RowSound

\* The bus and the dispatcher move, the rows and the workers do not.
LEMMA RowsStay ==
    ASSUME Rows, UNCHANGED <<dels, work>>, disp'.st = "enqueue" => disp' = disp
    PROVE  Rows'
<1>1. ASSUME NEW d \in DOMAIN dels PROVE RowSound(d)'
    BY RowStays DEF Rows, RowCalm, Calm
<1> QED
    BY <1>1 DEF Rows

-----------------------------------------------------------------------------
(* The event bus *)

\* One publisher moves.
LEMMA PubSet ==
    ASSUME pub \in [Handler -> Publisher], NEW r \in Handler, NEW y \in Publisher,
           pub' = [pub EXCEPT ![r] = y]
    PROVE  pub' \in [Handler -> Publisher] /\ pub'[r] = y /\ \A s \in Handler : s # r => pub'[s] = pub[s]
OBVIOUS

\* A publisher at rest.
LEMMA QuietType == Quiet \in Publisher /\ Quiet.st = "idle"
<1>1. PICK b \in BOOLEAN : b = FALSE
    OBVIOUS
<1>2. Quiet = [st |-> "idle", ev |-> 0, to |-> b, since |-> "none"]
    BY <1>1 DEF Quiet
<1> QED
    BY <1>2 DEF Publisher

\* An event gets the next number, and the list of subscribers is copied.
LEMMA PublishBeginStep ==
    ASSUME WebhooksInv, NEW r \in Handler, NEW topic \in Topic, PublishBegin(r, topic), UNCHANGED bound
    PROVE  WebhooksInv'
<1>1. /\ pub[r].st = "idle" /\ events < bound.events /\ events' = events + 1
      /\ UNCHANGED <<sub, disp, handled, dels, work>>
    BY DEF PublishBegin
<1>2. /\ pub \in [Handler -> Publisher] /\ sub \in Subscription /\ events \in Nat
      /\ handled \in [1 .. bound.events -> Account] /\ bound.events \in Nat
    BY DEF WebhooksInv, Bus, Flow, Instance
<1>3. PICK e : e = [n |-> events + 1, topic |-> topic]
    OBVIOUS
<1>4. e \in Event /\ e.n = events + 1
    BY <1>2, <1>3 DEF Event
<1>5. PICK y : y = [st |-> "send", ev |-> e, to |-> sub.listed, since |-> sub.st]
    OBVIOUS
<1>6. y \in Publisher /\ y.st = "send" /\ y.ev = e /\ y.to = sub.listed /\ y.since = sub.st
    BY <1>2, <1>4, <1>5 DEF Publisher, Subscription
<1>7. pub' = [pub EXCEPT ![r] = y]
    BY <1>3, <1>5 DEF PublishBegin
<1>8. pub' \in [Handler -> Publisher] /\ pub'[r] = y /\ \A s \in Handler : s # r => pub'[s] = pub[s]
    BY <1>2, <1>6, <1>7, PubSet
<1>9. Bus'
    BY <1>1, <1>2, <1>6, <1>8 DEF WebhooksInv, Bus
<1>10. Flow'
    <2>1. /\ events' \in Nat /\ events' <= bound.events /\ 1 .. events \subseteq 1 .. events'
          /\ events + 1 \in 1 .. events' /\ events + 1 \in 1 .. bound.events /\ events + 1 \notin 1 .. events
        BY <1>1, <1>2
    <2>2. \A n \in 1 .. bound.events : handled[n].done => n <= events /\ n <= events'
        BY <1>1, <1>2 DEF WebhooksInv, Flow
    <2>3. ASSUME NEW s \in Handler, Sending(s)'
          PROVE  /\ pub'[s].ev \in Event /\ pub'[s].ev.n \in 1 .. events' /\ ~handled[pub'[s].ev.n].done
                 /\ Busy => disp.ev # pub'[s].ev.n
                 /\ \A i \in DOMAIN sub.q : sub.q[i].n # pub'[s].ev.n
                 /\ \A u \in Handler : Sending(u)' /\ pub'[u].ev.n = pub'[s].ev.n => u = s
        <3>1. CASE s = r
            <4>1. pub'[s].ev = e /\ ~handled[events + 1].done
                BY <1>2, <1>6, <1>8, <2>1, <2>2, <3>1
            <4>2. /\ Busy => disp.ev \in 1 .. events
                  /\ \A i \in DOMAIN sub.q : sub.q[i].n \in 1 .. events
                  /\ \A u \in Handler : Sending(u) => pub[u].ev.n \in 1 .. events
                BY DEF WebhooksInv, Flow
            <4>3. \A u \in Handler : Sending(u)' /\ u # r => pub'[u].ev.n \in 1 .. events
                BY <1>8, <4>2 DEF Sending
            <4> QED
                BY <1>4, <2>1, <3>1, <4>1, <4>2, <4>3
        <3>2. CASE s # r
            <4>1. Sending(s) /\ pub'[s] = pub[s]
                BY <1>8, <2>3, <3>2 DEF Sending
            <4>2. /\ pub[s].ev \in Event /\ pub[s].ev.n \in 1 .. events /\ ~handled[pub[s].ev.n].done
                  /\ Busy => disp.ev # pub[s].ev.n
                  /\ \A i \in DOMAIN sub.q : sub.q[i].n # pub[s].ev.n
                  /\ \A u \in Handler : Sending(u) /\ pub[u].ev.n = pub[s].ev.n => u = s
                BY <4>1 DEF WebhooksInv, Flow
            <4>3. pub'[r].ev.n = events + 1
                BY <1>4, <1>6, <1>8
            <4>4. \A u \in Handler : u # r /\ Sending(u)' => Sending(u) /\ pub'[u] = pub[u]
                BY <1>8 DEF Sending
            <4> QED
                BY <2>1, <4>1, <4>2, <4>3, <4>4
        <3> QED
            BY <3>1, <3>2
    <2>4. \A i \in DOMAIN sub.q :
             /\ sub.q[i].n \in 1 .. events' /\ ~handled[sub.q[i].n].done
             /\ Busy => disp.ev # sub.q[i].n
             /\ \A j \in DOMAIN sub.q : sub.q[j].n = sub.q[i].n => j = i
        BY <2>1 DEF WebhooksInv, Flow
    <2>5. Busy => disp.ev \in 1 .. events' /\ ~handled[disp.ev].done
        BY <2>1 DEF WebhooksInv, Flow
    <2>6. disp \in Dispatch /\ (Busy' <=> Busy)
        BY <1>1 DEF WebhooksInv, Flow, Busy
    <2> HIDE <1>7
    <2> QED
        BY <1>1, <1>2, <2>1, <2>2, <2>3, <2>4, <2>5, <2>6 DEF Flow
<1>11. Matched'
    BY <1>1, MatchedStays DEF WebhooksInv, Kept
<1>12. Rows'
    BY <1>1, RowsStay DEF WebhooksInv
<1> QED
    BY <1>9, <1>10, <1>11, <1>12 DEF WebhooksInv

\* The send: queued, dropped, or on a closed channel.
LEMMA PublishSendStep ==
    ASSUME WebhooksInv, NEW r \in Handler, PublishSend(r), UNCHANGED bound
    PROVE  WebhooksInv'
<1>1. /\ pub[r].st = "send"
      /\ UNCHANGED <<events, disp, handled, dels, work>>
    BY DEF PublishSend
<1>2. /\ pub \in [Handler -> Publisher] /\ sub \in Subscription /\ sub.q \in Seq(Event)
      /\ pub[r].ev \in Event
    BY <1>1 DEF WebhooksInv, Bus, Flow, Sending, Subscription
<1>3. Matched' /\ Rows'
    <2>1. Matched'
        BY <1>1, MatchedStays DEF WebhooksInv, Kept
    <2>2. Rows'
        BY <1>1, RowsStay DEF WebhooksInv
    <2> QED
        BY <2>1, <2>2
<1>4. ASSUME NEW y \in Publisher, y.st # "send", pub' = [pub EXCEPT ![r] = y],
             y.st = "panicked" => y.to /\ pub[r].to /\ y.since = pub[r].since
      PROVE  /\ pub' \in [Handler -> Publisher]
             /\ \A s \in Handler : pub'[s].st = "panicked" => pub'[s].to
             /\ \A s \in Handler : pub'[s].st # "idle" /\ pub'[s].to => pub'[s].since = "up"
             /\ \A s \in Handler : Sending(s)' => s # r /\ Sending(s) /\ pub'[s] = pub[s]
    <2>1. pub' \in [Handler -> Publisher] /\ pub'[r] = y /\ \A s \in Handler : s # r => pub'[s] = pub[s]
        BY <1>2, <1>4, PubSet
    <2>2. y.st = "panicked" => y.since = "up" /\ y.to
        BY <1>1, <1>4 DEF WebhooksInv, Bus
    <2>3. y.st \in {"idle", "panicked"}
        BY <1>4 DEF Publisher
    <2>4. \A s \in Handler : Sending(s)' => s # r /\ Sending(s) /\ pub'[s] = pub[s]
        BY <1>4, <2>1 DEF Sending
    <2>5. \A s \in Handler : s # r => /\ pub'[s].st = "panicked" => pub'[s].to
                                      /\ pub'[s].st # "idle" /\ pub'[s].to => pub'[s].since = "up"
        BY <2>1 DEF WebhooksInv, Bus
    <2>6. /\ pub'[r].st = "panicked" => pub'[r].to
          /\ pub'[r].st # "idle" /\ pub'[r].to => pub'[r].since = "up"
        BY <2>1, <2>2, <2>3
    <2> QED
        BY <2>1, <2>4, <2>5, <2>6
<1>5. CASE /\ sub' = [sub EXCEPT !.q = Append(@, pub[r].ev)]
           /\ pub' = [pub EXCEPT ![r] = Quiet]
    <2>1. PICK e, q : e = pub[r].ev /\ q = sub.q
        OBVIOUS
    <2>2. /\ sub' \in Subscription /\ sub'.listed = sub.listed /\ sub'.st = sub.st
          /\ sub'.q = Append(q, e)
        <3>1. Append(q, e) \in Seq(Event) /\ sub' = [sub EXCEPT !.q = Append(q, e)]
            BY <1>2, <1>5, <2>1, SeqAdd
        <3> QED
            BY <1>2, <3>1 DEF Subscription
    <2>3. /\ pub' \in [Handler -> Publisher]
          /\ \A s \in Handler : pub'[s].st = "panicked" => pub'[s].to
          /\ \A s \in Handler : pub'[s].st # "idle" /\ pub'[s].to => pub'[s].since = "up"
          /\ \A s \in Handler : Sending(s)' => s # r /\ Sending(s) /\ pub'[s] = pub[s]
        BY <1>4, <1>5, QuietType
    <2>4. Bus'
        BY <2>2, <2>3 DEF WebhooksInv, Bus
    <2>5. Flow'
        <3>0. /\ q \in Seq(Event) /\ e \in Event
              /\ DOMAIN Append(q, e) = DOMAIN q \cup {Len(q) + 1} /\ Append(q, e)[Len(q) + 1] = e
              /\ \A j \in DOMAIN q : Append(q, e)[j] = q[j] /\ j # Len(q) + 1
            BY <1>2, <2>1, SeqAdd
        <3>1. /\ e.n \in 1 .. events /\ ~handled[e.n].done /\ (Busy => disp.ev # e.n)
              /\ \A i \in DOMAIN q : q[i].n # e.n
              /\ \A s \in Handler : Sending(s) /\ pub[s].ev.n = e.n => s = r
            BY <1>1, <2>1 DEF WebhooksInv, Flow, Sending
        <3>2. ASSUME NEW s \in Handler, Sending(s)'
              PROVE  /\ pub'[s].ev \in Event /\ pub'[s].ev.n \in 1 .. events /\ ~handled[pub'[s].ev.n].done
                     /\ Busy => disp.ev # pub'[s].ev.n
                     /\ \A i \in DOMAIN Append(q, e) : Append(q, e)[i].n # pub'[s].ev.n
                     /\ \A u \in Handler : Sending(u)' /\ pub'[u].ev.n = pub'[s].ev.n => u = s
            <4>1. s # r /\ Sending(s) /\ pub'[s] = pub[s]
                BY <2>3, <3>2
            <4>2. /\ pub[s].ev \in Event /\ pub[s].ev.n \in 1 .. events /\ ~handled[pub[s].ev.n].done
                  /\ Busy => disp.ev # pub[s].ev.n
                  /\ \A i \in DOMAIN q : q[i].n # pub[s].ev.n
                  /\ \A u \in Handler : Sending(u) /\ pub[u].ev.n = pub[s].ev.n => u = s
                BY <2>1, <4>1 DEF WebhooksInv, Flow
            <4>3. e.n # pub[s].ev.n
                BY <3>1, <4>1
            <4>4. \A i \in DOMAIN Append(q, e) : Append(q, e)[i].n # pub[s].ev.n
                BY <3>0, <4>2, <4>3
            <4>5. \A u \in Handler : Sending(u)' => Sending(u) /\ pub'[u] = pub[u]
                BY <2>3
            <4> QED
                BY <4>1, <4>2, <4>4, <4>5
        <3>3. \A i \in DOMAIN q :
                 /\ q[i].n \in 1 .. events /\ ~handled[q[i].n].done
                 /\ Busy => disp.ev # q[i].n
                 /\ \A j \in DOMAIN q : q[j].n = q[i].n => j = i
            BY <2>1 DEF WebhooksInv, Flow
        <3>4. \A i \in DOMAIN Append(q, e) :
                 /\ Append(q, e)[i].n \in 1 .. events /\ ~handled[Append(q, e)[i].n].done
                 /\ Busy => disp.ev # Append(q, e)[i].n
            BY <3>0, <3>1, <3>3
        <3>5. \A i, j \in DOMAIN Append(q, e) : Append(q, e)[j].n = Append(q, e)[i].n => j = i
            BY <3>0, <3>1, <3>3
        <3>6. /\ events \in Nat /\ events <= bound.events /\ handled \in [1 .. bound.events -> Account]
              /\ disp \in Dispatch /\ (Busy' <=> Busy)
              /\ \A n \in 1 .. bound.events : handled[n].done => n <= events
              /\ Busy => disp.ev \in 1 .. events /\ ~handled[disp.ev].done
              /\ UNCHANGED <<events, disp, handled>>
            BY <1>1 DEF WebhooksInv, Flow, Busy
        <3> HIDE <1>5
        <3> QED
            BY <2>2, <3>2, <3>4, <3>5, <3>6 DEF Flow
    <2> QED
        BY <1>3, <2>4, <2>5 DEF WebhooksInv
<1>6. ASSUME UNCHANGED sub,
             /\ pub' \in [Handler -> Publisher]
             /\ \A s \in Handler : pub'[s].st = "panicked" => pub'[s].to
             /\ \A s \in Handler : pub'[s].st # "idle" /\ pub'[s].to => pub'[s].since = "up"
             /\ \A s \in Handler : Sending(s)' => s # r /\ Sending(s) /\ pub'[s] = pub[s]
      PROVE  WebhooksInv'
    <2>1. Bus'
        BY <1>6 DEF WebhooksInv, Bus
    <2>2. Flow'
        <3>1. (Busy' <=> Busy) /\ UNCHANGED <<events, disp, handled, sub>>
            BY <1>1, <1>6 DEF Busy
        <3>2. \A s \in Handler : Sending(s)' => Sending(s) /\ pub'[s] = pub[s]
            BY <1>6
        <3> HIDE <1>6
        <3> QED
            BY <3>1, <3>2 DEF WebhooksInv, Flow
    <2> QED
        BY <1>3, <2>1, <2>2 DEF WebhooksInv
<1>7. CASE pub' = [pub EXCEPT ![r] = Quiet] /\ UNCHANGED sub
    BY <1>4, <1>6, <1>7, QuietType
<1>8. CASE pub[r].to /\ pub' = [pub EXCEPT ![r].st = "panicked"] /\ UNCHANGED sub
    <2>1. PICK y : y = [pub[r] EXCEPT !.st = "panicked"]
        OBVIOUS
    <2>2. y \in Publisher /\ y.st = "panicked" /\ y.to = pub[r].to /\ y.since = pub[r].since
        BY <1>2, <2>1 DEF Publisher
    <2>3. pub' = [pub EXCEPT ![r] = y]
        BY <1>2, <1>8, <2>1
    <2>4. /\ pub' \in [Handler -> Publisher]
          /\ \A s \in Handler : pub'[s].st = "panicked" => pub'[s].to
          /\ \A s \in Handler : pub'[s].st # "idle" /\ pub'[s].to => pub'[s].since = "up"
          /\ \A s \in Handler : Sending(s)' => s # r /\ Sending(s) /\ pub'[s] = pub[s]
        BY <1>4, <1>8, <2>2, <2>3
    <2> QED
        BY <1>6, <1>8, <2>4
<1> QED
    BY <1>5, <1>7, <1>8 DEF PublishSend

\* Shutdown: out of the list, then closed, then stopped.
LEMMA ShutdownStep ==
    ASSUME WebhooksInv, Unsubscribe \/ UnsubscribeReturns, UNCHANGED bound
    PROVE  WebhooksInv'
<1>1. UNCHANGED <<pub, events, disp, handled, dels, work>>
    BY DEF Unsubscribe, UnsubscribeReturns
<1>2. sub' \in Subscription /\ sub'.q = sub.q /\ (sub'.listed => sub'.st = "up")
    <2>1. sub \in Subscription /\ (sub.listed => sub.st = "up")
        BY DEF WebhooksInv, Bus
    <2>2. PICK b \in BOOLEAN : b = FALSE
        OBVIOUS
    <2>3. CASE sub' = [sub EXCEPT !.st = "removed", !.listed = b]
        BY <2>1, <2>2, <2>3 DEF Subscription, Phase
    <2>4. CASE sub.st = "removed" /\ sub' = [sub EXCEPT !.st = "closed", !.open = b]
        BY <2>1, <2>2, <2>4 DEF Subscription, Phase
    <2>5. CASE sub.st = "closed" /\ sub' = [sub EXCEPT !.st = "stopped"]
        BY <2>1, <2>5 DEF Subscription, Phase
    <2> QED
        BY <2>2, <2>3, <2>4, <2>5 DEF Unsubscribe, UnsubscribeReturns
<1>3. Bus'
    BY <1>1, <1>2 DEF WebhooksInv, Bus
<1>4. Flow'
    BY <1>1, <1>2 DEF WebhooksInv, Flow, Busy, Sending
<1>5. Matched'
    BY <1>1, MatchedStays DEF WebhooksInv, Kept
<1>6. Rows'
    BY <1>1, RowsStay DEF WebhooksInv
<1> QED
    BY <1>3, <1>4, <1>5, <1>6 DEF WebhooksInv

-----------------------------------------------------------------------------
(* Moving one part *)

\* The dispatcher moves within an event.
LEMMA FlowMoves ==
    ASSUME Flow, UNCHANGED <<bound, events, pub, sub>>, disp' \in Dispatch, disp'.ev = disp.ev,
           Busy, Busy', handled' \in [1 .. bound.events -> Account],
           \A n \in 1 .. bound.events : handled'[n].done = handled[n].done, bound.events \in Nat
    PROVE  Flow'
<1>1. events \in Nat /\ events <= bound.events /\ 1 .. events \subseteq 1 .. bound.events
    BY DEF Flow
<1>2. \A r \in Handler : Sending(r)' <=> Sending(r)
    BY DEF Sending
<1> QED
    BY <1>1, <1>2 DEF Flow

\* One row is written, and the workers at other rows at most leave.
LEMMA RowsMove ==
    ASSUME Rows, NEW d \in DOMAIN dels, NEW y \in Delivery, dels' = [dels EXCEPT ![d] = y],
           y.hook = dels[d].hook, y.ev = dels[d].ev, y.origin = dels[d].origin,
           work' \in [Worker -> Run],
           \A w \in Worker : work'[w] = work[w] \/
              ((work[w].st # "idle" => work[w].d = d) /\ (work'[w].st # "idle" => work'[w].d = d)),
           \A w \in Worker : work'[w].st = "record" => work'[w].outcome \in {"success", "retry", "dead"},
           disp'.st = "enqueue" => disp' = disp /\ (disp.d = d => y.job.st = "none"),
           dels'[d] = y => RowSound(d)'
    PROVE  Rows' /\ Kept
<1>1. /\ dels' \in Seq(Delivery) /\ DOMAIN dels' = DOMAIN dels /\ dels'[d] = y
      /\ \A j \in DOMAIN dels : j # d => dels'[j] = dels[j]
    BY SeqSet DEF Rows
<1>2. ASSUME NEW j \in DOMAIN dels, j # d PROVE RowSound(j)'
    <2>1. RowCalm(j)
        BY <1>1, <1>2 DEF RowCalm, Calm, At
    <2>2. RowSound(j) /\ dels[j] \in Delivery
        BY DEF Rows
    <2> QED
        BY <2>1, <2>2, RowStays
<1>3. \A j \in DOMAIN dels' : RowSound(j)'
    BY <1>1, <1>2
<1>4. \A w \in Worker : work'[w].st # "idle" => work'[w].d \in DOMAIN dels'
    BY <1>1 DEF Rows
<1>5. disp'.st = "enqueue" => disp'.d \in DOMAIN dels' /\ dels'[disp'.d].job.st = "none"
    BY <1>1 DEF Rows
<1>6. Kept
    BY <1>1 DEF Kept
<1> QED
    BY <1>1, <1>3, <1>4, <1>5, <1>6 DEF Rows

\* A new row is sound: it has no job, and no worker is at it.
LEMMA NewType ==
    ASSUME NEW h \in Hook, NEW n \in Nat, NEW o \in {"event", "replay"}
    PROVE  /\ NewDelivery(h, n, o) \in Delivery
           /\ NewDelivery(h, n, o).job.st = "none" /\ NewDelivery(h, n, o).told = 0
           /\ NewDelivery(h, n, o).reruns = 0 /\ NewDelivery(h, n, o).st = "pending"
           /\ ~NewDelivery(h, n, o).received
           /\ NewDelivery(h, n, o).hook = h /\ NewDelivery(h, n, o).ev = n
           /\ NewDelivery(h, n, o).origin = o
<1>1. PICK b \in BOOLEAN : b = FALSE
    OBVIOUS
<1>2. PICK j : j = NoJob
    OBVIOUS
<1>3. j \in Job /\ j.st = "none"
    BY <1>2 DEF Job, NoJob
<1>4. NewDelivery(h, n, o) = [hook |-> h, ev |-> n, st |-> "pending", job |-> j, origin |-> o,
                              received |-> b, told |-> 0, reruns |-> 0, blind |-> b]
    BY <1>1, <1>2 DEF NewDelivery
<1> QED
    BY <1>1, <1>3, <1>4 DEF Delivery

\* A row is appended.
LEMMA RowsGrow ==
    ASSUME Rows, UNCHANGED work, NEW h \in Hook, NEW n \in Nat, NEW o \in {"event", "replay"},
           dels' = Append(dels, NewDelivery(h, n, o))
    PROVE  /\ Kept /\ dels' \in Seq(Delivery) /\ Len(dels) + 1 \in DOMAIN dels'
           /\ dels'[Len(dels) + 1] = NewDelivery(h, n, o) /\ Len(dels) \in Nat
           /\ \A d \in DOMAIN dels : d \in DOMAIN dels' /\ dels'[d] = dels[d]
           /\ \A d \in DOMAIN dels' : RowSound(d)'
<1>1. PICK x, m : x = NewDelivery(h, n, o) /\ m = Len(dels) + 1
    OBVIOUS
<1>2. /\ x \in Delivery /\ x.job.st = "none" /\ x.told = 0 /\ x.reruns = 0 /\ x.st = "pending"
      /\ ~x.received
    BY <1>1, NewType
<1>3. /\ dels' \in Seq(Delivery) /\ Len(dels) \in Nat /\ DOMAIN dels = 1 .. Len(dels)
      /\ DOMAIN dels' = DOMAIN dels \cup {m} /\ dels'[m] = x
      /\ \A d \in DOMAIN dels : dels'[d] = dels[d] /\ d # m
    BY <1>1, <1>2, SeqAdd DEF Rows
<1>4. ASSUME NEW d \in DOMAIN dels PROVE RowSound(d)'
    <2>1. RowCalm(d)
        BY <1>3 DEF RowCalm, Calm
    <2>2. RowSound(d) /\ dels[d] \in Delivery
        BY DEF Rows
    <2> QED
        BY <2>1, <2>2, RowStays
<1>5. RowSound(m)'
    <2>1. At(m)' = {}
        BY <1>3 DEF At, Rows
    <2>2. Cardinality(Owing(m)') = 0 /\ Queued(m)' = 0
        <3>1. Owing(m)' = {}
            BY <2>1 DEF Owing
        <3> QED
            BY <1>2, <1>3, <3>1, FS_EmptySet DEF Queued
    <2>3. LoneRun(m)'
        BY <2>1 DEF LoneRun
    <2> QED
        BY <1>2, <1>3, <2>1, <2>2, <2>3 DEF RowSound
<1>6. Kept
    BY <1>3 DEF Kept
<1> QED
    BY <1>1, <1>3, <1>4, <1>5, <1>6

-----------------------------------------------------------------------------
(* The dispatcher *)

\* dispatch takes the head of the queue and finds its webhooks, or loses it.
LEMMA DispatchListStep ==
    ASSUME WebhooksInv, DispatchList, UNCHANGED bound
    PROVE  WebhooksInv'
<1>1. PICK q, e, hs : q = sub.q /\ e = Head(q) /\ hs = Matching(e.topic)
    OBVIOUS
<1>2. /\ disp.st = "ready" /\ q # << >> /\ sub' = [sub EXCEPT !.q = Tail(q)]
      /\ UNCHANGED <<pub, events, dels, work>>
    BY <1>1 DEF DispatchList
<1>3. /\ sub \in Subscription /\ q \in Seq(Event) /\ bound.events \in Nat /\ hs \in SUBSET Hook
      /\ handled \in [1 .. bound.events -> Account]
    BY <1>1 DEF WebhooksInv, Bus, Flow, Instance, Subscription, Matching
<1>4. /\ Tail(q) \in Seq(Event) /\ e \in Event /\ 1 \in DOMAIN q /\ e = q[1]
      /\ \A j \in DOMAIN Tail(q) : j + 1 \in DOMAIN q /\ j + 1 # 1 /\ Tail(q)[j] = q[j + 1] /\ j \in Nat
    BY <1>1, <1>2, <1>3, SeqTake
<1>5. sub' \in Subscription /\ sub'.listed = sub.listed /\ sub'.st = sub.st /\ sub'.q = Tail(q)
    BY <1>2, <1>3, <1>4 DEF Subscription
<1>6. Bus'
    BY <1>2, <1>5 DEF WebhooksInv, Bus
<1>7. /\ events \in Nat /\ events <= bound.events /\ ~Busy
      /\ e.n \in 1 .. events /\ ~handled[e.n].done /\ e.n \in 1 .. bound.events
      /\ \A r \in Handler : Sending(r) => pub[r].ev.n # e.n
      /\ \A j \in DOMAIN Tail(q) : /\ Tail(q)[j].n \in 1 .. events /\ ~handled[Tail(q)[j].n].done
                                   /\ Tail(q)[j].n # e.n
                                   /\ \A i \in DOMAIN Tail(q) : Tail(q)[i].n = Tail(q)[j].n => i = j
      /\ \A r \in Handler, j \in DOMAIN Tail(q) : Sending(r) => pub[r].ev.n # Tail(q)[j].n
    <2>1. /\ events \in Nat /\ events <= bound.events
          /\ \A i \in DOMAIN q : /\ q[i].n \in 1 .. events /\ ~handled[q[i].n].done
                                 /\ \A j \in DOMAIN q : q[j].n = q[i].n => j = i
          /\ \A r \in Handler, i \in DOMAIN q : Sending(r) => pub[r].ev.n # q[i].n
        BY <1>1 DEF WebhooksInv, Flow
    <2>2. ~Busy /\ e.n \in 1 .. events /\ ~handled[e.n].done /\ \A r \in Handler : Sending(r) => pub[r].ev.n # e.n
        BY <1>2, <1>4, <2>1 DEF Busy
    <2>3. e.n \in 1 .. bound.events
        BY <1>3, <2>1, <2>2
    <2>4. \A j \in DOMAIN Tail(q) : /\ Tail(q)[j].n \in 1 .. events /\ ~handled[Tail(q)[j].n].done
                                    /\ Tail(q)[j].n # e.n
        BY <1>4, <2>1
    <2>5. \A j, i \in DOMAIN Tail(q) : Tail(q)[i].n = Tail(q)[j].n => i = j
        BY <1>4, <2>1
    <2>6. \A r \in Handler, j \in DOMAIN Tail(q) : Sending(r) => pub[r].ev.n # Tail(q)[j].n
        BY <1>4, <2>1
    <2> QED
        BY <2>1, <2>2, <2>3, <2>4, <2>5, <2>6
<1>8. ASSUME disp' \in Dispatch, Busy' => disp'.ev = e.n,
             handled' \in [1 .. bound.events -> Account],
             \A n \in 1 .. bound.events : handled'[n].done = handled[n].done
      PROVE  Flow'
    <2>1. /\ \A r \in Handler : Sending(r)' <=> Sending(r)
          /\ 1 .. events \subseteq 1 .. bound.events
        BY <1>2, <1>3, <1>7 DEF Sending
    <2>2. \A n \in 1 .. events : ~handled[n].done => ~handled'[n].done
        BY <1>8, <2>1
    <2>3. \A r \in Handler : Sending(r) =>
             /\ pub[r].ev \in Event /\ pub[r].ev.n \in 1 .. events /\ ~handled[pub[r].ev.n].done
             /\ \A s \in Handler : Sending(s) /\ pub[s].ev.n = pub[r].ev.n => s = r
        BY DEF WebhooksInv, Flow
    <2>4. \A r \in Handler : Sending(r)' =>
             /\ pub'[r].ev \in Event /\ pub'[r].ev.n \in 1 .. events' /\ ~handled'[pub'[r].ev.n].done
             /\ Busy' => disp'.ev # pub'[r].ev.n
             /\ \A i \in DOMAIN sub'.q : sub'.q[i].n # pub'[r].ev.n
             /\ \A s \in Handler : Sending(s)' /\ pub'[s].ev.n = pub'[r].ev.n => s = r
        BY <1>2, <1>5, <1>7, <1>8, <2>1, <2>2, <2>3
    <2>5. \A i \in DOMAIN sub'.q :
             /\ sub'.q[i].n \in 1 .. events' /\ ~handled'[sub'.q[i].n].done
             /\ Busy' => disp'.ev # sub'.q[i].n
             /\ \A j \in DOMAIN sub'.q : sub'.q[j].n = sub'.q[i].n => j = i
        BY <1>2, <1>5, <1>7, <1>8, <2>2
    <2>6. Busy' => disp'.ev \in 1 .. events' /\ ~handled'[disp'.ev].done
        BY <1>2, <1>7, <1>8, <2>2
    <2>7. \A n \in 1 .. bound.events : handled'[n].done => n <= events'
        BY <1>2, <1>8 DEF WebhooksInv, Flow
    <2> QED
        BY <1>2, <1>7, <1>8, <2>4, <2>5, <2>6, <2>7 DEF Flow
<1>9. CASE UNCHANGED <<disp, handled>>
    <2>1. Flow'
        <3>1. disp \in Dispatch /\ ~Busy'
            BY <1>7, <1>9 DEF WebhooksInv, Flow, Busy
        <3> QED
            BY <1>3, <1>8, <1>9, <3>1
    <2>2. Matched'
        BY <1>2, <1>9, MatchedStays DEF WebhooksInv, Kept
    <2>3. Rows'
        BY <1>2, <1>9, RowsStay DEF WebhooksInv
    <2> QED
        BY <1>6, <2>1, <2>2, <2>3 DEF WebhooksInv
<1>10. CASE /\ disp' = [st |-> "insert", ev |-> e.n, todo |-> hs, d |-> 0]
            /\ handled' = [handled EXCEPT ![e.n].found = hs]
    <2>1. disp' \in Dispatch /\ disp'.ev = e.n /\ disp'.st = "insert" /\ disp'.todo = hs
        BY <1>3, <1>4, <1>10 DEF Dispatch, Event
    <2>2. /\ handled' \in [1 .. bound.events -> Account] /\ handled'[e.n].found = hs
          /\ \A n \in 1 .. bound.events : handled'[n].done = handled[n].done
          /\ \A n \in 1 .. bound.events : n # e.n => handled'[n] = handled[n]
        <3>1. PICK a : a = [handled[e.n] EXCEPT !.found = hs]
            OBVIOUS
        <3>2. /\ e.n \in 1 .. bound.events /\ handled \in [1 .. bound.events -> Account]
              /\ handled[e.n] \in Account
            BY <1>3, <1>7
        <3>3. a \in Account /\ a.found = hs /\ a.done = handled[e.n].done
            BY <1>3, <1>7, <3>1, <3>2 DEF Account
        <3>4. handled' = [handled EXCEPT ![e.n] = a]
            BY <1>10, <3>1
        <3> QED
            BY <3>2, <3>3, <3>4
    <2>3. Flow'
        BY <1>8, <2>1, <2>2
    <2>4. Matched'
        <3>1. \A h, n : HasRow(h, n)' <=> HasRow(h, n)
            BY <1>2 DEF HasRow
        <3>2. \A n \in 1 .. bound.events : handled[n].done =>
                 \A h \in handled[n].found \ handled[n].failed : HasRow(h, n)
            BY <1>3 DEF WebhooksInv, Matched, EachMatchServed, HasRow
        <3>3. \A n \in DOMAIN handled' : handled'[n].done =>
                 \A h \in handled'[n].found \ handled'[n].failed : HasRow(h, n)'
            BY <1>3, <1>7, <2>2, <3>1, <3>2
        <3>4. EachMatchServed'
            BY <3>3 DEF EachMatchServed, HasRow
        <3> QED
            BY <2>1, <2>2, <3>4 DEF Matched
    <2>5. Rows'
        BY <1>2, <2>1, RowsStay DEF WebhooksInv
    <2> QED
        BY <1>6, <2>3, <2>4, <2>5 DEF WebhooksInv
<1> QED
    BY <1>1, <1>9, <1>10 DEF DispatchList

\* One webhook is taken off the list: it gets its row, or is noted as failed.
LEMMA DispatchInsertStep ==
    ASSUME WebhooksInv, NEW h \in Hook, DispatchInsert(h), UNCHANGED bound
    PROVE  WebhooksInv'
<1>1. disp.st = "insert" /\ h \in disp.todo /\ UNCHANGED <<pub, events, sub, work>>
    BY DEF DispatchInsert
<1>2. PICK n : n = disp.ev
    OBVIOUS
<1>3. /\ disp \in Dispatch /\ Busy /\ n \in Nat /\ bound.events \in Nat /\ n \in 1 .. bound.events
      /\ handled \in [1 .. bound.events -> Account] /\ ~handled[n].done
    BY <1>1, <1>2 DEF WebhooksInv, Flow, Busy, Instance, Dispatch
<1>4. /\ \A g \in handled[n].found : g \in handled[n].failed \/ g \in disp.todo \/ HasRow(g, n)
      /\ \A m \in 1 .. bound.events : handled[m].done =>
            \A g \in handled[m].found \ handled[m].failed : HasRow(g, m)
    BY <1>2, <1>3 DEF WebhooksInv, Matched, EachMatchServed, HasRow
<1>5. Bus'
    BY <1>1, BusStays DEF WebhooksInv
<1>6. CASE /\ dels' = Append(dels, NewDelivery(h, n, "event"))
           /\ disp' = [disp EXCEPT !.st = "enqueue", !.d = Len(dels) + 1, !.todo = @ \ {h}]
           /\ UNCHANGED handled
    <2>1. /\ Kept /\ dels' \in Seq(Delivery) /\ Len(dels) + 1 \in DOMAIN dels'
          /\ dels'[Len(dels) + 1] = NewDelivery(h, n, "event") /\ Len(dels) \in Nat
          /\ \A d \in DOMAIN dels : d \in DOMAIN dels' /\ dels'[d] = dels[d]
          /\ \A d \in DOMAIN dels' : RowSound(d)'
        BY <1>1, <1>3, <1>6, RowsGrow DEF WebhooksInv
    <2>2. /\ disp' \in Dispatch /\ disp'.ev = n /\ disp'.st = "enqueue" /\ disp'.d = Len(dels) + 1
          /\ disp'.todo = disp.todo \ {h} /\ Busy'
        <3>1. PICK k \in Nat : k = Len(dels) + 1
            BY <2>1
        <3>2. PICK hs \in SUBSET Hook : hs = disp.todo \ {h}
            BY <1>3 DEF Dispatch
        <3>3. disp' = [disp EXCEPT !.st = "enqueue", !.d = k, !.todo = hs]
            BY <1>6, <3>1, <3>2
        <3>4. disp' \in Dispatch /\ disp'.ev = n /\ disp'.st = "enqueue" /\ disp'.d = k /\ disp'.todo = hs
            BY <1>2, <1>3, <3>1, <3>2, <3>3 DEF Dispatch
        <3> QED
            BY <3>1, <3>2, <3>4 DEF Busy
    <2>3. Flow'
        BY <1>1, <1>2, <1>3, <1>6, <2>2, FlowMoves DEF WebhooksInv
    <2>4. Matched'
        <3>1. \A g, m : HasRow(g, m) => HasRow(g, m)'
            BY <2>1, RowsRemain
        <3>2. HasRow(h, n)'
            BY <1>3, <2>1, NewType DEF HasRow
        <3>3. \A g \in handled'[n].found : g \in handled'[n].failed \/ g \in disp'.todo \/ HasRow(g, n)'
            BY <1>4, <1>6, <2>2, <3>1, <3>2
        <3>4. \A m \in DOMAIN handled' : handled'[m].done =>
                 \A g \in handled'[m].found \ handled'[m].failed : HasRow(g, m)'
            BY <1>3, <1>4, <1>6, <3>1
        <3>5. EachMatchServed'
            BY <3>4 DEF EachMatchServed, HasRow
        <3>6. \A g : HasRow(g, disp.ev)' <=> HasRow(g, n)'
            BY <2>2 DEF HasRow
        <3> QED
            BY <2>2, <3>3, <3>5, <3>6 DEF Matched
    <2>5. Rows'
        <3>1. /\ work \in [Worker -> Run]
              /\ \A w \in Worker : work[w].st # "idle" => work[w].d \in DOMAIN dels'
              /\ \A w \in Worker : work[w].st = "record" => work[w].outcome \in {"success", "retry", "dead"}
            BY <2>1 DEF WebhooksInv, Rows
        <3>2. dels'[disp'.d].job.st = "none"
            BY <1>3, <2>1, <2>2, NewType
        <3> QED
            BY <1>1, <2>1, <2>2, <3>1, <3>2 DEF Rows
    <2> QED
        BY <1>5, <2>3, <2>4, <2>5 DEF WebhooksInv
<1>7. CASE /\ disp' = [disp EXCEPT !.todo = @ \ {h}]
           /\ handled' = [handled EXCEPT ![n].failed = @ \cup {h}]
           /\ UNCHANGED dels
    <2>1. /\ disp' \in Dispatch /\ disp'.ev = n /\ disp'.st = "insert"
          /\ disp'.todo = disp.todo \ {h} /\ Busy'
        BY <1>1, <1>2, <1>3, <1>7 DEF Dispatch, Busy
    <2>2. /\ handled' \in [1 .. bound.events -> Account]
          /\ handled'[n].found = handled[n].found /\ handled'[n].failed = handled[n].failed \cup {h}
          /\ \A m \in 1 .. bound.events : handled'[m].done = handled[m].done
          /\ \A m \in 1 .. bound.events : m # n => handled'[m] = handled[m]
        BY <1>3, <1>7 DEF Account
    <2>3. Flow'
        BY <1>1, <1>2, <1>3, <2>1, <2>2, FlowMoves DEF WebhooksInv
    <2>4. Matched'
        <3>1. \A g, m : HasRow(g, m)' <=> HasRow(g, m)
            BY <1>7 DEF HasRow
        <3>2. \A g \in handled'[n].found : g \in handled'[n].failed \/ g \in disp'.todo \/ HasRow(g, n)'
            BY <1>4, <2>1, <2>2, <3>1
        <3>3. \A m \in DOMAIN handled' : handled'[m].done =>
                 \A g \in handled'[m].found \ handled'[m].failed : HasRow(g, m)'
            BY <1>3, <1>4, <2>2, <3>1
        <3>4. EachMatchServed'
            BY <3>3 DEF EachMatchServed, HasRow
        <3>5. \A g : HasRow(g, disp.ev)' <=> HasRow(g, n)'
            BY <2>1 DEF HasRow
        <3> QED
            BY <2>1, <3>2, <3>4, <3>5 DEF Matched
    <2>5. Rows'
        BY <1>1, <1>7, <2>1, RowsStay DEF WebhooksInv
    <2> QED
        BY <1>5, <2>3, <2>4, <2>5 DEF WebhooksInv
<1> QED
    BY <1>2, <1>6, <1>7 DEF DispatchInsert

\* The dispatcher goes on to the next webhook.
LEMMA DispatchOn ==
    ASSUME Flow, Matched, Kept, disp.st = "enqueue", UNCHANGED <<bound, events, pub, sub, handled>>,
           disp' = [disp EXCEPT !.st = "insert", !.d = 0], bound.events \in Nat
    PROVE  Flow' /\ Matched' /\ disp'.st = "insert"
<1>1. /\ disp' \in Dispatch /\ disp'.ev = disp.ev /\ disp'.st = "insert" /\ disp'.todo = disp.todo
      /\ Busy /\ Busy'
    BY DEF Flow, Dispatch, Busy
<1>2. Flow'
    BY <1>1, FlowMoves DEF Flow
<1>3. Matched'
    <2>1. \A g, m : HasRow(g, m) => HasRow(g, m)'
        BY RowsRemain
    <2>2. PICK n : n = disp.ev
        OBVIOUS
    <2>3. /\ \A g \in handled[n].found : g \in handled[n].failed \/ g \in disp.todo \/ HasRow(g, n)
          /\ \A m \in DOMAIN handled : handled[m].done =>
                \A g \in handled[m].found \ handled[m].failed : HasRow(g, m)
        BY <1>1, <2>2 DEF Matched, EachMatchServed, HasRow
    <2>4. \A g \in handled'[n].found : g \in handled'[n].failed \/ g \in disp'.todo \/ HasRow(g, n)'
        BY <1>1, <2>1, <2>3
    <2>5. \A m \in DOMAIN handled' : handled'[m].done =>
             \A g \in handled'[m].found \ handled'[m].failed : HasRow(g, m)'
        BY <2>1, <2>3
    <2>6. EachMatchServed'
        BY <2>5 DEF EachMatchServed, HasRow
    <2>7. \A g : HasRow(g, disp.ev)' <=> HasRow(g, n)'
        BY <1>1, <2>2 DEF HasRow
    <2> QED
        BY <1>1, <2>2, <2>4, <2>6, <2>7 DEF Matched
<1> QED
    BY <1>1, <1>2, <1>3

\* The row gets its job, the one queueing it has without the sweep; or it stays
\* without.
LEMMA DispatchEnqueueStep ==
    ASSUME WebhooksInv, DispatchEnqueue, UNCHANGED bound
    PROVE  WebhooksInv'
<1>1. /\ disp.st = "enqueue" /\ UNCHANGED <<pub, events, sub, handled, work>>
      /\ disp' = [disp EXCEPT !.st = "insert", !.d = 0]
    BY DEF DispatchEnqueue
<1>2. Bus' /\ bound.events \in Nat
    BY <1>1, BusStays DEF WebhooksInv, Instance
<1>3. CASE UNCHANGED dels
    <2>1. Flow' /\ Matched' /\ disp'.st = "insert"
        BY <1>1, <1>2, <1>3, DispatchOn DEF WebhooksInv, Kept
    <2>2. Rows'
        BY <1>1, <1>3, <2>1, RowsStay DEF WebhooksInv
    <2> QED
        BY <1>2, <2>1, <2>2 DEF WebhooksInv
<1>4. CASE dels' = [dels EXCEPT ![disp.d].job.st = "pending"]
    <2>1. PICK d, x, y : d = disp.d /\ x = dels[d] /\ y = [x EXCEPT !.job.st = "pending"]
        OBVIOUS
    <2>2. d \in DOMAIN dels /\ x \in Delivery /\ x.job.st = "none" /\ RowSound(d)
        BY <1>1, <2>1 DEF WebhooksInv, Rows
    <2>3. dels' = [dels EXCEPT ![d] = y]
        BY <1>4, <2>1, <2>2
    <2>4. /\ y \in Delivery /\ y.job.st = "pending" /\ y.hook = x.hook /\ y.ev = x.ev
          /\ y.origin = x.origin /\ y.told = x.told /\ y.reruns = x.reruns /\ y.st = x.st
          /\ y.received = x.received /\ y.blind = x.blind /\ y.told \in Nat /\ y.reruns \in Nat
        BY <2>1, <2>2 DEF Delivery, Job
    <2>5. disp'.st = "insert"
        BY <1>1 DEF WebhooksInv, Flow, Dispatch
    <2>6. ASSUME dels'[d] = y PROVE RowSound(d)'
        <3>1. x.told = 0 /\ At(d) = {}
            BY <2>1, <2>2 DEF RowSound
        <3>2. At(d)' = {}
            BY <1>1, <3>1 DEF At
        <3>3. Cardinality(Owing(d)') = 0 /\ Queued(d)' = 1
            <4>1. Owing(d)' = {}
                BY <3>2 DEF Owing
            <4> QED
                BY <2>4, <2>6, <4>1, FS_EmptySet DEF Queued
        <3>4. LoneRun(d)'
            BY <3>2 DEF LoneRun
        <3>5. ~(x.reruns = 0 /\ ~x.blind /\ x.received)
            BY <2>1, <2>2 DEF RowSound, Accepted
        <3>6. x.st = "success" => x.received
            BY <2>1, <2>2 DEF RowSound
        <3> QED
            BY <2>4, <2>6, <3>1, <3>2, <3>3, <3>4, <3>5, <3>6 DEF RowSound
    <2>7. Rows' /\ Kept
        <3>1. /\ work' \in [Worker -> Run] /\ \A w \in Worker : work'[w] = work[w]
              /\ \A w \in Worker : work'[w].st = "record" => work'[w].outcome \in {"success", "retry", "dead"}
            BY <1>1 DEF WebhooksInv, Rows
        <3>2. y.hook = dels[d].hook /\ y.ev = dels[d].ev /\ y.origin = dels[d].origin /\ Rows
            BY <2>1, <2>4 DEF WebhooksInv
        <3> HIDE <2>1
        <3> QED
            BY <2>2, <2>3, <2>4, <2>5, <2>6, <3>1, <3>2, RowsMove
    <2>8. Flow' /\ Matched'
        BY <1>1, <1>2, <2>7, DispatchOn DEF WebhooksInv
    <2> QED
        BY <1>2, <2>7, <2>8 DEF WebhooksInv
<1> QED
    BY <1>3, <1>4 DEF DispatchEnqueue

\* The list is empty: what was found has a row or failed.
LEMMA DispatchDoneStep ==
    ASSUME WebhooksInv, DispatchDone, UNCHANGED bound
    PROVE  WebhooksInv'
<1>1. /\ disp.st = "insert" /\ disp.todo = {} /\ disp' = Ready
      /\ UNCHANGED <<pub, events, sub, dels, work>>
    BY DEF DispatchDone
<1>2. PICK n, b : n = disp.ev /\ b = TRUE
    OBVIOUS
<1>3. /\ Busy /\ n \in 1 .. events /\ bound.events \in Nat /\ n \in 1 .. bound.events
      /\ handled \in [1 .. bound.events -> Account] /\ events \in Nat
    BY <1>1, <1>2 DEF WebhooksInv, Flow, Busy, Instance
<1>4. disp' \in Dispatch /\ disp'.st = "ready" /\ ~Busy'
    BY <1>1 DEF Ready, Dispatch, Busy
<1>5. /\ handled' \in [1 .. bound.events -> Account]
      /\ handled'[n].found = handled[n].found /\ handled'[n].failed = handled[n].failed
      /\ \A m \in 1 .. bound.events : m # n => handled'[m] = handled[m]
    <2>1. handled' = [handled EXCEPT ![n].done = b] /\ b \in BOOLEAN
        BY <1>2 DEF DispatchDone
    <2> QED
        BY <1>3, <2>1 DEF Account
<1>6. Bus'
    BY <1>1, BusStays DEF WebhooksInv
<1>7. Flow'
    <2>1. \A r \in Handler : Sending(r)' =>
             /\ Sending(r) /\ pub[r].ev \in Event /\ pub[r].ev.n \in 1 .. events
             /\ ~handled[pub[r].ev.n].done /\ n # pub[r].ev.n
             /\ \A i \in DOMAIN sub.q : sub.q[i].n # pub[r].ev.n
             /\ \A s \in Handler : Sending(s) /\ pub[s].ev.n = pub[r].ev.n => s = r
        BY <1>1, <1>2, <1>3 DEF WebhooksInv, Flow, Sending
    <2>2. \A i \in DOMAIN sub.q :
             /\ sub.q[i].n \in 1 .. events /\ ~handled[sub.q[i].n].done /\ n # sub.q[i].n
             /\ \A j \in DOMAIN sub.q : sub.q[j].n = sub.q[i].n => j = i
        BY <1>2, <1>3 DEF WebhooksInv, Flow
    <2>3. events <= bound.events /\ \A m \in 1 .. events : m # n => handled'[m] = handled[m]
        BY <1>3, <1>5 DEF WebhooksInv, Flow
    <2>4. \A m \in 1 .. bound.events : handled'[m].done => m <= events
        BY <1>3, <1>5 DEF WebhooksInv, Flow
    <2>5. \A r \in Handler : Sending(r)' <=> Sending(r)
        BY <1>1 DEF Sending
    <2>6. \A r \in Handler : Sending(r) => ~handled'[pub[r].ev.n].done
        BY <2>1, <2>3, <2>5
    <2>7. \A i \in DOMAIN sub.q : ~handled'[sub.q[i].n].done
        BY <2>2, <2>3
    <2> QED
        BY <1>1, <1>3, <1>4, <1>5, <2>1, <2>2, <2>3, <2>4, <2>5, <2>6, <2>7 DEF Flow
<1>8. Matched'
    <2>1. \A g, m : HasRow(g, m)' <=> HasRow(g, m)
        BY <1>1 DEF HasRow
    <2>2. /\ \A g \in handled[n].found : g \in handled[n].failed \/ HasRow(g, n)
          /\ \A m \in 1 .. bound.events : handled[m].done =>
                \A g \in handled[m].found \ handled[m].failed : HasRow(g, m)
        BY <1>1, <1>2, <1>3 DEF WebhooksInv, Matched, EachMatchServed, HasRow
    <2>3. \A m \in DOMAIN handled' : handled'[m].done =>
             \A g \in handled'[m].found \ handled'[m].failed : HasRow(g, m)'
        BY <1>3, <1>5, <2>1, <2>2
    <2>4. EachMatchServed'
        BY <2>3 DEF EachMatchServed, HasRow
    <2> QED
        BY <1>4, <2>4 DEF Matched
<1>9. Rows'
    BY <1>1, <1>4, RowsStay DEF WebhooksInv
<1> QED
    BY <1>6, <1>7, <1>8, <1>9 DEF WebhooksInv

-----------------------------------------------------------------------------
(* The operators *)

\* Pausing and resuming concern nobody who is under way.
LEMMA SetActiveStep ==
    ASSUME WebhooksInv, NEW h \in Hook, SetActive(h), UNCHANGED bound
    PROVE  WebhooksInv'
<1>1. UNCHANGED <<pub, events, sub, disp, handled, dels, work>>
    BY DEF SetActive
<1>2. Bus' /\ Flow'
    BY <1>1, BusStays, FlowStays DEF WebhooksInv
<1>3. Matched'
    BY <1>1, MatchedStays DEF WebhooksInv, Kept
<1>4. Rows'
    BY <1>1, RowsStay DEF WebhooksInv
<1> QED
    BY <1>2, <1>3, <1>4 DEF WebhooksInv

\* A row that goes with its webhook no longer claims anything.
LEMMA RowGoes ==
    ASSUME NEW d, RowSound(d), dels[d] \in Delivery, UNCHANGED work,
           dels'[d] = [dels[d] EXCEPT !.st = "gone"]
    PROVE  dels'[d] \in Delivery /\ RowSound(d)'
<1>1. PICK x, y : x = dels[d] /\ y = dels'[d]
    OBVIOUS
<1>2. /\ y \in Delivery /\ y.st = "gone" /\ y.job = x.job /\ y.told = x.told /\ y.reruns = x.reruns
      /\ y.received = x.received /\ y.blind = x.blind
    BY <1>1 DEF Delivery
<1>3. At(d)' = At(d) /\ Owing(d)' = Owing(d) /\ Queued(d)' = Queued(d)
    BY <1>1, <1>2 DEF At, Owing, Queued
<1>4. x.reruns = 0 => LoneRun(d)'
    BY <1>1, <1>2, <1>3 DEF RowSound, LoneRun
<1>5. x.reruns = 0 /\ ~x.blind /\ x.received => Accepted(d)'
    <2>1. ASSUME x.reruns = 0, ~x.blind, x.received PROVE Accepted(d)'
        <3>1. Accepted(d)
            BY <1>1, <2>1 DEF RowSound
        <3>2. \A w \in At(d) : work'[w].outcome = "success" /\ work'[w].st \in {"record", "announce", "finish"}
            BY <3>1 DEF Accepted
        <3>3. y.job.st \in {"running", "completed", "cancelled"}
            BY <1>1, <1>2, <3>1 DEF Accepted
        <3> QED
            BY <1>1, <1>2, <1>3, <3>2, <3>3 DEF Accepted, Told
    <2> QED
        BY <2>1
<1>6. \A w \in At(d)' : /\ work'[w].outcome = "success" => y.received
                        /\ work'[w].st = "announce" => Announced(work'[w].outcome)
    BY <1>1, <1>2, <1>3 DEF RowSound
<1>7. /\ x.job.st = "none" => x.told = 0 /\ At(d) = {}
      /\ x.told + Cardinality(Owing(d)) + Queued(d) <= 1 + x.reruns
    BY <1>1 DEF RowSound
<1> QED
    BY <1>1, <1>2, <1>3, <1>4, <1>5, <1>6, <1>7 DEF RowSound

\* The rows of a deleted webhook go, their jobs stay.
LEMMA DeleteHookStep ==
    ASSUME WebhooksInv, NEW h \in Hook, DeleteHook(h), UNCHANGED bound
    PROVE  WebhooksInv'
<1>1. /\ UNCHANGED <<pub, events, sub, disp, handled, work>>
      /\ dels' = [d \in DOMAIN dels |->
            IF dels[d].hook = h THEN [dels[d] EXCEPT !.st = "gone"] ELSE dels[d]]
    BY DEF DeleteHook
<1>2. /\ dels \in Seq(Delivery) /\ \A d \in DOMAIN dels : dels[d] \in Delivery /\ RowSound(d)
      /\ Len(dels) \in Nat /\ DOMAIN dels = 1 .. Len(dels)
    BY LenProperties DEF WebhooksInv, Rows
<1>3. ASSUME NEW d \in DOMAIN dels
      PROVE  /\ dels'[d] \in Delivery /\ RowSound(d)' /\ dels'[d].hook = dels[d].hook
             /\ dels'[d].ev = dels[d].ev /\ dels'[d].origin = dels[d].origin
             /\ dels'[d].job = dels[d].job
    <2>1. CASE dels'[d] = dels[d]
        BY <1>1, <1>2, <2>1, RowStays DEF RowCalm, Calm
    <2>2. CASE dels'[d] = [dels[d] EXCEPT !.st = "gone"]
        <3>1. dels'[d] \in Delivery /\ RowSound(d)'
            BY <1>1, <1>2, <2>2, RowGoes
        <3> QED
            BY <1>2, <2>2, <3>1 DEF Delivery
    <2> QED
        BY <1>1, <2>1, <2>2
<1>4. dels' \in Seq(Delivery) /\ DOMAIN dels' = DOMAIN dels
    <2>1. dels' \in [1 .. Len(dels) -> Delivery]
        BY <1>1, <1>2, <1>3
    <2> QED
        BY <1>2, <2>1, SeqDef
<1>5. Kept
    BY <1>3, <1>4 DEF Kept
<1>6. Bus' /\ Flow' /\ Matched'
    <2>1. Bus' /\ Flow'
        BY <1>1, BusStays, FlowStays DEF WebhooksInv
    <2>2. Matched'
        BY <1>1, <1>5, MatchedStays DEF WebhooksInv
    <2> QED
        BY <2>1, <2>2
<1>7. Rows'
    <2>1. /\ work \in [Worker -> Run]
          /\ \A w \in Worker : work[w].st # "idle" => work[w].d \in DOMAIN dels
          /\ \A w \in Worker : work[w].st = "record" => work[w].outcome \in {"success", "retry", "dead"}
          /\ disp.st = "enqueue" => disp.d \in DOMAIN dels /\ dels[disp.d].job.st = "none"
        BY DEF WebhooksInv, Rows
    <2>2. UNCHANGED <<work, disp>>
        BY <1>1
    <2> HIDE <1>1
    <2> QED
        BY <1>3, <1>4, <2>1, <2>2 DEF Rows
<1> QED
    BY <1>6, <1>7 DEF WebhooksInv

\* A replay is one more row without a job.
LEMMA ReplayStep ==
    ASSUME WebhooksInv, NEW d \in DOMAIN dels, Replay(d), UNCHANGED bound
    PROVE  WebhooksInv'
<1>1. UNCHANGED <<pub, events, sub, disp, handled, work>>
    BY DEF Replay
<1>2. PICK h, n : h = dels[d].hook /\ n = dels[d].ev
    OBVIOUS
<1>3. h \in Hook /\ n \in Nat
    <2>1. dels[d] \in Delivery
        BY DEF WebhooksInv, Rows
    <2> QED
        BY <1>2, <2>1 DEF Delivery
<1>4. dels' = Append(dels, NewDelivery(h, n, "replay"))
    BY <1>2 DEF Replay
<1>5. /\ Kept /\ dels' \in Seq(Delivery)
      /\ \A c \in DOMAIN dels : c \in DOMAIN dels' /\ dels'[c] = dels[c]
      /\ \A c \in DOMAIN dels' : RowSound(c)'
    BY <1>1, <1>3, <1>4, RowsGrow DEF WebhooksInv
<1>6. Bus' /\ Flow'
    BY <1>1, BusStays, FlowStays DEF WebhooksInv
<1>7. Matched'
    BY <1>1, <1>5, MatchedStays DEF WebhooksInv
<1>8. Rows'
    <2>1. /\ work \in [Worker -> Run]
          /\ \A w \in Worker : work[w].st # "idle" => work[w].d \in DOMAIN dels
          /\ \A w \in Worker : work[w].st = "record" => work[w].outcome \in {"success", "retry", "dead"}
          /\ disp.st = "enqueue" => disp.d \in DOMAIN dels /\ dels[disp.d].job.st = "none"
        BY DEF WebhooksInv, Rows
    <2> HIDE <1>4
    <2> QED
        BY <1>1, <1>5, <2>1 DEF Rows
<1> QED
    BY <1>6, <1>7, <1>8 DEF WebhooksInv

-----------------------------------------------------------------------------
(* The delivery handler *)

\* A row changes, the bus and the dispatcher do not.
LEMMA OthersStay ==
    ASSUME WebhooksInv, UNCHANGED <<bound, pub, events, sub, disp, handled>>, Rows', Kept
    PROVE  WebhooksInv'
<1>1. Bus' /\ Flow'
    BY BusStays, FlowStays DEF WebhooksInv
<1>2. Matched'
    BY MatchedStays DEF WebhooksInv
<1> QED
    BY <1>1, <1>2 DEF WebhooksInv

\* Workers are lost, and with them the outcomes they had not recorded.
LEMMA RowsLose ==
    ASSUME Rows, NEW ws \in SUBSET Worker, dels' = LoseOutcomes(ws), work' \in [Worker -> Run],
           \A w \in Worker : IF w \in ws THEN work'[w].st = "idle" ELSE work'[w] = work[w],
           disp'.st = "enqueue" => disp' = disp
    PROVE  Rows' /\ Kept
<1>1. /\ dels \in Seq(Delivery) /\ \A d \in DOMAIN dels : dels[d] \in Delivery /\ RowSound(d)
      /\ Len(dels) \in Nat /\ DOMAIN dels = 1 .. Len(dels)
    BY LenProperties DEF Rows
<1>2. ASSUME NEW d \in DOMAIN dels
      PROVE  /\ dels'[d] \in Delivery /\ RowSound(d)' /\ dels'[d].hook = dels[d].hook
             /\ dels'[d].ev = dels[d].ev /\ dels'[d].origin = dels[d].origin
             /\ dels'[d].job = dels[d].job
    <2>1. PICK x, b : /\ x = dels[d]
                      /\ b = IF \E w \in ws : work[w].st = "record" /\ work[w].d = d
                             THEN TRUE ELSE x.blind
        OBVIOUS
    <2>2. dels'[d] = [x EXCEPT !.blind = b]
        BY <2>1 DEF LoseOutcomes
    <2>3. Calm(d) /\ x \in Delivery /\ x.blind \in BOOLEAN
        <3>1. x \in Delivery
            BY <1>1, <2>1
        <3>2. x.blind \in BOOLEAN
            BY <3>1 DEF Delivery
        <3>3. Calm(d)
            BY DEF Calm
        <3> QED
            BY <3>1, <3>2, <3>3
    <2>4. CASE b
        <3>1. b \in BOOLEAN
            BY <2>1, <2>3
        <3>3. dels'[d] = [dels[d] EXCEPT !.blind = b]
            BY <2>1, <2>2
        <3>4. dels'[d] \in Delivery /\ RowSound(d)'
            BY <1>1, <2>3, <2>4, <3>1, <3>3, RowBlinded
        <3> QED
            BY <2>1, <2>3, <3>3, <3>4 DEF Delivery
    <2>5. CASE ~b
        <3>1. ~x.blind /\ ~\E w \in ws : work[w].st = "record" /\ work[w].d = d
            BY <2>1, <2>5
        <3>2. x.blind = b
            BY <2>1, <3>1
        <3>3. dels'[d] = x
            BY <2>2, <2>3, <3>2 DEF Delivery
        <3>4. RowCalm(d)
            BY <2>1, <2>3, <3>1, <3>3 DEF RowCalm, At
        <3>5. RowSound(d)'
            BY <1>1, <3>4, RowStays
        <3> QED
            BY <2>1, <2>3, <3>3, <3>5
    <2> QED
        BY <2>4, <2>5
<1>3. dels' \in Seq(Delivery) /\ DOMAIN dels' = DOMAIN dels
    <2>1. dels' \in [1 .. Len(dels) -> Delivery]
        BY <1>1, <1>2 DEF LoseOutcomes
    <2> QED
        BY <1>1, <2>1, SeqDef
<1>4. Kept
    BY <1>2, <1>3 DEF Kept
<1>5. /\ \A w \in Worker : work'[w].st # "idle" => work'[w].d \in DOMAIN dels'
      /\ \A w \in Worker : work'[w].st = "record" => work'[w].outcome \in {"success", "retry", "dead"}
    BY <1>3 DEF Rows
<1>6. disp'.st = "enqueue" => disp'.d \in DOMAIN dels' /\ dels'[disp'.d].job.st = "none"
    BY <1>2, <1>3 DEF Rows
<1> QED
    BY <1>2, <1>3, <1>4, <1>5, <1>6 DEF Rows

\* A worker between runs.
LEMMA FreeType == Free \in Run /\ Free.st = "idle"
BY DEF Free, Run

\* A worker on a delivery goes on with it.
LEMMA RunGoesOn ==
    ASSUME WebhooksInv, NEW w \in Worker, work[w].st # "idle", NEW d, d = work[w].d,
           NEW z \in Run, z.st # "idle", z.d = d, work' = [work EXCEPT ![w] = z]
    PROVE  /\ d \in DOMAIN dels /\ dels[d] \in Delivery /\ RowSound(d) /\ w \in At(d)
           /\ work' \in [Worker -> Run] /\ work'[w] = z
           /\ \A v \in Worker : v # w => work'[v] = work[v]
           /\ At(d)' = At(d)
<1>1. work \in [Worker -> Run] /\ d \in DOMAIN dels
    BY DEF WebhooksInv, Rows
<1>2. dels[d] \in Delivery /\ RowSound(d)
    BY <1>1 DEF WebhooksInv, Rows
<1>3. work' \in [Worker -> Run] /\ work'[w] = z /\ \A v \in Worker : v # w => work'[v] = work[v]
    BY <1>1
<1>4. At(d)' = At(d) /\ w \in At(d)
    BY <1>3 DEF At
<1> QED
    BY <1>1, <1>2, <1>3, <1>4

\* It leaves the row as it is: its outcome has not become "success".
LEMMA RowsGoOn ==
    ASSUME WebhooksInv, NEW w \in Worker, work[w].st \in {"check", "post"},
           NEW z \in Run, z.st # "idle", z.d = work[w].d,
           z.outcome = "success" => work[w].outcome = "success",
           z.st = "record" => z.outcome \in {"retry", "dead"},
           z.st # "announce", z.st = "finish" => ~Announced(z.outcome),
           work' = [work EXCEPT ![w] = z], UNCHANGED <<dels, disp>>
    PROVE  Rows' /\ Kept
<1>1. PICK d : d = work[w].d
    OBVIOUS
<1>2. /\ d \in DOMAIN dels /\ dels[d] \in Delivery /\ RowSound(d) /\ w \in At(d)
      /\ work' \in [Worker -> Run] /\ work'[w] = z
      /\ \A v \in Worker : v # w => work'[v] = work[v]
      /\ At(d)' = At(d)
    BY <1>1, RunGoesOn
<1>3. ~(dels[d].reruns = 0 /\ ~dels[d].blind /\ dels[d].received)
    BY <1>2 DEF RowSound, Accepted
<1>4. RowSound(d)'
    <2>1. Queued(d)' = Queued(d)
        BY DEF Queued
    <2>2. dels[d].reruns = 0 => LoneRun(d)'
        BY <1>2 DEF RowSound, LoneRun
    <2>3. \A v \in At(d)' : /\ work'[v].outcome = "success" => dels[d].received
                            /\ work'[v].st = "announce" => Announced(work'[v].outcome)
        BY <1>2 DEF RowSound, At
    <2>0. Owing(d)' = Owing(d)
        BY <1>2 DEF Owing
    <2>4. /\ dels[d].job.st = "none" => dels[d].told = 0 /\ At(d)' = {}
          /\ dels[d].told + Cardinality(Owing(d)') + Queued(d)' <= 1 + dels[d].reruns
          /\ dels[d].st = "success" => dels[d].received
        BY <1>2, <2>0, <2>1 DEF RowSound
    <2> QED
        BY <1>3, <2>2, <2>3, <2>4 DEF RowSound
<1>5. ASSUME NEW c \in DOMAIN dels PROVE RowSound(c)'
    <2>1. CASE c = d
        BY <1>4, <2>1
    <2>2. CASE c # d
        <3>1. RowCalm(c)
            BY <1>1, <1>2, <2>2 DEF RowCalm, Calm, At
        <3>2. RowSound(c) /\ dels[c] \in Delivery
            BY DEF WebhooksInv, Rows
        <3> QED
            BY <3>1, <3>2, RowStays
    <2> QED
        BY <2>1, <2>2
<1>6. /\ \A v \in Worker : work'[v].st # "idle" => work'[v].d \in DOMAIN dels'
      /\ \A v \in Worker : work'[v].st = "record" => work'[v].outcome \in {"success", "retry", "dead"}
    BY <1>1, <1>2 DEF WebhooksInv, Rows
<1>7. Kept
    BY DEF Kept
<1> QED
    BY <1>2, <1>5, <1>6, <1>7 DEF WebhooksInv, Rows

\* A job is claimed: the queueing becomes a run.
LEMMA ClaimStep ==
    ASSUME WebhooksInv, NEW w \in Worker, NEW d \in DOMAIN dels, Claim(w, d), UNCHANGED bound
    PROVE  WebhooksInv'
<1>1. /\ work[w].st = "idle" /\ dels[d].job.st = "pending"
      /\ UNCHANGED <<pub, events, sub, disp, handled>>
    BY DEF Claim
<1>2. dels[d] \in Delivery /\ RowSound(d) /\ work \in [Worker -> Run]
    BY DEF WebhooksInv, Rows
<1>3. PICK x, k, j, y, z :
         /\ x = dels[d] /\ k = x.job.attempts + 1 /\ j = [st |-> "running", attempts |-> k]
         /\ y = [x EXCEPT !.job = j]
         /\ z = [st |-> "check", d |-> d, outcome |-> "none", attempts |-> k]
    OBVIOUS
<1>4. k \in Nat /\ j \in Job /\ d \in Nat
    <2>1. k \in Nat
        BY <1>2, <1>3 DEF Delivery, Job
    <2>2. d \in Nat
        BY LenProperties DEF WebhooksInv, Rows
    <2> QED
        BY <1>3, <2>1, <2>2 DEF Job
<1>5. dels' = [dels EXCEPT ![d] = y] /\ work' = [work EXCEPT ![w] = z]
    BY <1>3 DEF Claim
<1>6. /\ y \in Delivery /\ y.job = j /\ j.st = "running" /\ y.hook = x.hook /\ y.ev = x.ev
      /\ y.origin = x.origin /\ y.told = x.told /\ y.reruns = x.reruns /\ y.st = x.st
      /\ y.received = x.received /\ y.blind = x.blind /\ y.told \in Nat /\ y.reruns \in Nat
    BY <1>2, <1>3, <1>4 DEF Delivery
<1>7. z \in Run /\ z.st = "check" /\ z.d = d /\ z.outcome = "none"
    BY <1>3, <1>4 DEF Run
<1>8. /\ work' \in [Worker -> Run] /\ work'[w] = z
      /\ \A v \in Worker : v # w => work'[v] = work[v]
    BY <1>2, <1>5, <1>7
<1>9. ASSUME dels'[d] = y PROVE RowSound(d)'
    <2>1. At(d)' = At(d) \cup {w} /\ w \notin At(d)
        BY <1>1, <1>7, <1>8 DEF At
    <2>0. Owing(d)' = Owing(d) \cup {w} /\ w \notin Owing(d)
        <3>1. \A v \in At(d) : v # w /\ v \in Worker /\ work'[v] = work[v]
            BY <1>8, <2>1 DEF At
        <3>2. ~(work'[w].st = "finish" /\ Announced(work'[w].outcome))
            BY <1>7, <1>8
        <3> QED
            BY ONLY <2>1, <3>1, <3>2 DEF Owing
    <2>2. Cardinality(Owing(d)') = Cardinality(Owing(d)) + 1 /\ Cardinality(Owing(d)) \in Nat
        BY <2>0, AtFinite, FS_AddElement
    <2>3. Queued(d) = 1 /\ Queued(d)' = 0
        BY <1>1, <1>6, <1>9 DEF Queued
    <2>4. x.told + Cardinality(Owing(d)) + Queued(d) <= 1 + x.reruns
        BY <1>2, <1>3 DEF RowSound
    <2>5. y.told + Cardinality(Owing(d)') + Queued(d)' <= 1 + y.reruns
        BY <1>6, <2>2, <2>3, <2>4
    <2>6. x.reruns = 0 => At(d)' = {w}
        BY <1>1, <1>2, <1>3, <2>1 DEF RowSound, LoneRun
    <2>7. y.reruns = 0 => LoneRun(d)'
        BY <1>6, <1>9, <2>6 DEF LoneRun
    <2>8. ~(x.reruns = 0 /\ ~x.blind /\ x.received)
        BY <1>1, <1>2, <1>3 DEF RowSound, Accepted
    <2>9. \A v \in At(d)' : /\ work'[v].outcome = "success" => x.received
                            /\ work'[v].st = "announce" => Announced(work'[v].outcome)
        BY <1>2, <1>3, <1>7, <1>8, <2>1 DEF RowSound, At
    <2>10. x.st = "success" => x.received
        BY <1>2, <1>3 DEF RowSound
    <2> QED
        BY <1>6, <1>9, <2>5, <2>7, <2>8, <2>9, <2>10 DEF RowSound
<1>10. Rows' /\ Kept
    <2>1. /\ \A v \in Worker : work'[v] = work[v] \/
               ((work[v].st # "idle" => work[v].d = d) /\ (work'[v].st # "idle" => work'[v].d = d))
          /\ \A v \in Worker : work'[v].st = "record" => work'[v].outcome \in {"success", "retry", "dead"}
        BY <1>1, <1>7, <1>8 DEF WebhooksInv, Rows
    <2>2. disp'.st = "enqueue" => disp' = disp /\ (disp.d = d => y.job.st = "none")
        BY <1>1 DEF WebhooksInv, Rows
    <2>3. y.hook = dels[d].hook /\ y.ev = dels[d].ev /\ y.origin = dels[d].origin /\ Rows
        BY <1>3, <1>6 DEF WebhooksInv
    <2> QED
        BY <1>5, <1>6, <1>8, <1>9, <2>1, <2>2, <2>3, RowsMove
<1> QED
    BY <1>1, <1>10, OthersStay

\* The checks: no delivery that was accepted, and alone, is back at them.
LEMMA CheckStep ==
    ASSUME WebhooksInv, NEW w \in Worker, Check(w), UNCHANGED bound
    PROVE  WebhooksInv'
<1>1. work[w].st = "check" /\ UNCHANGED <<pub, events, sub, disp, handled, dels>>
    BY DEF Check
<1>2. work[w] \in Run /\ work \in [Worker -> Run]
    BY DEF WebhooksInv, Rows
<1>3. ASSUME NEW st \in {"post", "record", "finish"}, NEW o \in {"none", "dead", "unread"},
             st = "record" => o = "dead", st = "finish" => o = "unread", NEW z, z = [work[w] EXCEPT !.st = st, !.outcome = o],
             work' = [work EXCEPT ![w] = z]
      PROVE  WebhooksInv'
    <2>1. z \in Run /\ z.st = st /\ z.outcome = o /\ z.d = work[w].d
        BY <1>2, <1>3 DEF Run
    <2>2. Rows' /\ Kept
        BY <1>1, <1>3, <2>1, RowsGoOn DEF Announced, Terminal
    <2> QED
        BY <1>1, <2>2, OthersStay
<1>4. CASE work' = [work EXCEPT ![w].st = "post"]
    <2>1. PICK z : z = [work[w] EXCEPT !.st = "post"]
        OBVIOUS
    <2>2. z \in Run /\ z.st = "post" /\ z.outcome = work[w].outcome /\ z.d = work[w].d
        BY <1>2, <2>1 DEF Run
    <2>3. work' = [work EXCEPT ![w] = z]
        BY <1>2, <1>4, <2>1
    <2>4. Rows' /\ Kept
        BY <1>1, <2>2, <2>3, RowsGoOn
    <2> QED
        BY <1>1, <2>4, OthersStay
<1>5. ASSUME NEW st \in {"record", "finish"}, NEW o \in {"dead", "unread"}, st = "record" => o = "dead",
             st = "finish" => o = "unread",
             work' = [work EXCEPT ![w].st = st, ![w].outcome = o]
      PROVE  WebhooksInv'
    <2>1. PICK z : z = [work[w] EXCEPT !.st = st, !.outcome = o]
        OBVIOUS
    <2>2. work' = [work EXCEPT ![w] = z]
        BY <1>2, <1>5, <2>1
    <2> QED
        BY <1>3, <1>5, <2>1, <2>2
<1>6. CASE work' = [work EXCEPT ![w].st = "record", ![w].outcome = "dead"]
    BY <1>5, <1>6
<1>7. CASE work' = [work EXCEPT ![w].st = "finish", ![w].outcome = "unread"]
    BY <1>5, <1>7
<1> QED
    BY <1>4, <1>6, <1>7 DEF Check

\* The receiver accepts, loudly or not, or does not.
LEMMA PostStep ==
    ASSUME WebhooksInv, NEW w \in Worker, Post(w), UNCHANGED bound
    PROVE  WebhooksInv'
<1>1. work[w].st = "post" /\ UNCHANGED <<pub, events, sub, disp, handled>>
    BY DEF Post
<1>2. PICK d, x : d = work[w].d /\ x = dels[d]
    OBVIOUS
<1>3. /\ work[w] \in Run /\ work \in [Worker -> Run] /\ d \in DOMAIN dels /\ x \in Delivery /\ RowSound(d)
      /\ Rows
    BY <1>1, <1>2 DEF WebhooksInv, Rows
<1>4. CASE UNCHANGED dels /\ \E o \in {"retry", "dead"} :
              work' = [work EXCEPT ![w].st = "record", ![w].outcome = o]
    <2>1. PICK o \in {"retry", "dead"} : work' = [work EXCEPT ![w].st = "record", ![w].outcome = o]
        BY <1>4
    <2>2. PICK z : z = [work[w] EXCEPT !.st = "record", !.outcome = o]
        OBVIOUS
    <2>3. z \in Run /\ z.st = "record" /\ z.outcome = o /\ z.d = work[w].d
        BY <1>3, <2>2 DEF Run
    <2>4. work' = [work EXCEPT ![w] = z]
        BY <1>3, <2>1, <2>2
    <2>5. Rows' /\ Kept
        BY <1>1, <1>4, <2>3, <2>4, RowsGoOn
    <2> QED
        BY <1>1, <2>5, OthersStay
<1>5. ASSUME NEW o \in {"success", "retry"}, NEW b \in BOOLEAN, NEW r \in BOOLEAN, r, NEW y, NEW z,
             y = [x EXCEPT !.received = r, !.blind = b], dels' = [dels EXCEPT ![d] = y],
             z = [work[w] EXCEPT !.st = "record", !.outcome = o], work' = [work EXCEPT ![w] = z],
             o = "success" => b = x.blind, o = "retry" => b
      PROVE  WebhooksInv'
    <2>1. /\ y \in Delivery /\ y.job = x.job /\ y.hook = x.hook /\ y.ev = x.ev /\ y.origin = x.origin
          /\ y.told = x.told /\ y.reruns = x.reruns /\ y.st = x.st /\ y.received /\ y.blind = b
        BY <1>3, <1>5 DEF Delivery
    <2>2. z \in Run /\ z.st = "record" /\ z.outcome = o /\ z.d = d
        BY <1>2, <1>3, <1>5 DEF Run
    <2>3. /\ w \in At(d) /\ work' \in [Worker -> Run] /\ work'[w] = z
          /\ \A v \in Worker : v # w => work'[v] = work[v]
          /\ At(d)' = At(d)
        BY <1>1, <1>2, <1>5, <2>2, RunGoesOn
    <2>4. ASSUME dels'[d] = y PROVE RowSound(d)'
        <3>1. Queued(d)' = Queued(d) /\ Owing(d)' = Owing(d)
            <4>1. Queued(d)' = Queued(d)
                BY <1>2, <2>1, <2>4 DEF Queued
            <4>2. \A v \in At(d) : work'[v] = work[v] \/ (work'[v].st # "finish" /\ work[v].st # "finish")
                BY <1>1, <2>2, <2>3 DEF At
            <4>3. Owing(d)' = Owing(d)
                BY ONLY <2>3, <4>2 DEF Owing
            <4> QED
                BY <4>1, <4>3
        <3>2. y.reruns = 0 => LoneRun(d) /\ LoneRun(d)'
            BY <1>2, <1>3, <2>1, <2>3, <2>4 DEF RowSound, LoneRun
        <3>3. ASSUME y.reruns = 0, ~y.blind PROVE Accepted(d)'
            <4>1. o = "success"
                BY <1>5, <2>1, <3>3
            <4>2. y.job.st \in {"running", "cancelled"} /\ w \in At(d)' /\ \A v \in At(d)' : v = w
                BY <1>2, <2>1, <2>3, <3>2, <3>3 DEF LoneRun
            <4> QED
                BY <2>2, <2>3, <2>4, <4>1, <4>2 DEF Accepted
        <3>4. /\ x.job.st = "none" => x.told = 0 /\ At(d) = {}
              /\ x.told + Cardinality(Owing(d)) + Queued(d) <= 1 + x.reruns
            BY <1>2, <1>3 DEF RowSound
        <3>5. \A v \in At(d)' : work'[v].st = "announce" => Announced(work'[v].outcome)
            <4>1. \A v \in At(d) : work[v].st = "announce" => Announced(work[v].outcome)
                BY <1>3 DEF RowSound
            <4>2. \A v \in At(d) : work'[v] = work[v] \/ work'[v].st = "record"
                BY <2>2, <2>3 DEF At
            <4>3. \A v \in At(d) : work'[v].st = "announce" => work'[v] = work[v]
                BY ONLY <4>2
            <4> QED
                BY ONLY <2>3, <4>1, <4>3
        <3> QED
            BY <2>1, <2>3, <2>4, <3>1, <3>2, <3>3, <3>4, <3>5 DEF RowSound
    <2>5. Rows' /\ Kept
        <3>1. /\ \A v \in Worker : work'[v] = work[v] \/
                   ((work[v].st # "idle" => work[v].d = d) /\ (work'[v].st # "idle" => work'[v].d = d))
              /\ \A v \in Worker : work'[v].st = "record" => work'[v].outcome \in {"success", "retry", "dead"}
            BY <1>2, <2>2, <2>3 DEF WebhooksInv, Rows
        <3>2. disp'.st = "enqueue" => disp' = disp /\ (disp.d = d => y.job.st = "none")
            BY <1>1, <1>2, <2>1 DEF WebhooksInv, Rows
        <3>3. y.hook = dels[d].hook /\ y.ev = dels[d].ev /\ y.origin = dels[d].origin
            BY <1>2, <2>1
        <3>4. dels' = [dels EXCEPT ![d] = y]
            BY <1>5
        <3> HIDE <1>5
        <3> QED
            BY <1>3, <2>1, <2>3, <2>4, <3>1, <3>2, <3>3, <3>4, RowsMove
    <2> QED
        BY <1>1, <2>5, OthersStay
<1>6. PICK r \in BOOLEAN : r = TRUE
    OBVIOUS
<1>7. ASSUME NEW o \in {"success", "retry"}, work' = [work EXCEPT ![w].st = "record", ![w].outcome = o]
      PROVE  \E z : z = [work[w] EXCEPT !.st = "record", !.outcome = o] /\ work' = [work EXCEPT ![w] = z]
    BY <1>3, <1>7
<1>8. CASE /\ dels' = [dels EXCEPT ![d].received = TRUE]
           /\ work' = [work EXCEPT ![w].st = "record", ![w].outcome = "success"]
    <2>1. PICK b, y : b = x.blind /\ y = [x EXCEPT !.received = r, !.blind = b]
        OBVIOUS
    <2>2. b \in BOOLEAN /\ y = [x EXCEPT !.received = r]
        BY <1>3, <2>1 DEF Delivery
    <2>3. dels' = [dels EXCEPT ![d] = y]
        BY <1>2, <1>3, <1>6, <1>8, <2>2
    <2>4. PICK z : z = [work[w] EXCEPT !.st = "record", !.outcome = "success"] /\ work' = [work EXCEPT ![w] = z]
        BY <1>7, <1>8
    <2> HIDE <1>8
    <2> QED
        BY <1>5, <1>6, <2>1, <2>2, <2>3, <2>4
<1>9. CASE /\ dels' = [dels EXCEPT ![d].received = TRUE, ![d].blind = TRUE]
           /\ work' = [work EXCEPT ![w].st = "record", ![w].outcome = "retry"]
    <2>1. PICK y : y = [x EXCEPT !.received = r, !.blind = r]
        OBVIOUS
    <2>2. dels' = [dels EXCEPT ![d] = y]
        BY <1>2, <1>3, <1>6, <1>9, <2>1
    <2>3. PICK z : z = [work[w] EXCEPT !.st = "record", !.outcome = "retry"] /\ work' = [work EXCEPT ![w] = z]
        BY <1>7, <1>9
    <2> HIDE <1>9
    <2> QED
        BY <1>5, <1>6, <2>1, <2>2, <2>3
<1> QED
    BY <1>2, <1>4, <1>8, <1>9 DEF Post

\* The row takes the outcome, or the outcome is lost.
LEMMA RecordStep ==
    ASSUME WebhooksInv, NEW w \in Worker, Record(w), UNCHANGED bound
    PROVE  WebhooksInv'
<1>2. PICK d, x, o, f : /\ d = work[w].d /\ x = dels[d] /\ o = work[w].outcome
                       /\ f = IF Announced(o) THEN "announce" ELSE "finish"
    OBVIOUS
<1>1. /\ work[w].st = "record" /\ UNCHANGED <<pub, events, sub, disp, handled>>
      /\ work' = [work EXCEPT ![w].st = f]
    BY <1>2 DEF Record
<1>f. f \in {"announce", "finish"} /\ (f = "announce" <=> Announced(o))
    BY <1>2
<1>3. /\ work[w] \in Run /\ work \in [Worker -> Run] /\ d \in DOMAIN dels /\ x \in Delivery /\ RowSound(d)
      /\ Rows /\ o \in {"success", "retry", "dead"}
    BY <1>1, <1>2 DEF WebhooksInv, Rows
<1>4. PICK z : z = [work[w] EXCEPT !.st = f]
    OBVIOUS
<1>5. z \in Run /\ z.st = f /\ z.outcome = o /\ z.d = d /\ work' = [work EXCEPT ![w] = z]
    BY <1>1, <1>2, <1>3, <1>4, <1>f DEF Run
<1>6. /\ w \in At(d) /\ work' \in [Worker -> Run] /\ work'[w] = z
      /\ \A v \in Worker : v # w => work'[v] = work[v]
      /\ At(d)' = At(d)
    <2>1. /\ work[w].st # "idle" /\ d = work[w].d /\ z \in Run /\ z.st # "idle" /\ z.d = d
          /\ work' = [work EXCEPT ![w] = z]
        BY <1>1, <1>2, <1>5, <1>f
    <2> QED
        BY ONLY WebhooksInv, w \in Worker, <2>1, RunGoesOn
<1>7. PICK r \in BOOLEAN : r = TRUE
    OBVIOUS
<1>8. ASSUME NEW y \in Delivery, dels' = [dels EXCEPT ![d] = y],
             y.job = x.job, y.hook = x.hook, y.ev = x.ev, y.origin = x.origin,
             y.told = x.told, y.reruns = x.reruns, y.received = x.received,
             y.blind \/ (y.blind = x.blind /\ y.st \in {o, "gone"}), y.st \in {x.st, o, "gone"}
      PROVE  WebhooksInv'
    <2>1. ASSUME dels'[d] = y PROVE RowSound(d)'
        <3>1. Queued(d)' = Queued(d) /\ Owing(d)' = Owing(d)
            BY <1>1, <1>2, <1>5, <1>6, <1>8, <1>f, <2>1 DEF Queued, Owing
        <3>2. y.reruns = 0 => LoneRun(d) /\ LoneRun(d)'
            BY <1>2, <1>3, <1>6, <1>8, <2>1 DEF RowSound, LoneRun
        <3>3. ASSUME y.reruns = 0, ~y.blind, y.received PROVE Accepted(d)'
            <4>1. Accepted(d) /\ y.st \in {o, "gone"}
                BY <1>2, <1>3, <1>8, <3>3 DEF RowSound
            <4>2. o = "success"
                BY <1>2, <1>6, <4>1 DEF Accepted
            <4>3. y.job.st \in {"running", "cancelled"} /\ w \in At(d)' /\ \A v \in At(d)' : v = w
                BY <1>2, <1>6, <1>8, <3>2, <3>3 DEF LoneRun
            <4> QED
                BY <1>5, <1>6, <1>f, <2>1, <4>1, <4>2, <4>3 DEF Accepted, Told
        <3>4. /\ x.job.st = "none" => x.told = 0 /\ At(d) = {}
              /\ x.told + Cardinality(Owing(d)) + Queued(d) <= 1 + x.reruns
              /\ x.st = "success" => x.received
              /\ o = "success" => x.received
            BY <1>2, <1>3, <1>6 DEF RowSound
        <3>5. \A v \in At(d)' : /\ work'[v].outcome = "success" => x.received
                                /\ work'[v].st = "announce" => Announced(work'[v].outcome)
            BY <1>2, <1>3, <1>5, <1>6, <1>f DEF RowSound, At
        <3> QED
            BY <1>6, <1>8, <2>1, <3>1, <3>2, <3>3, <3>4, <3>5 DEF RowSound
    <2>2. Rows' /\ Kept
        <3>1. /\ \A v \in Worker : work'[v] = work[v] \/
                   ((work[v].st # "idle" => work[v].d = d) /\ (work'[v].st # "idle" => work'[v].d = d))
              /\ \A v \in Worker : work'[v].st = "record" => work'[v].outcome \in {"success", "retry", "dead"}
            BY <1>2, <1>5, <1>6, <1>f DEF WebhooksInv, Rows
        <3>2. disp'.st = "enqueue" => disp' = disp /\ (disp.d = d => y.job.st = "none")
            BY <1>1, <1>2, <1>8 DEF WebhooksInv, Rows
        <3>3. y.hook = dels[d].hook /\ y.ev = dels[d].ev /\ y.origin = dels[d].origin
            BY <1>2, <1>8
        <3> QED
            BY <1>3, <1>6, <1>8, <2>1, <3>1, <3>2, <3>3, RowsMove
    <2> QED
        BY <1>1, <2>2, OthersStay
<1>9. CASE dels' = [dels EXCEPT ![d].st = IF @ = "gone" THEN @ ELSE o]
    <2>1. PICK s, y : s = (IF x.st = "gone" THEN x.st ELSE o) /\ y = [x EXCEPT !.st = s]
        OBVIOUS
    <2>2. s \in {o, "gone"}
        BY <2>1
    <2>3. dels' = [dels EXCEPT ![d] = y]
        BY <1>2, <1>3, <1>9, <2>1
    <2>4. /\ y \in Delivery /\ y.job = x.job /\ y.hook = x.hook /\ y.ev = x.ev /\ y.origin = x.origin
          /\ y.told = x.told /\ y.reruns = x.reruns /\ y.received = x.received /\ y.blind = x.blind
          /\ y.st = s
        BY <1>3, <2>1, <2>2 DEF Delivery
    <2> HIDE <1>9
    <2> QED
        BY <1>8, <2>2, <2>3, <2>4
<1>10. CASE dels' = [dels EXCEPT ![d].blind = TRUE]
    <2>1. PICK y : y = [x EXCEPT !.blind = r]
        OBVIOUS
    <2>2. dels' = [dels EXCEPT ![d] = y]
        BY <1>2, <1>3, <1>7, <1>10, <2>1
    <2>3. /\ y \in Delivery /\ y.job = x.job /\ y.hook = x.hook /\ y.ev = x.ev /\ y.origin = x.origin
          /\ y.told = x.told /\ y.reruns = x.reruns /\ y.received = x.received /\ y.blind
          /\ y.st = x.st
        BY <1>3, <1>7, <2>1 DEF Delivery
    <2> HIDE <1>10
    <2> QED
        BY <1>8, <2>2, <2>3
<1> QED
    BY <1>2, <1>9, <1>10 DEF Record

\* What the queue makes of a result: a running job ends or is queued again, and a
\* result that is announced ends it.
LEMMA NextJobResult ==
    ASSUME NEW job \in Job, NEW o, NEW k
    PROVE  /\ NextJob(job, o, k) \in Job
           /\ job.st # "running" => NextJob(job, o, k) = job
           /\ job.st = "running" => NextJob(job, o, k).st \in {"completed", "failed", "pending"}
           /\ job.st = "running" /\ Announced(o) => NextJob(job, o, k).st = "completed"
<1>1. CASE job.st # "running"
    BY <1>1 DEF NextJob
<1>2. CASE job.st = "running"
    <2>1. PICK s : s = IF o \in Terminal THEN "completed" ELSE IF k >= MaxAttempts THEN "failed" ELSE "pending"
        OBVIOUS
    <2>2. s \in {"completed", "failed", "pending"} /\ (Announced(o) => s = "completed")
        BY <2>1 DEF Announced
    <2>3. NextJob(job, o, k) = [job EXCEPT !.st = s]
        BY <1>2, <2>1 DEF NextJob
    <2> QED
        BY <1>2, <2>2, <2>3 DEF Job
<1> QED
    BY <1>1, <1>2

\* A terminal outcome is announced: the worker has paid what it owed.
LEMMA AnnounceStep ==
    ASSUME WebhooksInv, NEW w \in Worker, Announce(w), UNCHANGED bound
    PROVE  WebhooksInv'
<1>1. PICK d, x, k, y, z :
         /\ d = work[w].d /\ x = dels[d] /\ k = x.told + 1 /\ y = [x EXCEPT !.told = k]
         /\ z = [work[w] EXCEPT !.st = "finish"]
    OBVIOUS
<1>2. /\ work[w].st = "announce" /\ UNCHANGED <<pub, events, sub, disp, handled>>
      /\ work' = [work EXCEPT ![w].st = "finish"]
    BY DEF Announce
<1>3. /\ work[w] \in Run /\ work \in [Worker -> Run] /\ d \in DOMAIN dels /\ x \in Delivery
      /\ RowSound(d) /\ Rows
    BY <1>1, <1>2 DEF WebhooksInv, Rows
<1>4. x.told \in Nat /\ x.reruns \in Nat /\ k \in Nat
    BY <1>1, <1>3 DEF Delivery
<1>5. /\ y \in Delivery /\ y.job = x.job /\ y.told = k /\ y.hook = x.hook /\ y.ev = x.ev
      /\ y.origin = x.origin /\ y.reruns = x.reruns /\ y.st = x.st /\ y.received = x.received
      /\ y.blind = x.blind
    BY <1>1, <1>3, <1>4 DEF Delivery
<1>6. dels' = [dels EXCEPT ![d] = y]
    BY <1>1, <1>3 DEF Announce
<1>7. z \in Run /\ z.st = "finish" /\ z.outcome = work[w].outcome /\ z.d = d /\ work' = [work EXCEPT ![w] = z]
    BY <1>1, <1>2, <1>3 DEF Run
<1>8. /\ w \in At(d) /\ work' \in [Worker -> Run] /\ work'[w] = z
      /\ \A v \in Worker : v # w => work'[v] = work[v]
      /\ At(d)' = At(d)
    <2>1. /\ work[w].st # "idle" /\ d = work[w].d /\ z \in Run /\ z.st # "idle" /\ z.d = d
          /\ work' = [work EXCEPT ![w] = z]
        BY <1>1, <1>2, <1>7
    <2> QED
        BY ONLY WebhooksInv, w \in Worker, <2>1, RunGoesOn
<1>9. Announced(work[w].outcome)
    BY <1>2, <1>3, <1>8 DEF RowSound
<1>10. ASSUME dels'[d] = y PROVE RowSound(d)'
    <2>1. Owing(d)' = Owing(d) \ {w} /\ w \in Owing(d)
        BY <1>2, <1>7, <1>8, <1>9 DEF Owing
    <2>2. /\ Cardinality(Owing(d)') = Cardinality(Owing(d)) - 1
          /\ Cardinality(Owing(d)) \in Nat /\ Cardinality(Owing(d)') \in Nat
        BY <2>1, AtFinite, FS_RemoveElement, FS_CardinalityType
    <2>3. Queued(d)' = Queued(d) /\ Queued(d) \in Nat
        BY <1>1, <1>5, <1>10 DEF Queued
    <2>4. /\ x.told + Cardinality(Owing(d)) + Queued(d) <= 1 + x.reruns
          /\ x.job.st = "none" => At(d) = {}
          /\ x.st = "success" => x.received
        BY <1>1, <1>3 DEF RowSound
    <2>5. y.told + Cardinality(Owing(d)') + Queued(d)' <= 1 + y.reruns
        BY <1>1, <1>4, <1>5, <2>2, <2>3, <2>4
    <2>6. y.reruns = 0 => LoneRun(d)'
        BY <1>1, <1>3, <1>5, <1>8, <1>10 DEF RowSound, LoneRun
    <2>7. \A v \in At(d)' : /\ work'[v].outcome = "success" => y.received
                            /\ work'[v].st = "announce" => Announced(work'[v].outcome)
        BY <1>1, <1>3, <1>5, <1>7, <1>8 DEF RowSound
    <2>8. ASSUME y.reruns = 0, ~y.blind, y.received PROVE Accepted(d)'
        <3>1. Accepted(d)
            BY <1>1, <1>3, <1>5, <2>8 DEF RowSound
        <3> QED
            BY <1>1, <1>2, <1>5, <1>7, <1>8, <1>10, <3>1 DEF Accepted, Told
    <2> QED
        BY <1>5, <1>8, <1>10, <2>4, <2>5, <2>6, <2>7, <2>8 DEF RowSound
<1>11. Rows' /\ Kept
    <2>1. /\ \A v \in Worker : work'[v] = work[v] \/
               ((work[v].st # "idle" => work[v].d = d) /\ (work'[v].st # "idle" => work'[v].d = d))
          /\ \A v \in Worker : work'[v].st = "record" => work'[v].outcome \in {"success", "retry", "dead"}
        BY <1>1, <1>7, <1>8 DEF WebhooksInv, Rows
    <2>2. disp'.st = "enqueue" => disp' = disp /\ (disp.d = d => y.job.st = "none")
        BY <1>1, <1>2, <1>5 DEF WebhooksInv, Rows
    <2>3. y.hook = dels[d].hook /\ y.ev = dels[d].ev /\ y.origin = dels[d].origin
        BY <1>1, <1>5
    <2> HIDE <1>1
    <2> QED
        BY <1>3, <1>5, <1>6, <1>8, <1>10, <2>1, <2>2, <2>3, RowsMove
<1> QED
    BY <1>2, <1>11, OthersStay

\* A run ends: an announced one has ended the job, another may queue it again.
LEMMA FinishStep ==
    ASSUME WebhooksInv, NEW w \in Worker, Finish(w), UNCHANGED bound
    PROVE  WebhooksInv'
<1>1. PICK d, x, o, j, y :
         /\ d = work[w].d /\ x = dels[d] /\ o = work[w].outcome
         /\ j = NextJob(x.job, o, work[w].attempts)
         /\ y = [x EXCEPT !.job = j]
    OBVIOUS
<1>2. /\ work[w].st = "finish" /\ UNCHANGED <<pub, events, sub, disp, handled>>
      /\ work' = [work EXCEPT ![w] = Free]
    BY DEF Finish
<1>3. /\ work \in [Worker -> Run] /\ d \in DOMAIN dels /\ x \in Delivery /\ RowSound(d) /\ Rows
      /\ x.told \in Nat /\ x.reruns \in Nat /\ x.job \in Job
    <2>1. work \in [Worker -> Run] /\ d \in DOMAIN dels /\ x \in Delivery /\ RowSound(d) /\ Rows
        BY <1>1, <1>2 DEF WebhooksInv, Rows
    <2> QED
        BY <2>1 DEF Delivery
<1>4. /\ j \in Job /\ (x.job.st # "running" => j = x.job)
      /\ x.job.st = "running" => j.st \in {"completed", "failed", "pending"}
      /\ x.job.st = "running" /\ Announced(o) => j.st = "completed"
    BY <1>1, <1>3, NextJobResult
<1>6. dels' = [dels EXCEPT ![d] = y]
    BY <1>1, <1>3 DEF Finish
<1>7. /\ y \in Delivery /\ y.job = j /\ y.told = x.told /\ y.hook = x.hook /\ y.ev = x.ev
      /\ y.origin = x.origin /\ y.reruns = x.reruns /\ y.st = x.st /\ y.received = x.received
      /\ y.blind = x.blind
    <2>1. y = [x EXCEPT !.job = j] /\ x \in Delivery /\ j \in Job
        BY <1>1, <1>3, <1>4
    <2> QED
        BY ONLY <2>1 DEF Delivery
<1>8. /\ work' \in [Worker -> Run] /\ work'[w].st = "idle"
      /\ \A v \in Worker : v # w => work'[v] = work[v]
    BY <1>2, <1>3, FreeType
<1>9. x.told + Cardinality(Owing(d)) + Queued(d) <= 1 + x.reruns /\ x.job.st # "none" /\ w \in At(d)
    BY <1>1, <1>2, <1>3 DEF RowSound, At
<1>10. ASSUME dels'[d] = y PROVE RowSound(d)'
    <2>1. At(d)' = At(d) \ {w} /\ Owing(d)' = Owing(d) \ {w}
        BY <1>8 DEF At, Owing
    <2>2. /\ Queued(d) \in {0, 1} /\ Queued(d)' \in {0, 1}
          /\ Announced(o) => Queued(d)' <= Queued(d)
        BY <1>1, <1>4, <1>7, <1>10 DEF Queued
    <2>3. /\ Cardinality(Owing(d)') + Queued(d)' <= Cardinality(Owing(d)) + Queued(d)
          /\ Cardinality(Owing(d)) \in Nat /\ Cardinality(Owing(d)') \in Nat
        <3>1. CASE Announced(o)
            <4>1. Owing(d)' = Owing(d)
                BY <1>1, <1>2, <2>1, <3>1 DEF Owing
            <4> QED
                BY <2>2, <3>1, <4>1, AtFinite
        <3>2. CASE ~Announced(o)
            <4>1. w \in Owing(d)
                BY <1>1, <1>9, <3>2 DEF Owing
            <4>2. /\ Cardinality(Owing(d)') = Cardinality(Owing(d)) - 1
                  /\ Cardinality(Owing(d)) \in Nat /\ Cardinality(Owing(d)') \in Nat
                BY <2>1, <4>1, AtFinite, FS_RemoveElement, FS_CardinalityType
            <4> QED
                BY <2>2, <4>2
        <3> QED
            BY <3>1, <3>2
    <2>4. x.told + Cardinality(Owing(d)') + Queued(d)' <= 1 + x.reruns
        BY <1>3, <1>9, <2>2, <2>3
    <2>5. x.reruns = 0 => LoneRun(d) /\ At(d)' = {}
        BY <1>1, <1>3, <1>9, <2>1 DEF RowSound, LoneRun
    <2>6. y.reruns = 0 => LoneRun(d)'
        BY <1>7, <2>5 DEF LoneRun
    <2>7. ASSUME x.reruns = 0, ~x.blind, x.received PROVE Accepted(d)'
        <3>1. Accepted(d)
            BY <1>1, <1>3, <2>7 DEF RowSound
        <3>2. x.job.st \in {"running", "cancelled"} /\ o = "success" /\ x.st \in {"success", "gone"}
            BY <1>1, <1>2, <1>9, <2>5, <2>7, <3>1 DEF LoneRun, Accepted, Told
        <3>3. j.st \in {"completed", "cancelled"}
            BY <1>4, <3>2 DEF Announced, Terminal
        <3> QED
            BY <1>7, <1>10, <2>5, <2>7, <3>2, <3>3 DEF Accepted, Told
    <2>8. x.st = "success" => x.received
        BY <1>1, <1>3 DEF RowSound
    <2>9. \A v \in At(d)' : /\ work'[v].outcome = "success" => x.received
                            /\ work'[v].st = "announce" => Announced(work'[v].outcome)
        BY <1>1, <1>3, <1>8, <2>1 DEF RowSound, At
    <2>10. j.st # "none"
        BY <1>4, <1>9
    <2> QED
        BY <1>7, <1>10, <2>4, <2>6, <2>7, <2>8, <2>9, <2>10 DEF RowSound
<1>11. Rows' /\ Kept
    <2>1. /\ \A v \in Worker : work'[v] = work[v] \/
               ((work[v].st # "idle" => work[v].d = d) /\ (work'[v].st # "idle" => work'[v].d = d))
          /\ \A v \in Worker : work'[v].st = "record" => work'[v].outcome \in {"success", "retry", "dead"}
        BY <1>1, <1>8 DEF WebhooksInv, Rows
    <2>2. disp'.st = "enqueue" => disp' = disp /\ (disp.d = d => y.job.st = "none")
        BY <1>1, <1>2, <1>9 DEF WebhooksInv, Rows
    <2>3. y.hook = dels[d].hook /\ y.ev = dels[d].ev /\ y.origin = dels[d].origin
        BY <1>1, <1>7
    <2> HIDE <1>1
    <2> QED
        BY <1>3, <1>6, <1>7, <1>8, <1>10, <2>1, <2>2, <2>3, RowsMove
<1> QED
    BY <1>2, <1>11, OthersStay

\* A worker is lost: its run is used up without an announcement.
LEMMA AbandonStep ==
    ASSUME WebhooksInv, NEW w \in Worker, Abandon(w), UNCHANGED bound
    PROVE  WebhooksInv'
<1>1. UNCHANGED <<pub, events, sub, disp, handled>> /\ work' = [work EXCEPT ![w] = Free]
    BY DEF Abandon
<1>2. PICK ws \in SUBSET Worker : ws = {w}
    OBVIOUS
<1>3. dels' = LoseOutcomes(ws)
    BY <1>2 DEF Abandon
<1>4. /\ work' \in [Worker -> Run]
      /\ \A v \in Worker : IF v \in ws THEN work'[v].st = "idle" ELSE work'[v] = work[v]
    BY <1>1, <1>2, FreeType DEF WebhooksInv, Rows
<1>5. Rows' /\ Kept
    BY <1>1, <1>3, <1>4, RowsLose DEF WebhooksInv
<1> QED
    BY <1>1, <1>5, OthersStay

\* The job of a row is written from outside: to be cancelled, or to be pending again
\* and counted.
LEMMA JobSet ==
    ASSUME WebhooksInv, UNCHANGED <<bound, pub, events, sub, disp, handled, work>>,
           NEW d \in DOMAIN dels, dels[d].job.st # "none", NEW j \in Job, NEW k \in Nat,
           dels' = [dels EXCEPT ![d] = [dels[d] EXCEPT !.job = j, !.reruns = k]],
           \/ j.st = "cancelled" /\ k = dels[d].reruns
           \/ j.st = "pending" /\ k = dels[d].reruns + 1
    PROVE  WebhooksInv'
<1>1. PICK x, y : x = dels[d] /\ y = [x EXCEPT !.job = j, !.reruns = k]
    OBVIOUS
<1>2. x \in Delivery /\ RowSound(d) /\ Rows
    BY <1>1 DEF WebhooksInv, Rows
<1>3. /\ y \in Delivery /\ y.job = j /\ y.hook = x.hook /\ y.ev = x.ev
      /\ y.origin = x.origin /\ y.told = x.told /\ y.reruns = k /\ y.st = x.st
      /\ y.received = x.received /\ y.blind = x.blind /\ x.told \in Nat /\ x.reruns \in Nat
    BY <1>1, <1>2 DEF Delivery
<1>4. dels' = [dels EXCEPT ![d] = y]
    BY <1>1
<1>5. ASSUME dels'[d] = y PROVE RowSound(d)'
    <2>1. At(d)' = At(d) /\ Owing(d)' = Owing(d) /\ Cardinality(Owing(d)) \in Nat
        BY AtFinite DEF At, Owing
    <2>2. Queued(d) \in {0, 1} /\ Queued(d)' = (IF j.st = "pending" THEN 1 ELSE 0)
        BY <1>3, <1>5 DEF Queued
    <2>3. /\ x.told + Cardinality(Owing(d)) + Queued(d) <= 1 + x.reruns
          /\ x.st = "success" => x.received
        BY <1>1, <1>2 DEF RowSound
    <2>4. y.told + Cardinality(Owing(d)') + Queued(d)' <= 1 + y.reruns
        BY <1>1, <1>3, <2>1, <2>2, <2>3
    <2>5. k = 0 => j.st = "cancelled" /\ x.reruns = 0
        BY <1>1, <1>3
    <2>6. y.reruns = 0 => LoneRun(d)'
        BY <1>1, <1>2, <1>3, <1>5, <2>1, <2>5 DEF RowSound, LoneRun
    <2>7. \A v \in At(d)' : /\ work'[v].outcome = "success" => x.received
                            /\ work'[v].st = "announce" => Announced(work'[v].outcome)
        BY <1>1, <1>2, <2>1 DEF RowSound
    <2>8. ASSUME y.reruns = 0, ~y.blind, y.received PROVE Accepted(d)'
        <3>1. Accepted(d) /\ y.job.st = "cancelled"
            BY <1>1, <1>2, <1>3, <2>5, <2>8 DEF RowSound
        <3>2. Told(d)' <=> Told(d)
            BY <1>1, <1>3, <1>5 DEF Told
        <3>3. \A v \in At(d) : work'[v] = work[v]
            OBVIOUS
        <3> QED
            BY <1>5, <2>1, <3>1, <3>2, <3>3 DEF Accepted
    <2>9. y.job.st # "none"
        BY <1>3
    <2> QED
        BY <1>3, <1>5, <2>3, <2>4, <2>6, <2>7, <2>8, <2>9 DEF RowSound
<1>6. Rows' /\ Kept
    <2>1. /\ work' \in [Worker -> Run] /\ \A v \in Worker : work'[v] = work[v]
          /\ \A v \in Worker : work'[v].st = "record" => work'[v].outcome \in {"success", "retry", "dead"}
        BY DEF WebhooksInv, Rows
    <2>2. disp'.st = "enqueue" => disp' = disp /\ (disp.d = d => y.job.st = "none")
        BY DEF WebhooksInv, Rows
    <2>3. y.hook = dels[d].hook /\ y.ev = dels[d].ev /\ y.origin = dels[d].origin
        BY <1>1, <1>3
    <2> HIDE <1>1
    <2> QED
        BY <1>2, <1>3, <1>4, <1>5, <2>1, <2>2, <2>3, RowsMove
<1> QED
    BY <1>6, OthersStay

\* The sweep queues the job again and counts it.
LEMMA RecoverStep ==
    ASSUME WebhooksInv, NEW d \in DOMAIN dels, Recover(d), UNCHANGED bound
    PROVE  WebhooksInv'
<1>1. dels[d].job.st = "running" /\ UNCHANGED <<pub, events, sub, disp, handled, work>>
    BY DEF Recover
<1>2. dels[d] \in Delivery /\ dels[d].job \in Job /\ dels[d].reruns \in Nat
    <2>1. dels[d] \in Delivery
        BY DEF WebhooksInv, Rows
    <2> QED
        BY <2>1 DEF Delivery
<1>3. PICK j, k : j = [dels[d].job EXCEPT !.st = "pending"] /\ k = dels[d].reruns + 1
    OBVIOUS
<1>4. j \in Job /\ j.st = "pending" /\ k \in Nat
    BY <1>2, <1>3 DEF Job
<1>5. dels' = [dels EXCEPT ![d] = [dels[d] EXCEPT !.job = j, !.reruns = k]]
    BY <1>2, <1>3 DEF Recover, Delivery
<1> QED
    BY <1>1, <1>3, <1>4, <1>5, JobSet

\* A reset does so too.
LEMMA ResetStep ==
    ASSUME WebhooksInv, NEW d \in DOMAIN dels, Reset(d), UNCHANGED bound
    PROVE  WebhooksInv'
<1>1. /\ dels[d].job.st \in {"failed", "cancelled"}
      /\ UNCHANGED <<pub, events, sub, disp, handled, work>>
    BY DEF Reset
<1>2. dels[d] \in Delivery /\ dels[d].reruns \in Nat
    <2>1. dels[d] \in Delivery
        BY DEF WebhooksInv, Rows
    <2> QED
        BY <2>1 DEF Delivery
<1>3. PICK j, k : j = [st |-> "pending", attempts |-> 0] /\ k = dels[d].reruns + 1
    OBVIOUS
<1>4. j \in Job /\ j.st = "pending" /\ k \in Nat
    BY <1>2, <1>3 DEF Job
<1>5. dels' = [dels EXCEPT ![d] = [dels[d] EXCEPT !.job = j, !.reruns = k]]
    BY <1>2, <1>3 DEF Reset, Delivery
<1> QED
    BY <1>1, <1>3, <1>4, <1>5, JobSet

\* A cancelled job is not queued; its run goes on alone.
LEMMA CancelStep ==
    ASSUME WebhooksInv, NEW d \in DOMAIN dels, Cancel(d), UNCHANGED bound
    PROVE  WebhooksInv'
<1>1. /\ dels[d].job.st \in {"pending", "running"}
      /\ UNCHANGED <<pub, events, sub, disp, handled, work>>
    BY DEF Cancel
<1>2. dels[d] \in Delivery /\ dels[d].job \in Job /\ dels[d].reruns \in Nat
    <2>1. dels[d] \in Delivery
        BY DEF WebhooksInv, Rows
    <2> QED
        BY <2>1 DEF Delivery
<1>3. PICK j, k : j = [dels[d].job EXCEPT !.st = "cancelled"] /\ k = dels[d].reruns
    OBVIOUS
<1>4. j \in Job /\ j.st = "cancelled" /\ k \in Nat
    BY <1>2, <1>3 DEF Job
<1>5. dels' = [dels EXCEPT ![d] = [dels[d] EXCEPT !.job = j, !.reruns = k]]
    BY <1>2, <1>3 DEF Cancel, Delivery
<1> QED
    BY <1>1, <1>3, <1>4, <1>5, JobSet

-----------------------------------------------------------------------------
(* The process *)

\* The subscription of a process that has just started.
LEMMA SubscribedType ==
    Subscribed \in Subscription /\ Subscribed.st = "up" /\ Subscribed.q = << >>
<1>1. PICK b \in BOOLEAN : b = TRUE
    OBVIOUS
<1>2. Subscribed = [st |-> "up", listed |-> b, open |-> b, q |-> << >>]
    BY <1>1 DEF Subscribed
<1>3. << >> \in Seq(Event)
    BY EmptySeq
<1> QED
    BY <1>2, <1>3 DEF Subscription, Phase

\* A process that has just started.
Fresh ==
    /\ sub = Subscribed /\ disp = Ready /\ pub = [r \in Handler |-> Quiet]
    /\ events \in Nat /\ events <= bound.events /\ handled \in [1 .. bound.events -> Account]
    /\ \A n \in 1 .. bound.events : handled[n].done => n <= events

\* Nothing is published, queued or dispatched in it.
LEMMA FreshProcess == Fresh => Bus /\ Flow /\ ~Busy
<1> SUFFICES ASSUME Fresh PROVE Bus /\ Flow /\ ~Busy
    OBVIOUS
<1>1. /\ pub \in [Handler -> Publisher] /\ sub \in Subscription /\ sub.st = "up" /\ sub.q = << >>
      /\ \A r \in Handler : pub[r].st = "idle"
    BY QuietType, SubscribedType DEF Fresh
<1>2. Bus
    BY <1>1 DEF Bus
<1>3. disp \in Dispatch /\ ~Busy
    BY DEF Fresh, Ready, Dispatch, Busy
<1>4. DOMAIN sub.q = {} /\ \A r \in Handler : ~Sending(r)
    BY <1>1 DEF Sending
<1>5. Flow
    BY <1>3, <1>4 DEF Fresh, Flow
<1> QED
    BY <1>2, <1>3, <1>5

\* The process dies: what was in it is gone, with the outcomes not yet recorded.
LEMMA CrashStep ==
    ASSUME WebhooksInv, Crash, UNCHANGED bound
    PROVE  WebhooksInv'
<1>1. /\ sub' = Subscribed /\ disp' = Ready /\ pub' = [r \in Handler |-> Quiet]
      /\ work' = [w \in Worker |-> Free] /\ UNCHANGED <<events, handled>>
    BY DEF Crash
<1>2. (Bus /\ Flow /\ ~Busy)'
    <2>1. Fresh'
        BY <1>1 DEF WebhooksInv, Flow, Fresh
    <2> QED
        BY <2>1, FreshProcess, PTL
<1>3. Rows' /\ Kept
    <2>1. disp'.st # "enqueue"
        BY <1>1 DEF Ready
    <2>2. /\ work' \in [Worker -> Run]
          /\ \A w \in Worker : IF w \in Worker THEN work'[w].st = "idle" ELSE work'[w] = work[w]
        BY <1>1, FreeType
    <2>3. PICK ws \in SUBSET Worker : ws = Worker
        OBVIOUS
    <2>4. dels' = LoseOutcomes(ws)
        BY <2>3 DEF Crash
    <2> QED
        BY <2>1, <2>2, <2>3, <2>4, RowsLose DEF WebhooksInv
<1>4. Matched'
    <2>1. \A h, n : HasRow(h, n) => HasRow(h, n)'
        BY <1>3, RowsRemain
    <2>2. \A n \in DOMAIN handled : handled[n].done =>
             \A h \in handled[n].found \ handled[n].failed : HasRow(h, n)
        BY DEF WebhooksInv, Matched, EachMatchServed, HasRow
    <2>3. \A n \in DOMAIN handled' : handled'[n].done =>
             \A h \in handled'[n].found \ handled'[n].failed : HasRow(h, n)'
        BY <1>1, <2>1, <2>2
    <2> QED
        BY <1>2, <2>3 DEF Matched, EachMatchServed, HasRow
<1> QED
    BY <1>2, <1>3, <1>4 DEF WebhooksInv

\* Nothing has happened yet.
LEMMA InitHolds == Init => WebhooksInv
<1> SUFFICES ASSUME Init PROVE WebhooksInv
    OBVIOUS
<1>1. bound \in Instance /\ bound.events \in Nat
    BY DEF Init, Instance
<1>2. PICK b \in BOOLEAN : b = FALSE
    OBVIOUS
<1>3. /\ handled = [n \in 1 .. bound.events |-> [done |-> b, found |-> {}, failed |-> {}]]
      /\ sub = Subscribed /\ disp = Ready /\ pub = [r \in Handler |-> Quiet] /\ events = 0
      /\ dels = << >> /\ work = [w \in Worker |-> Free]
    BY <1>2 DEF Init
<1>4. handled \in [1 .. bound.events -> Account] /\ \A n \in 1 .. bound.events : ~handled[n].done
    BY <1>2, <1>3 DEF Account
<1>5. Bus /\ Flow /\ ~Busy
    <2>1. sub = Subscribed /\ disp = Ready /\ pub = [r \in Handler |-> Quiet] /\ events = 0
        BY <1>3
    <2>2. events \in Nat /\ events <= bound.events
        BY <1>1, <2>1
    <2>3. Fresh
        BY <1>4, <2>1, <2>2 DEF Fresh
    <2> QED
        BY <2>3, FreshProcess
<1>6. Matched
    BY <1>4, <1>5 DEF Matched, EachMatchServed
<1>7. Rows
    <2>1. dels \in Seq(Delivery) /\ DOMAIN dels = {}
        BY <1>3, EmptySeq
    <2>2. work \in [Worker -> Run] /\ \A w \in Worker : work[w].st = "idle"
        BY <1>3, FreeType
    <2>3. disp.st = "ready"
        BY <1>3 DEF Ready
    <2> QED
        BY <2>1, <2>2, <2>3 DEF Rows
<1> QED
    BY <1>1, <1>5, <1>6, <1>7 DEF WebhooksInv

\* Every step preserves the invariant.
LEMMA NextKeeps == WebhooksInv /\ [Next]_vars => WebhooksInv'
<1> SUFFICES ASSUME WebhooksInv, [Next]_vars PROVE WebhooksInv'
    OBVIOUS
<1>1. CASE UNCHANGED vars
    <2>1. UNCHANGED <<bound, pub, events, sub, disp, handled, dels, work>>
        BY <1>1 DEF vars
    <2>2. Rows' /\ Kept
        BY <2>1, RowsStay DEF WebhooksInv, Kept
    <2> QED
        BY <2>1, <2>2, OthersStay
<1>2. CASE Next
    <2>0. /\ UNCHANGED bound /\ bound.handlers \subseteq Handler /\ bound.workers \subseteq Worker
          /\ bound.topics \subseteq Topic
        BY <1>2 DEF Next, WebhooksInv, Instance
    <2>1. ASSUME NEW r \in bound.handlers, NEW t \in bound.topics, PublishBegin(r, t) PROVE WebhooksInv'
        BY <2>0, <2>1, PublishBeginStep
    <2>2. ASSUME NEW r \in bound.handlers, PublishSend(r) PROVE WebhooksInv'
        BY <2>0, <2>2, PublishSendStep
    <2>3. CASE Unsubscribe \/ UnsubscribeReturns
        BY <2>0, <2>3, ShutdownStep
    <2>4. CASE Dispatcher
        BY <2>0, <2>4, DispatchListStep, DispatchInsertStep, DispatchEnqueueStep, DispatchDoneStep
           DEF Dispatcher
    <2>5. ASSUME NEW h \in Hook, SetActive(h) \/ DeleteHook(h) PROVE WebhooksInv'
        BY <2>0, <2>5, SetActiveStep, DeleteHookStep
    <2>6. ASSUME NEW d \in DOMAIN dels, Replay(d) \/ Cancel(d) \/ Reset(d) \/ Recover(d)
          PROVE  WebhooksInv'
        BY <2>0, <2>6, ReplayStep, CancelStep, ResetStep, RecoverStep
    <2>7. ASSUME NEW w \in bound.workers, Deliver(w) \/ Abandon(w) PROVE WebhooksInv'
        BY <2>0, <2>7, CheckStep, PostStep, RecordStep, AnnounceStep, FinishStep, AbandonStep
           DEF Deliver
    <2>8. ASSUME NEW w \in bound.workers, NEW d \in DOMAIN dels, Claim(w, d) PROVE WebhooksInv'
        BY <2>0, <2>8, ClaimStep
    <2>9. CASE Crash
        BY <2>0, <2>9, CrashStep
    <2> QED
        BY <1>2, <2>1, <2>2, <2>3, <2>4, <2>5, <2>6, <2>7, <2>8, <2>9 DEF Next
<1> QED
    BY <1>1, <1>2

-----------------------------------------------------------------------------
(* The theorems *)

\* The inductive invariant of publishers, queue, dispatcher, rows and workers.
THEOREM WebhooksInvariant == Spec => []WebhooksInv
BY InitHolds, NextKeeps, PTL DEF Spec

\* When dispatch is through with an event, every webhook it found has a row for it
\* or is noted as failed, through crashes, deletions and replays.
THEOREM ServesMatches == Spec => []EachMatchServed
<1>1. WebhooksInv => EachMatchServed
    BY DEF WebhooksInv, Matched
<1> QED
    BY <1>1, WebhooksInvariant, PTL

\* "success" is never made up; once nobody is at an accepted delivery its row tells
\* otherwise only after the sweep or a reset made its job pending again or a result
\* was lost; and there is at most one announcement for each time the job was queued.
THEOREM TellsTruth == Spec => []OutcomeHonest
<1>1. ASSUME WebhooksInv PROVE OutcomeHonest
    <2>1. ASSUME NEW d \in DOMAIN dels
          PROVE  /\ dels[d].st = "success" => dels[d].received
                 /\ dels[d].received /\ dels[d].st \in {"pending", "retry", "dead"} /\ ~Working(d)
                         => dels[d].reruns > 0 \/ dels[d].blind
                 /\ dels[d].told <= 1 + dels[d].reruns
        <3>1. RowSound(d) /\ dels[d] \in Delivery
            BY <1>1 DEF WebhooksInv, Rows
        <3>2. /\ dels[d].told \in Nat /\ dels[d].reruns \in Nat /\ Queued(d) \in Nat
              /\ Cardinality(Owing(d)) \in Nat
            BY <3>1, AtFinite DEF Delivery, Queued
        <3>3. dels[d].told <= 1 + dels[d].reruns
            BY <3>1, <3>2 DEF RowSound
        <3>4. ~Working(d) => At(d) = {}
            BY DEF Working, At
        <3>5. dels[d].reruns = 0 /\ ~dels[d].blind /\ dels[d].received /\ ~Working(d) =>
                 dels[d].st \in {"success", "gone"}
            BY <3>1, <3>4 DEF RowSound, Accepted, Told
        <3>6. dels[d].reruns > 0 \/ dels[d].reruns = 0
            BY <3>2
        <3> QED
            BY <3>1, <3>3, <3>5, <3>6 DEF RowSound
    <2> QED
        BY <2>1 DEF OutcomeHonest
<1> QED
    BY <1>1, WebhooksInvariant, PTL

\* A Publish that panics copied the list before the Unsubscribe it collides with.
THEOREM PanicsOnOverlap == Spec => []PanicNeedsOverlap
<1>1. WebhooksInv => PanicNeedsOverlap
    BY DEF WebhooksInv, Bus, PanicNeedsOverlap
<1> QED
    BY <1>1, WebhooksInvariant, PTL

-----------------------------------------------------------------------------
(* Realtime *)

\* What the proofs need of the assumption.
LEMMA Sizes ==
  /\ BusCap \in Nat \ {0} /\ QueueCap \in Nat \ {0} /\ RingCap \in Nat \ {0}
  /\ MaxEvents \in Nat /\ MaxRestarts \in Nat
  /\ None \notin Client \cup Fan
BY RealtimeAssumption

-----------------------------------------------------------------------------
(* The loop of replaySince *)

\* Induction over the numbers, for a set.
LEMMA Inductive ==
  ASSUME NEW S, 0 \in S, \A n \in Nat : n \in S => n + 1 \in S
  PROVE  Nat \subseteq S
<1> DEFINE D == Nat \ S
<1> SUFFICES ASSUME D # {} PROVE FALSE
  OBVIOUS
<1>1. PICK d \in D : \A y \in D : ~(<<y, d>> \in OpToRel(<, Nat))
  BY WFMin, NatLessThanWellFounded
<1>2. d \in Nat /\ d \notin S /\ d # 0
  BY <1>1
<1>3. d - 1 \in Nat /\ d - 1 < d /\ d = (d - 1) + 1
  BY <1>2
<1>4. d - 1 \in S
  BY <1>1, <1>2, <1>3 DEF OpToRel
<1> QED
  BY <1>2, <1>3, <1>4

\* f is what a loop over B's values at 1..N that keeps those at M computes.
Keeping(f, N, B, M) ==
  f = [n \in 0..N |-> IF n = 0 THEN <<>>
                      ELSE IF n \in M THEN Append(f[n - 1], B[n]) ELSE f[n - 1]]

LEMMA KeptExists ==
  ASSUME NEW N \in Nat, NEW B, NEW M
  PROVE  \E f : Keeping(f, N, B, M)
<1> DEFINE S == {m \in Nat : \E f : Keeping(f, m, B, M)}
<1>1. 0 \in S
  <2>1. [n \in 0..0 |-> <<>>] = [n \in 0..0 |->
                      IF n = 0 THEN <<>>
                      ELSE IF n \in M THEN Append([k \in 0..0 |-> <<>>][n - 1], B[n])
                           ELSE [k \in 0..0 |-> <<>>][n - 1]]
    OBVIOUS
  <2>2. Keeping([n \in 0..0 |-> <<>>], 0, B, M)
    BY <2>1 DEF Keeping
  <2> QED
    BY <2>2
<1>2. ASSUME NEW m \in Nat, m \in S PROVE m + 1 \in S
  <2>1. PICK f : f = [n \in 0..m |->
                      IF n = 0 THEN <<>>
                      ELSE IF n \in M THEN Append(f[n - 1], B[n]) ELSE f[n - 1]]
    BY <1>2 DEF Keeping
  <2> DEFINE g == [n \in 0..(m + 1) |->
                     IF n = m + 1
                     THEN IF n \in M THEN Append(f[m], B[n]) ELSE f[m]
                     ELSE f[n]]
  <2>2. ASSUME NEW n \in 0..(m + 1)
        PROVE  g[n] = IF n = 0 THEN <<>>
                      ELSE IF n \in M THEN Append(g[n - 1], B[n]) ELSE g[n - 1]
    <3>1. CASE n = m + 1
      <4>1. n # 0 /\ n - 1 = m /\ m \in 0..(m + 1) /\ m # m + 1
        BY <3>1
      <4>2. g[n - 1] = f[m]
        BY <4>1
      <4> QED
        BY <3>1, <4>1, <4>2
    <3>2. CASE n = 0
      BY <2>1, <3>2
    <3>3. CASE n # 0 /\ n # m + 1
      <4>1. n \in 0..m /\ n - 1 \in 0..m /\ n - 1 # m + 1 /\ n - 1 \in 0..(m + 1)
        BY <3>3
      <4>2. g[n] = f[n] /\ g[n - 1] = f[n - 1]
        BY <3>3, <4>1
      <4>3. f[n] = IF n = 0 THEN <<>>
                   ELSE IF n \in M THEN Append(f[n - 1], B[n]) ELSE f[n - 1]
        BY <2>1, <4>1
      <4> QED
        BY <4>2, <4>3
    <3> QED
      BY <3>1, <3>2, <3>3
  <2>3. PICK h : h = g
    OBVIOUS
  <2>4. h = [n \in 0..(m + 1) |-> h[n]]
    BY <2>3
  <2> HIDE DEF g
  <2>5. h = [n \in 0..(m + 1) |->
                      IF n = 0 THEN <<>>
                      ELSE IF n \in M THEN Append(h[n - 1], B[n]) ELSE h[n - 1]]
    BY <2>2, <2>3, <2>4
  <2>6. Keeping(h, m + 1, B, M)
    BY <2>5 DEF Keeping
  <2> QED
    BY <2>6
<1>3. Nat \subseteq S
  <2> HIDE DEF S
  <2> QED
    BY <1>1, <1>2, Inductive
<1> QED
  BY <1>3

\* What the loop has kept of n entries: those, in their order, and no others.
Keeps(f, n, B, M) ==
  /\ f[n] \in Seq(Entry)
  /\ \A i \in DOMAIN f[n] : \E k \in 1..n : k \in M /\ f[n][i] = B[k]
  /\ \A i, j \in DOMAIN f[n] : i < j => f[n][i].g < f[n][j].g
  /\ \A k \in 1..n : k \in M => \E i \in DOMAIN f[n] : f[n][i] = B[k]

LEMMA KeptIs ==
  ASSUME NEW N \in Nat, NEW B, NEW M, NEW f,
         \A n \in 1..N : B[n] \in Entry,
         \A n, k \in 1..N : n < k => B[n].g < B[k].g,
         f[0] = <<>>,
         \A n \in 1..N : f[n] = IF n \in M THEN Append(f[n - 1], B[n]) ELSE f[n - 1]
  PROVE  Keeps(f, N, B, M)
<1> DEFINE S == {n \in Nat : n <= N => Keeps(f, n, B, M)}
<1>1. 0 \in S
  <2>1. f[0] \in Seq(Entry) /\ DOMAIN f[0] = {} /\ 1..0 = {}
    OBVIOUS
  <2> QED
    BY <2>1 DEF Keeps
<1>2. ASSUME NEW m \in Nat, m \in S PROVE m + 1 \in S
  <2> SUFFICES ASSUME m + 1 <= N PROVE Keeps(f, m + 1, B, M)
    OBVIOUS
  <2>1. Keeps(f, m, B, M)
    BY <1>2
  <2>2. PICK n : n = m + 1
    OBVIOUS
  <2>3. n \in 1..N /\ n - 1 = m /\ 1..n = (1..m) \cup {n} /\ \A k \in 1..m : k \in 1..N /\ k < n
    BY <2>2
  <2>4. f[n] = IF n \in M THEN Append(f[m], B[n]) ELSE f[m]
    BY <2>3
  <2>5. CASE n \notin M
    BY <2>1, <2>2, <2>3, <2>4, <2>5 DEF Keeps
  <2>6. CASE n \in M
    <3>1. PICK s \in Seq(Entry) : s = f[m]
      BY <2>1 DEF Keeps
    <3>2. PICK b \in Entry : b = B[n]
      BY <2>3
    <3>3. f[n] = Append(s, b) /\ f[n] \in Seq(Entry)
      BY <2>4, <2>6, <3>1, <3>2
    <3>4. /\ DOMAIN f[n] = 1..(Len(s) + 1) /\ DOMAIN s = 1..Len(s) /\ Len(s) \in Nat
          /\ \A i \in 1..Len(s) : f[n][i] = s[i]
          /\ f[n][Len(s) + 1] = b
      BY <3>3
    <3>5. \A i \in DOMAIN s : \E k \in 1..m : k \in M /\ s[i] = B[k]
      BY <2>1, <3>1 DEF Keeps
    <3>6. \A i \in DOMAIN s : s[i].g < b.g
      BY <2>3, <3>2, <3>5
    <3>7. \A i \in DOMAIN f[n] : \E k \in 1..n : k \in M /\ f[n][i] = B[k]
      <4> SUFFICES ASSUME NEW i \in DOMAIN f[n] PROVE \E k \in 1..n : k \in M /\ f[n][i] = B[k]
        OBVIOUS
      <4>1. CASE i = Len(s) + 1
        <5>1. f[n][i] = B[n]
          BY <3>2, <3>4, <4>1
        <5>2. n \in 1..n
          BY <2>3
        <5> QED
          BY <2>6, <5>1, <5>2
      <4>2. CASE i \in 1..Len(s)
        <5>1. PICK k \in 1..m : k \in M /\ s[i] = B[k]
          BY <3>4, <3>5, <4>2
        <5> QED
          BY <2>3, <3>4, <4>2, <5>1
      <4> QED
        BY <3>4, <4>1, <4>2
    <3>8. \A i, j \in DOMAIN s : i < j => s[i].g < s[j].g
      BY <2>1, <3>1 DEF Keeps
    <3>9. ASSUME NEW i \in DOMAIN f[n], NEW j \in DOMAIN f[n], i < j
          PROVE  f[n][i].g < f[n][j].g
      <4>1. i \in DOMAIN s /\ f[n][i] = s[i]
        BY <3>4, <3>9
      <4>2. CASE j = Len(s) + 1
        <5>1. f[n][j] = b
          BY <3>4, <4>2
        <5> QED
          BY <3>6, <4>1, <5>1
      <4>3. CASE j \in DOMAIN s
        <5>1. f[n][j] = s[j]
          BY <3>4, <4>3
        <5> QED
          BY <3>8, <3>9, <4>1, <4>3, <5>1
      <4> QED
        BY <3>4, <4>2, <4>3
    <3>10. \A k \in 1..m : k \in M => \E i \in DOMAIN s : s[i] = B[k]
      BY <2>1, <3>1 DEF Keeps
    <3>11. \A k \in 1..n : k \in M => \E i \in DOMAIN f[n] : f[n][i] = B[k]
      <4>1. Len(s) + 1 \in DOMAIN f[n] /\ \A i \in DOMAIN s : i \in DOMAIN f[n] /\ f[n][i] = s[i]
        BY <3>4
      <4> SUFFICES ASSUME NEW k \in 1..n, k \in M
                   PROVE  \E i \in DOMAIN f[n] : f[n][i] = B[k]
        OBVIOUS
      <4>2. CASE k = n
        <5>1. f[n][Len(s) + 1] = B[k]
          BY <3>2, <3>4, <4>2
        <5> QED
          BY <4>1, <5>1
      <4>3. CASE k \in 1..m
        <5>1. PICK i \in DOMAIN s : s[i] = B[k]
          BY <3>10, <4>3
        <5> QED
          BY <4>1, <5>1
      <4> QED
        BY <2>3, <4>2, <4>3
    <3> QED
      BY <2>2, <3>3, <3>7, <3>9, <3>11 DEF Keeps
  <2> QED
    BY <2>5, <2>6
<1>3. Nat \subseteq S
  <2> HIDE DEF S
  <2> QED
    BY <1>1, <1>2, Inductive
<1> QED
  BY <1>3
-----------------------------------------------------------------------------
(* The invariant *)

\* The events of the processes before this one.
Earlier == Len(ledger) - nextID

\* The bus and the ledger hold published events only.
Room == Len(ledger) + Len(bus) <= published

\* The ring holds the latest entries, as many as it has room for.
RingHolds ==
  /\ ringLen <= nextID
  /\ ringLen < RingCap => ringLen = nextID
  /\ \A i \in 1..ringLen :
       Buffered[i] = [id |-> nextID - ringLen + i, g |-> Len(ledger) - ringLen + i]

\* A fan-out in progress is that of the latest event, and a queue it found full
\* is that of a client that wants it.
Newest ==
  fan # None =>
    /\ nextID > 0 /\ fan.entry = [id |-> nextID, g |-> Len(ledger)]
    /\ fan.full # None => Wants(fan.full, ledger[Len(ledger)])

Broad == TypeOK /\ Room /\ RingHolds /\ Newest

\* The fan-out in progress has client c still to serve.
Owed(c) == fan # None /\ c \in fan.todo

Rising(s) == \A i, j \in DOMAIN s : i < j => s[i].g < s[j].g

\* The frames in s are of this process, and for client c's tenant.
Frames(c, s) ==
  \A i \in DOMAIN s :
    /\ s[i].g \in (Earlier + 1)..Len(ledger)
    /\ s[i].id = s[i].g - Earlier
    /\ tenantOK(c, ledger[s[i].g])

\* What is on its way to a client comes in the order of the ledger: first the
\* replay, then the queue, then the event that is being fanned out, and all of
\* it after what the client has.
Lined(c) ==
  /\ Frames(c, conn[c].replay) /\ Frames(c, conn[c].queue)
  /\ Rising(conn[c].replay) /\ Rising(conn[c].queue)
  /\ conn[c].pc = "off" => conn[c].queue = <<>> /\ ~Owed(c)
  /\ conn[c].pc # "replay" => conn[c].replay = <<>>
  /\ conn[c].pc = "replay" =>
       /\ conn[c].start <= Len(ledger) /\ client[c].mark <= conn[c].start
       /\ \A i \in DOMAIN conn[c].replay :
            /\ conn[c].replay[i].g <= conn[c].start
            /\ \A h \in client[c].got : h < conn[c].replay[i].g
       /\ \A i \in DOMAIN conn[c].queue : conn[c].queue[i].g > conn[c].start
       /\ Owed(c) => conn[c].start < Len(ledger)
  /\ conn[c].pc = "live" =>
       \A i \in DOMAIN conn[c].queue : conn[c].queue[i].g > client[c].mark
  /\ Owed(c) =>
       /\ client[c].mark < Len(ledger)
       /\ \A i \in DOMAIN conn[c].queue : conn[c].queue[i].g < Len(ledger)

\* The cursor is the id of the last event the client has, if it is one of this
\* process; all others are older than this process.
Knows(c) ==
  /\ client[c].epoch <= epoch
  /\ client[c].base <= client[c].mark /\ client[c].mark <= Len(ledger)
  /\ \A h \in client[c].got : h <= client[c].mark /\ tenantOK(c, ledger[h])
  /\ client[c].cursor = 0 => client[c].got = {}
  /\ client[c].epoch = epoch /\ client[c].cursor > 0 =>
       /\ Earlier + client[c].cursor <= client[c].mark
       /\ \A h \in client[c].got : h <= Earlier + client[c].cursor
  /\ client[c].epoch # epoch => \A h \in client[c].got : h <= Earlier

\* Event g, which client c must know of, has not reached it and nothing
\* excuses that.
Pending(c, g) ==
  /\ g \in (client[c].base + 1)..Len(ledger)
  /\ Wants(c, ledger[g]) /\ g \notin client[c].got
  /\ \A r \in Reason : <<g, r>> \notin excused[c]

\* It is in the client's queue or about to be put there.
ToCome(c, g) ==
  \/ \E i \in DOMAIN conn[c].queue : conn[c].queue[i].g = g
  \/ Owed(c) /\ g = Len(ledger)

\* Whatever is pending is on its way, or the client is about to be told.
Accounted(c) ==
  /\ conn[c].pc = "off" => \A g \in 1..client[c].mark : ~Pending(c, g)
  /\ conn[c].pc = "live" => \A g \in 1..Len(ledger) : Pending(c, g) => ToCome(c, g)
  /\ conn[c].pc = "replay" =>
       /\ \A g \in 1..conn[c].start : Pending(c, g) =>
            \/ conn[c].truncated
            \/ /\ g > client[c].mark
               /\ \E i \in DOMAIN conn[c].replay : conn[c].replay[i].g = g
       /\ \A g \in (conn[c].start + 1)..Len(ledger) : Pending(c, g) => ToCome(c, g)

Served(c) == Lined(c) /\ Knows(c) /\ Accounted(c)

RealtimeInv == Broad /\ \A c \in Client : Served(c)

-----------------------------------------------------------------------------
(* The ring *)

LEMMA Remainders ==
  ASSUME NEW n \in Nat \ {0}, NEW a \in 0..(n - 1)
  PROVE  a % n = a /\ (a + n) % n = a
OBVIOUS

\* Where the i-th oldest of len entries is when the next goes to pos.
Slot(pos, len, i) ==
  LET z == pos - len + i - 1 IN IF z < 0 THEN z + RingCap ELSE z

LEMMA SlotOf ==
  ASSUME NEW pos \in 0..(RingCap - 1), NEW len \in 0..RingCap, NEW i \in 1..len
  PROVE  /\ Slot(pos, len, i) \in 0..(RingCap - 1)
         /\ (((pos - len + RingCap) % RingCap) + i - 1) % RingCap = Slot(pos, len, i)
<1> USE Sizes
<1>1. PICK o : o = (pos - len + RingCap) % RingCap
  OBVIOUS
<1>2. o = IF pos - len < 0 THEN pos - len + RingCap ELSE pos - len
  <2>1. CASE pos - len < 0
    <3>1. pos - len + RingCap \in 0..(RingCap - 1)
      BY <2>1
    <3> QED
      BY <1>1, <2>1, <3>1, Remainders
  <2>2. CASE pos - len >= 0
    <3>1. pos - len \in 0..(RingCap - 1)
      BY <2>2
    <3> QED
      BY <1>1, <2>2, <3>1, Remainders
  <2> QED
    BY <2>1, <2>2
<1>3. o \in 0..(RingCap - 1) /\ Slot(pos, len, i) \in 0..(RingCap - 1)
  BY <1>2 DEF Slot
<1>4. (o + i - 1) % RingCap = Slot(pos, len, i)
  <2>1. CASE o + i - 1 < RingCap
    <3>1. o + i - 1 \in 0..(RingCap - 1) /\ o + i - 1 = Slot(pos, len, i)
      BY <1>2, <1>3, <2>1 DEF Slot
    <3> QED
      BY <3>1, Remainders
  <2>2. CASE o + i - 1 >= RingCap
    <3>1. /\ o + i - 1 - RingCap \in 0..(RingCap - 1)
          /\ o + i - 1 - RingCap = Slot(pos, len, i)
          /\ o + i - 1 = (o + i - 1 - RingCap) + RingCap
      BY <1>2, <1>3, <2>2 DEF Slot
    <3> QED
      BY <3>1, Remainders
  <2> QED
    BY <1>3, <2>1, <2>2
<1> QED
  BY <1>1, <1>3, <1>4

LEMMA BufferedIs ==
  ASSUME TypeOK, NEW i \in 1..ringLen
  PROVE  Buffered[i] = ring[Slot(ringPos, ringLen, i)]
BY SlotOf DEF TypeOK, Buffered, Oldest

\* The entries of the ring are entries, in the order of the ledger.
LEMMA RingEntries ==
  ASSUME TypeOK, Room, RingHolds
  PROVE  /\ \A n \in 1..ringLen : Buffered[n] \in Entry
         /\ \A n, k \in 1..ringLen : n < k => Buffered[n].g < Buffered[k].g
<1> USE Sizes
<1>1. /\ Len(ledger) \in Nat /\ Len(bus) \in Nat /\ Len(ledger) <= MaxEvents
      /\ nextID \in 0..Len(ledger) /\ ringLen \in 0..RingCap /\ ringLen <= nextID
  BY DEF TypeOK, Room, RingHolds
<1>2. ASSUME NEW n \in 1..ringLen
      PROVE  /\ Buffered[n] = [id |-> nextID - ringLen + n, g |-> Len(ledger) - ringLen + n]
             /\ nextID - ringLen + n \in Nat
             /\ Len(ledger) - ringLen + n \in 1..MaxEvents
  BY <1>1 DEF RingHolds
<1>3. ASSUME NEW n \in 1..ringLen
      PROVE  Buffered[n] \in Entry /\ Buffered[n].g = Len(ledger) - ringLen + n
  <2>1. PICK a \in Nat, b \in 1..MaxEvents :
          a = nextID - ringLen + n /\ b = Len(ledger) - ringLen + n
    BY <1>2
  <2>2. Buffered[n] = [id |-> a, g |-> b]
    BY <1>2, <2>1
  <2>3. [id |-> a, g |-> b] \in Entry
    BY DEF Entry, Index
  <2> QED
    BY <2>1, <2>2, <2>3
<1> QED
  BY <1>1, <1>3

\* s has a frame for each event of the ring after "since" that client c is to get.
Replays(c, since, s) ==
  \A g \in (Len(ledger) - ringLen + 1)..Len(ledger) :
    g > Earlier + since /\ matches(c, ledger[g]) /\ tenantOK(c, ledger[g]) =>
    \E i \in DOMAIN s : s[i].g = g

\* replaySince returns the entries of the ring that the client missed, all of
\* them, and in order.
LEMMA ReplayFacts ==
  ASSUME TypeOK, Room, RingHolds, NEW c \in Client, NEW since \in Nat,
         NEW s, s = replaySince(c, since)
  PROVE  /\ s \in Seq(Entry)
         /\ Rising(s)
         /\ Frames(c, s)
         /\ \A i \in DOMAIN s : s[i].g > Earlier + since
         /\ Replays(c, since, s)
<1> DEFINE M == {k \in 1..ringLen : Missed(c, since, Buffered[k])}
<1>1. ringLen \in Nat
  BY Sizes DEF TypeOK
<1>2. \E f : f = [n \in 0..ringLen |->
                   IF n = 0 THEN <<>>
                   ELSE IF Missed(c, since, Buffered[n]) THEN Append(f[n - 1], Buffered[n])
                   ELSE f[n - 1]]
  <2>1. PICK f : f = [n \in 0..ringLen |->
                   IF n = 0 THEN <<>>
                   ELSE IF n \in M THEN Append(f[n - 1], Buffered[n]) ELSE f[n - 1]]
    <3> HIDE DEF M
    <3>1. PICK f : Keeping(f, ringLen, Buffered, M)
      BY <1>1, KeptExists
    <3> QED
      BY <3>1, Zenon DEF Keeping
  <2>2. \A n \in 0..ringLen : n # 0 => (n \in M <=> Missed(c, since, Buffered[n]))
    BY <1>1
  <2> HIDE DEF M
  <2>3. f = [n \in 0..ringLen |->
                   IF n = 0 THEN <<>>
                   ELSE IF Missed(c, since, Buffered[n]) THEN Append(f[n - 1], Buffered[n])
                   ELSE f[n - 1]]
    BY <2>1, <2>2
  <2> QED
    BY <2>3
<1>3. PICK f : /\ f = [n \in 0..ringLen |->
                         IF n = 0 THEN <<>>
                         ELSE IF Missed(c, since, Buffered[n])
                              THEN Append(f[n - 1], Buffered[n])
                         ELSE f[n - 1]]
               /\ replaySince(c, since) = f[ringLen]
  <2> DEFINE F == CHOOSE f : f = [n \in 0..ringLen |->
                   IF n = 0 THEN <<>>
                   ELSE IF Missed(c, since, Buffered[n]) THEN Append(f[n - 1], Buffered[n])
                   ELSE f[n - 1]]
  <2>1. replaySince(c, since) = F[ringLen]
    BY DEF replaySince
  <2>2. F = [n \in 0..ringLen |->
                   IF n = 0 THEN <<>>
                   ELSE IF Missed(c, since, Buffered[n]) THEN Append(F[n - 1], Buffered[n])
                   ELSE F[n - 1]]
    BY <1>2
  <2> HIDE DEF F
  <2> QED
    BY <2>1, <2>2
<1>4. /\ f[0] = <<>>
      /\ \A n \in 1..ringLen :
           f[n] = IF n \in M THEN Append(f[n - 1], Buffered[n]) ELSE f[n - 1]
  <2>1. f[0] = <<>>
    BY <1>1, <1>3
  <2>2. ASSUME NEW n \in 1..ringLen
        PROVE  f[n] = IF n \in M THEN Append(f[n - 1], Buffered[n]) ELSE f[n - 1]
    <3>1. n \in 0..ringLen /\ n # 0 /\ (n \in M <=> Missed(c, since, Buffered[n]))
      BY <1>1
    <3> HIDE DEF M
    <3>2. f[n] = IF Missed(c, since, Buffered[n]) THEN Append(f[n - 1], Buffered[n])
                 ELSE f[n - 1]
      BY <1>3, <3>1
    <3> QED
      BY <3>1, <3>2
  <2> QED
    BY <2>1, <2>2
<1>5. Keeps(f, ringLen, Buffered, M)
  <2> HIDE DEF M
  <2> QED
    BY <1>1, <1>4, RingEntries, KeptIs
<1>6. s = f[ringLen]
  BY <1>3
<1>7. /\ s \in Seq(Entry)
      /\ \A i \in DOMAIN s : \E k \in 1..ringLen : k \in M /\ s[i] = Buffered[k]
      /\ \A i, j \in DOMAIN s : i < j => s[i].g < s[j].g
      /\ \A k \in 1..ringLen : k \in M => \E i \in DOMAIN s : s[i] = Buffered[k]
  <2> HIDE DEF M
  <2> QED
    BY <1>5, <1>6 DEF Keeps
<1> USE Sizes
<1>8. /\ Len(ledger) \in Nat /\ nextID \in 0..Len(ledger) /\ ringLen \in Nat
      /\ ringLen <= nextID
  BY DEF TypeOK, RingHolds
<1>9. ASSUME NEW k \in 1..ringLen
      PROVE  /\ Buffered[k].g = Len(ledger) - ringLen + k
             /\ Buffered[k].g \in (Earlier + 1)..Len(ledger)
             /\ Buffered[k].id = Buffered[k].g - Earlier
  <2>1. Buffered[k] = [id |-> nextID - ringLen + k, g |-> Len(ledger) - ringLen + k]
    BY DEF RingHolds
  <2>2. Buffered[k].id = nextID - ringLen + k /\ Buffered[k].g = Len(ledger) - ringLen + k
    BY <2>1
  <2> QED
    BY <1>8, <2>2 DEF Earlier
<1>10. ASSUME NEW i \in DOMAIN s
      PROVE  /\ s[i].g \in (Earlier + 1)..Len(ledger)
             /\ s[i].id = s[i].g - Earlier
             /\ tenantOK(c, ledger[s[i].g])
             /\ s[i].g > Earlier + since
  <2>1. PICK k \in 1..ringLen : Missed(c, since, Buffered[k]) /\ s[i] = Buffered[k]
    BY <1>7 
  <2>2. Buffered[k].id > since /\ tenantOK(c, ledger[Buffered[k].g])
    BY <2>1 DEF Missed
  <2> QED
    BY <1>8, <1>9, <2>1, <2>2 DEF Earlier
<1>11. ASSUME NEW g \in (Len(ledger) - ringLen + 1)..Len(ledger),
             g > Earlier + since, matches(c, ledger[g]), tenantOK(c, ledger[g])
      PROVE  \E i \in DOMAIN s : s[i].g = g
  <2>1. PICK k : k = g - (Len(ledger) - ringLen)
    OBVIOUS
  <2>2. k \in 1..ringLen
    BY <1>8, <2>1
  <2>3. Buffered[k].g = g /\ Buffered[k].id > since
    BY <1>8, <1>9, <1>11, <2>1, <2>2 DEF Earlier
  <2>4. Missed(c, since, Buffered[k])
    BY <1>11, <2>3 DEF Missed
  <2>5. PICK i \in DOMAIN s : s[i] = Buffered[k]
    BY <1>7, <2>2, <2>4
  <2> QED
    BY <2>3, <2>5
<1> QED
  <2>1. Replays(c, since, s)
    BY <1>11 DEF Replays
  <2> QED
    BY <1>7, <1>10, <2>1 DEF Frames, Rising

-----------------------------------------------------------------------------
(* Types, the ring and the fan-out *)

LEMMA WithoutIs ==
  ASSUME TypeOK, NEW c \in Client, NEW w, w = Without(c)
  PROVE  /\ w \in Fan \cup {None}
         /\ w # None => /\ fan # None /\ w.entry = fan.entry
                        /\ w.full \in w.todo \cup {None} /\ w.full \in {None, fan.full}
         /\ \A d \in Client : (w # None /\ d \in w.todo) <=> (Owed(d) /\ d # c)
<1> USE Sizes
<1>1. CASE fan = None \/ fan.todo \subseteq {c}
  BY <1>1 DEF Without, Owed
<1>2. CASE fan # None /\ ~(fan.todo \subseteq {c})
  <2>1. fan \in Fan /\ fan.full \in fan.todo \cup {None}
    BY <1>2 DEF TypeOK
  <2>2. w = [fan EXCEPT !.todo = @ \ {c}, !.full = IF @ = c THEN None ELSE @]
    BY <1>2 DEF Without
  <2>3. /\ w.entry = fan.entry /\ w.todo = fan.todo \ {c}
        /\ w.full = IF fan.full = c THEN None ELSE fan.full
    BY <2>1, <2>2 DEF Fan
  <2>4. w \in Fan
    BY <2>1, <2>2 DEF Fan
  <2> QED
    BY <1>2, <2>1, <2>3, <2>4 DEF Owed
<1> QED
  BY <1>1, <1>2

LEMMA OffType == Off \in Conn
<1>1. <<>> \in Seq(Entry) /\ 0 \in 0..MaxEvents
  BY Sizes
<1> QED
  BY <1>1 DEF Off, Conn

\* A step that leaves the broker's part of the state alone.
LEMMA BrokerCalm ==
  ASSUME TypeOK, UNCHANGED <<published, bus, epoch, broker, ledger>>,
         conn' \in [Client -> Conn], \A c \in Client : Len(conn'[c].queue) <= QueueCap,
         client' \in [Client -> ClientState],
         excused' \in [Client -> SUBSET (Index \X Reason)],
         fan' \in Fan \cup {None}, fan' # None => fan'.full \in fan'.todo \cup {None}
  PROVE  TypeOK'
BY DEF TypeOK, broker

LEMMA SeqFacts ==
  ASSUME NEW s \in Seq(Entry), s # <<>>
  PROVE  /\ Head(s) = s[1] /\ 1 \in DOMAIN s /\ Head(s) \in Entry
         /\ Tail(s) \in Seq(Entry) /\ Len(Tail(s)) = Len(s) - 1 /\ Len(s) \in Nat
         /\ DOMAIN Tail(s) = 1..(Len(s) - 1) /\ DOMAIN s = 1..Len(s)
         /\ \A i \in DOMAIN Tail(s) : Tail(s)[i] = s[i + 1] /\ i + 1 \in DOMAIN s
OBVIOUS

LEMMA AppendFacts ==
  ASSUME NEW s \in Seq(Entry), NEW x \in Entry
  PROVE  /\ Append(s, x) \in Seq(Entry) /\ Len(Append(s, x)) = Len(s) + 1 /\ Len(s) \in Nat
         /\ DOMAIN Append(s, x) = 1..(Len(s) + 1) /\ DOMAIN s = 1..Len(s)
         /\ \A i \in DOMAIN s : Append(s, x)[i] = s[i] /\ i \in DOMAIN Append(s, x)
         /\ Append(s, x)[Len(s) + 1] = x
OBVIOUS

LEMMA ConnParts ==
  ASSUME TypeOK, NEW c \in Client
  PROVE  /\ conn[c].pc \in {"off", "replay", "live"}
         /\ conn[c].replay \in Seq(Entry) /\ conn[c].queue \in Seq(Entry)
         /\ conn[c].truncated \in BOOLEAN /\ conn[c].start \in Nat
         /\ Len(conn[c].queue) <= QueueCap
         /\ client[c].cursor \in Nat /\ client[c].epoch \in Nat
         /\ client[c].base \in Nat /\ client[c].mark \in Nat
         /\ client[c].got \subseteq Index /\ excused[c] \subseteq Index \X Reason
         /\ Len(ledger) \in Nat /\ nextID \in Nat /\ nextID <= Len(ledger) /\ epoch \in Nat
         /\ Earlier \in Nat
<1> USE Sizes
<1>1. conn[c] \in Conn /\ client[c] \in ClientState
  BY DEF TypeOK
<1>2. /\ conn[c].pc \in {"off", "replay", "live"}
      /\ conn[c].replay \in Seq(Entry) /\ conn[c].queue \in Seq(Entry)
      /\ conn[c].truncated \in BOOLEAN /\ conn[c].start \in Nat
  BY <1>1 DEF Conn
<1>3. /\ client[c].cursor \in Nat /\ client[c].epoch \in Nat
      /\ client[c].base \in Nat /\ client[c].mark \in Nat /\ client[c].got \subseteq Index
  BY <1>1 DEF ClientState
<1>4. /\ Len(ledger) \in Nat /\ nextID \in Nat /\ nextID <= Len(ledger) /\ epoch \in Nat
      /\ Len(conn[c].queue) <= QueueCap /\ excused[c] \subseteq Index \X Reason
  BY DEF TypeOK
<1> QED
  BY <1>2, <1>3, <1>4 DEF Earlier

LEMMA FanOutBroad ==
  ASSUME Broad, FanOut
  PROVE  Broad' /\ \A c \in Client : Owed(c)' <=> conn[c].pc # "off"
<1> USE Sizes
<1>1. TypeOK /\ Room /\ RingHolds
  BY DEF Broad
<1>2. PICK g, n, x : g = Len(ledger) + 1 /\ n = nextID + 1 /\ x = [id |-> n, g |-> g]
  OBVIOUS
<1>3. /\ bus # <<>> /\ bus' = Tail(bus) /\ ledger' = Append(ledger, Head(bus)) /\ nextID' = n
      /\ ring' = [ring EXCEPT ![ringPos] = x]
      /\ ringPos' = (ringPos + 1) % RingCap
      /\ ringLen' = IF ringLen < RingCap THEN ringLen + 1 ELSE ringLen
      /\ fan' = IF Subscribers = {} THEN None
                ELSE [entry |-> x, todo |-> Subscribers, full |-> None]
      /\ UNCHANGED <<published, epoch, conn, client, excused>>
  BY <1>2 DEF FanOut, AppendToRing
<1>3a. /\ nextID' = n /\ n = nextID + 1 /\ g = Len(ledger) + 1
       /\ ringLen' = (IF ringLen < RingCap THEN ringLen + 1 ELSE ringLen)
  BY <1>2, <1>3
<1>4. /\ Len(ledger) \in Nat /\ Len(bus) \in Nat /\ published \in 0..MaxEvents
      /\ nextID \in Nat /\ nextID <= Len(ledger) /\ Len(ledger) + Len(bus) <= published
  BY <1>1 DEF TypeOK, Room
<1>5. /\ Head(bus) \in RecordEvent /\ bus' \in Seq(RecordEvent) /\ Len(bus') = Len(bus) - 1
      /\ ledger' \in Seq(RecordEvent) /\ Len(ledger') = g /\ Len(bus) >= 1
  <2>1. bus \in Seq(RecordEvent) /\ ledger \in Seq(RecordEvent)
    BY <1>1 DEF TypeOK
  <2>2. /\ Head(bus) \in RecordEvent /\ bus' \in Seq(RecordEvent)
        /\ Len(bus') = Len(bus) - 1 /\ Len(bus) >= 1
    BY <1>3, <2>1
  <2>3. PICK e \in RecordEvent : e = Head(bus)
    BY <2>2
  <2> QED
    BY <1>2, <1>3, <2>1, <2>2, <2>3
<1>6. g \in Index /\ n \in 1..g /\ x \in Entry /\ Room'
  <2>1. g \in Index /\ n \in 1..g /\ n \in Nat
    BY <1>2, <1>4, <1>5 DEF Index
  <2>2. x \in Entry
    BY <1>2, <2>1 DEF Entry
  <2>3. Room'
    BY <1>2, <1>3, <1>4, <1>5 DEF Room
  <2> QED
    BY <2>1, <2>2, <2>3
<1>7. /\ ringPos \in 0..(RingCap - 1) /\ ringLen \in 0..RingCap
      /\ ringPos' = IF ringPos = RingCap - 1 THEN 0 ELSE ringPos + 1
  <2>1. ringPos \in 0..(RingCap - 1) /\ ringLen \in 0..RingCap
    BY <1>1 DEF TypeOK
  <2>2. CASE ringPos = RingCap - 1
    <3>1. ringPos + 1 = 0 + RingCap /\ 0 \in 0..(RingCap - 1)
      BY <2>1, <2>2
    <3> QED
      BY <1>3, <2>1, <2>2, <3>1, Remainders
  <2>3. CASE ringPos # RingCap - 1
    <3>1. ringPos + 1 \in 0..(RingCap - 1)
      BY <2>1, <2>3
    <3> QED
      BY <1>3, <2>1, <2>3, <3>1, Remainders
  <2> QED
    BY <2>1, <2>2, <2>3
<1>8. TypeOK'
  <2>1. fan' \in Fan \cup {None} /\ (fan' # None => fan'.full \in fan'.todo \cup {None})
    BY <1>3, <1>6 DEF Fan, Subscribers
  <2>2. ring' \in [0..(RingCap - 1) -> Entry \cup {None}]
    BY <1>1, <1>3, <1>6 DEF TypeOK
  <2>3. ringPos' \in 0..(RingCap - 1) /\ ringLen' \in 0..RingCap
    <3>1. ringPos' \in 0..(RingCap - 1)
      BY <1>7
    <3>2. ringLen' \in 0..RingCap
      BY <1>3a, <1>7
    <3> QED
      BY <3>1, <3>2
  <2>4. nextID' \in 0..Len(ledger') /\ Len(bus') <= BusCap
    <3>1. Len(bus) <= BusCap
      BY <1>1 DEF TypeOK
    <3>2. Len(bus') <= BusCap
      BY <1>4, <1>5, <3>1
    <3> QED
      BY <1>3a, <1>4, <1>5, <1>6, <3>2
  <2> QED
    BY <1>1, <1>3, <1>5, <2>1, <2>2, <2>3, <2>4 DEF TypeOK
<1>9. Newest'
  BY <1>2, <1>3, <1>4, <1>5 DEF Newest
<1>10. RingHolds'
  <2>1. ringLen' <= nextID' /\ (ringLen' < RingCap => ringLen' = nextID')
    <3>1. ringLen <= nextID /\ (ringLen < RingCap => ringLen = nextID)
      BY <1>1 DEF RingHolds
    <3>2. ringLen \in 0..RingCap
      BY <1>7
    <3> QED
      BY <1>3a, <1>4, <3>1, <3>2
  <2>2. PICK p, l, q, m : p = ringPos /\ l = ringLen /\ q = ringPos' /\ m = ringLen'
    OBVIOUS
  <2>3. ASSUME NEW i \in 1..m
        PROVE  Buffered'[i] = [id |-> n - m + i, g |-> g - m + i]
    <3>1. q \in 0..(RingCap - 1) /\ m \in 0..RingCap /\ p \in 0..(RingCap - 1) /\ l \in 0..RingCap
          /\ m = (IF l < RingCap THEN l + 1 ELSE l)
          /\ q = (IF p = RingCap - 1 THEN 0 ELSE p + 1)
      <4>1. /\ m = (IF l < RingCap THEN l + 1 ELSE l) /\ l \in 0..RingCap
            /\ p \in 0..(RingCap - 1) /\ q = (IF p = RingCap - 1 THEN 0 ELSE p + 1)
        BY <1>3a, <1>7, <2>2
      <4> QED
        BY <4>1
    <3>2. Buffered'[i] = ring'[Slot(q, m, i)]
      <4>1. (Buffered[i] = ring[Slot(ringPos, ringLen, i)])'
        BY <1>8, <2>2, SlotOf DEF TypeOK, Buffered, Oldest
      <4> QED
        BY <2>2, <4>1 DEF Slot
    <3>3. CASE i = m
      <4>1. Slot(q, m, i) = p
        BY <3>1, <3>3 DEF Slot
      <4>2. ring'[p] = x
        BY <1>1, <1>3, <2>2, <3>1 DEF TypeOK
      <4>3. n - m + i = n /\ g - m + i = g
        BY <1>2, <1>4, <3>1, <3>3
      <4> QED
        BY <1>2, <3>2, <4>1, <4>2, <4>3
    <3>4. CASE i # m
      <4>0. PICK k : k = i + l + 1 - m
        OBVIOUS
      <4>1. k \in 1..l /\ k = i + l + 1 - m
        <5>1. CASE l < RingCap
          BY <3>1, <3>4, <4>0, <5>1
        <5>2. CASE l = RingCap
          BY <3>1, <3>4, <4>0, <5>2
        <5> QED
          BY <3>1, <5>1, <5>2
      <4>2. Slot(q, m, i) = Slot(p, l, k) /\ Slot(p, l, k) # p /\ Slot(p, l, k) \in 0..(RingCap - 1)
        <5>1. CASE l < RingCap
          BY <3>1, <3>4, <4>1, <5>1 DEF Slot
        <5>2. CASE l = RingCap
          BY <3>1, <3>4, <4>1, <5>2 DEF Slot
        <5> QED
          BY <3>1, <5>1, <5>2
      <4>3. ring'[Slot(p, l, k)] = ring[Slot(p, l, k)]
        BY <1>1, <1>3, <2>2, <4>2 DEF TypeOK
      <4>4. Buffered[k] = ring[Slot(p, l, k)]
        BY <1>1, <2>2, <4>1, BufferedIs
      <4>5. Buffered[k] = [id |-> nextID - l + k, g |-> Len(ledger) - l + k]
        BY <1>1, <2>2, <4>1 DEF RingHolds
      <4>6. nextID - l + k = n - m + i /\ Len(ledger) - l + k = g - m + i
        BY <1>2, <1>4, <3>1, <4>1
      <4> QED
        BY <3>2, <4>2, <4>3, <4>4, <4>5, <4>6
    <3> QED
      BY <3>3, <3>4
  <2>4. RingHolds' = (/\ ringLen' <= nextID' /\ (ringLen' < RingCap => ringLen' = nextID')
                      /\ \A i \in 1..m : Buffered'[i] = [id |-> n - m + i, g |-> g - m + i])
    BY <1>3, <1>5, <2>2 DEF RingHolds
  <2> QED
    BY <2>1, <2>3, <2>4
<1>11. \A c \in Client : Owed(c)' <=> conn[c].pc # "off"
  <2>1. [entry |-> x, todo |-> Subscribers, full |-> None] \in Fan
    BY <1>6 DEF Fan, Subscribers
  <2> QED
    BY <1>3, <2>1 DEF Owed, Subscribers
<1> QED
  BY <1>6, <1>8, <1>9, <1>10, <1>11 DEF Broad

\* A step that changes neither the broker, the bus nor the ledger, and takes at
\* most clients off the fan-out.
LEMMA BroadCalm ==
  ASSUME Broad, UNCHANGED <<published, bus, epoch, broker, ledger>>, TypeOK',
         fan' # None => /\ fan # None /\ fan'.entry = fan.entry
                        /\ \/ fan'.full \in {None, fan.full}
                           \/ Wants(fan'.full, ledger[Len(ledger)])
  PROVE  Broad'
<1>1. Room'
  BY DEF Broad, Room
<1>4. Newest'
  BY DEF Broad, Newest, broker, Wants, tenantOK, matches
<1>2. Buffered' = Buffered
  BY DEF Buffered, Oldest, broker
<1>3. RingHolds'
  BY <1>2 DEF Broad, RingHolds, broker
<1> QED
  BY <1>1, <1>3, <1>4 DEF Broad

LEMMA BroadInit == RealtimeInit => Broad
<1> SUFFICES ASSUME RealtimeInit PROVE Broad
  OBVIOUS
<1> USE Sizes
<1>1. Len(ledger) = 0 /\ Len(bus) = 0 /\ ledger \in Seq(RecordEvent) /\ bus \in Seq(RecordEvent)
  BY DEF RealtimeInit
<1>2. conn \in [Client -> Conn] /\ \A c \in Client : Len(conn[c].queue) <= QueueCap
  <2>1. Len(Off.queue) = 0
    BY DEF Off
  <2> QED
    BY <2>1, OffType DEF RealtimeInit
<1>3. client \in [Client -> ClientState] /\ excused \in [Client -> SUBSET (Index \X Reason)]
  BY DEF RealtimeInit, ClientState
<1>4. TypeOK
  BY <1>1, <1>2, <1>3 DEF RealtimeInit, TypeOK
<1> QED
  BY <1>1, <1>4 DEF RealtimeInit, Broad, Room, RingHolds, Newest

LEMMA PublishBroad == ASSUME NEW e \in RecordEvent PROVE Broad /\ Publish(e) => Broad'
<1> SUFFICES ASSUME Broad, Publish(e) PROVE Broad'
  OBVIOUS
<1> USE Sizes
<1>1. TypeOK /\ Room /\ RingHolds /\ Newest
  BY DEF Broad
<1>2. /\ published < MaxEvents /\ published' = published + 1
      /\ bus' = IF Len(bus) < BusCap THEN Append(bus, e) ELSE bus
      /\ UNCHANGED <<epoch, nextID, ring, ringPos, ringLen, fan, conn, client, ledger, excused>>
  BY DEF Publish, broker
<1>3. /\ bus' \in Seq(RecordEvent) /\ Len(bus') <= BusCap /\ Len(bus') <= Len(bus) + 1
      /\ Len(bus') \in Nat /\ Len(bus) \in Nat
  <2>1. bus \in Seq(RecordEvent) /\ Len(bus) <= BusCap
    BY <1>1 DEF TypeOK
  <2>2. CASE Len(bus) < BusCap
    BY <1>2, <2>1, <2>2
  <2>3. CASE ~(Len(bus) < BusCap)
    BY <1>2, <2>1, <2>3
  <2> QED
    BY <2>2, <2>3
<1>4. TypeOK'
  BY <1>1, <1>2, <1>3 DEF TypeOK
<1>5. Room' /\ Newest'
  BY <1>1, <1>2, <1>3 DEF TypeOK, Room, Newest, Wants, tenantOK, matches
<1>6. Buffered' = Buffered
  BY <1>2 DEF Buffered, Oldest
<1>7. RingHolds'
  BY <1>1, <1>2, <1>6 DEF RingHolds
<1> QED
  BY <1>4, <1>5, <1>7 DEF Broad

LEMMA RestartBroad == Broad /\ Restart => Broad'
<1> SUFFICES ASSUME Broad, Restart PROVE Broad'
  OBVIOUS
<1> USE Sizes
<1>1. TypeOK /\ Room
  BY DEF Broad
<1>2. Len(bus') = 0 /\ bus' \in Seq(RecordEvent) /\ Len(bus) \in Nat /\ Len(ledger) \in Nat
  BY <1>1 DEF Restart, TypeOK
<1>3. conn' \in [Client -> Conn] /\ \A c \in Client : Len(conn'[c].queue) <= QueueCap
  <2>1. Len(Off.queue) = 0
    BY DEF Off
  <2> QED
    BY <2>1, OffType DEF Restart
<1>4. excused' \in [Client -> SUBSET (Index \X Reason)]
  <2>1. ASSUME NEW c \in Client
        PROVE  ((client[c].base + 1)..client[c].mark) \X {"cut"} \subseteq Index \X Reason
    <3>1. client[c].base \in 0..MaxEvents /\ client[c].mark \in 0..MaxEvents
      BY <1>1 DEF TypeOK, ClientState
    <3> QED
      BY <3>1 DEF Index, Reason
  <2>2. \A c \in Client : excused[c] \in SUBSET (Index \X Reason)
    BY <1>1 DEF TypeOK
  <2> QED
    BY <2>1, <2>2 DEF Restart
<1>5. nextID' = 0 /\ ringPos' = 0 /\ ringLen' = 0 /\ fan' = None /\ epoch' \in 0..MaxRestarts
  BY <1>1 DEF Restart, TypeOK
<1>6. TypeOK'
  BY <1>1, <1>2, <1>3, <1>4, <1>5 DEF Restart, TypeOK
<1>7. Room' /\ Newest' /\ RingHolds'
  <2>1. Room'
    <3>1. Len(ledger) + Len(bus) <= published /\ published \in Nat
      BY <1>1 DEF TypeOK, Room
    <3>2. Len(ledger) <= published /\ UNCHANGED <<ledger, published>>
      BY <1>2, <3>1 DEF Restart
    <3> QED
      BY <1>2, <3>2 DEF Room
  <2>2. Newest'
    BY <1>5 DEF Newest
  <2>3. RingHolds'
    BY <1>5 DEF RingHolds
  <2> QED
    BY <2>1, <2>2, <2>3
<1> QED
  BY <1>6, <1>7 DEF Broad

\* What a connection's handlers write has the types of the state.
LEMMA EntryIsNewest ==
  ASSUME Broad, fan # None
  PROVE  fan.entry \in Entry /\ fan.entry.id = nextID /\ fan.entry.g = Len(ledger)
<1>1. fan \in Fan
  BY DEF Broad, TypeOK
<1>2. fan.entry \in Entry
  BY <1>1 DEF Fan
<1>3. fan.entry = [id |-> nextID, g |-> Len(ledger)]
  BY DEF Broad, Newest
<1>4. PICK a, b : a = nextID /\ b = Len(ledger)
  OBVIOUS
<1> QED
  BY <1>2, <1>3, <1>4

\* A queue that takes an entry, or drops its oldest for it, keeps its bound.
QueueFed(c, q) ==
  /\ q \in Seq(Entry) /\ Len(q) <= QueueCap
  /\ conn' = [conn EXCEPT ![c].queue = q]

LEMMA QueueType ==
  ASSUME TypeOK, NEW c \in Client, NEW q, QueueFed(c, q)
  PROVE  /\ conn' \in [Client -> Conn] /\ \A d \in Client : Len(conn'[d].queue) <= QueueCap
         /\ conn'[c] = [conn[c] EXCEPT !.queue = q]
         /\ \A d \in Client \ {c} : conn'[d] = conn[d]
<1>1. conn \in [Client -> Conn] /\ \A d \in Client : Len(conn[d].queue) <= QueueCap
  BY DEF TypeOK
<1>2. /\ conn'[c] = [conn[c] EXCEPT !.queue = q]
      /\ \A d \in Client \ {c} : conn'[d] = conn[d]
      /\ DOMAIN conn' = Client /\ conn' = [d \in Client |-> conn'[d]]
  BY <1>1 DEF QueueFed
<1>3. conn'[c] \in Conn /\ conn'[c].queue = q
  <2>1. PICK k \in Conn : k = conn[c]
    BY <1>1
  <2>2. [k EXCEPT !.queue = q] \in Conn /\ [k EXCEPT !.queue = q].queue = q
    BY DEF QueueFed, Conn
  <2> QED
    BY <1>2, <2>1, <2>2
<1>4. \A d \in Client : conn'[d] \in Conn /\ Len(conn'[d].queue) <= QueueCap
  BY <1>1, <1>2, <1>3 DEF QueueFed
<1> QED
  BY <1>2, <1>4

LEMMA EnqueueBroad ==
  ASSUME NEW c \in Client, Broad, Enqueue(c)
  PROVE  /\ Broad'
         /\ UNCHANGED <<published, bus, epoch, broker, client, ledger, excused>>
         /\ Owed(c) /\ fan.entry \in Entry /\ fan.entry.id = nextID /\ fan.entry.g = Len(ledger)
         /\ \/ /\ conn' = conn
               /\ ~Wants(c, ledger[Len(ledger)])
               /\ \A d \in Client : Owed(d)' <=> Owed(d) /\ d # c
            \/ /\ Wants(c, ledger[Len(ledger)])
               /\ QueueFed(c, Append(conn[c].queue, fan.entry))
               /\ \A d \in Client : Owed(d)' <=> Owed(d) /\ d # c
            \/ /\ conn' = conn
               /\ \A d \in Client : Owed(d)' <=> Owed(d)
<1> USE Sizes
<1>1. TypeOK
  BY DEF Broad
<1>2. /\ fan # None /\ fan.full = None /\ c \in fan.todo
      /\ UNCHANGED <<published, bus, epoch, broker, client, ledger, excused>>
  BY DEF Enqueue
<1>3. fan.entry \in Entry /\ fan.entry.id = nextID /\ fan.entry.g = Len(ledger)
  BY <1>2, EntryIsNewest
<1>4. PICK w : w = Without(c)
  OBVIOUS
<1>5. /\ w \in Fan \cup {None}
      /\ w # None => /\ fan # None /\ w.entry = fan.entry
                     /\ w.full \in w.todo \cup {None} /\ w.full \in {None, fan.full}
      /\ \A d \in Client : (w # None /\ d \in w.todo) <=> (Owed(d) /\ d # c)
  BY <1>1, <1>4, WithoutIs
<1>6. Owed(c)
  BY <1>2 DEF Owed
<1>7. client' \in [Client -> ClientState] /\ excused' \in [Client -> SUBSET (Index \X Reason)]
  BY <1>1, <1>2 DEF TypeOK
<1>8. CASE ~Wants(c, ledger[fan.entry.g]) /\ fan' = Without(c) /\ UNCHANGED conn
  <2>1. conn' \in [Client -> Conn] /\ \A d \in Client : Len(conn'[d].queue) <= QueueCap
    BY <1>1, <1>8 DEF TypeOK
  <2>2. TypeOK'
    BY <1>1, <1>2, <1>4, <1>5, <1>7, <1>8, <2>1, BrokerCalm
  <2>3. Broad'
    BY <1>2, <1>4, <1>5, <1>8, <2>2, BroadCalm
  <2>4. \A d \in Client : Owed(d)' <=> Owed(d) /\ d # c
    BY <1>4, <1>5, <1>8 DEF Owed
  <2> QED
    BY <1>2, <1>3, <1>6, <1>8, <2>3, <2>4
<1>9. CASE /\ Wants(c, ledger[fan.entry.g]) /\ Len(conn[c].queue) < QueueCap
           /\ conn' = [conn EXCEPT ![c].queue = Append(@, fan.entry)]
           /\ fan' = Without(c)
  <2>1. conn[c].queue \in Seq(Entry)
    BY <1>1, ConnParts
  <2>2. /\ Append(conn[c].queue, fan.entry) \in Seq(Entry)
        /\ Len(Append(conn[c].queue, fan.entry)) <= QueueCap
    BY <1>3, <1>9, <2>1, AppendFacts
  <2>3. QueueFed(c, Append(conn[c].queue, fan.entry))
    BY <1>9, <2>2 DEF QueueFed
  <2>4. conn' \in [Client -> Conn] /\ \A d \in Client : Len(conn'[d].queue) <= QueueCap
    BY <1>1, <2>3, QueueType
  <2>5. TypeOK'
    BY <1>1, <1>2, <1>4, <1>5, <1>7, <1>9, <2>4, BrokerCalm
  <2>6. Broad'
    BY <1>2, <1>4, <1>5, <1>9, <2>5, BroadCalm
  <2>7. \A d \in Client : Owed(d)' <=> Owed(d) /\ d # c
    BY <1>4, <1>5, <1>9 DEF Owed
  <2> QED
    BY <1>2, <1>3, <1>6, <1>9, <2>3, <2>6, <2>7
<1>10. CASE /\ Wants(c, ledger[fan.entry.g])
            /\ fan' = [fan EXCEPT !.full = c] /\ UNCHANGED conn
  <2>1. conn' \in [Client -> Conn] /\ \A d \in Client : Len(conn'[d].queue) <= QueueCap
    BY <1>1, <1>10 DEF TypeOK
  <2>2. fan \in Fan
    BY <1>1, <1>2 DEF TypeOK
  <2>3. /\ fan' \in Fan /\ fan'.full = c /\ fan'.todo = fan.todo /\ fan'.entry = fan.entry
        /\ fan' # None
    BY <1>10, <2>2 DEF Fan
  <2>4. TypeOK'
    BY <1>1, <1>2, <1>7, <2>1, <2>3, BrokerCalm
  <2>5. Broad'
    BY <1>2, <1>3, <1>10, <2>3, <2>4, BroadCalm
  <2>6. \A d \in Client : Owed(d)' <=> Owed(d)
    BY <1>2, <2>3 DEF Owed
  <2> QED
    BY <1>2, <1>3, <1>6, <1>10, <2>5, <2>6
<1> QED
  BY <1>8, <1>9, <1>10 DEF Enqueue

\* A step that concerns client c alone, and leaves the broker and the ledger.
OnlyFor(c) ==
  /\ UNCHANGED <<published, bus, epoch, broker, ledger>>
  /\ \A d \in Client \ {c} :
       /\ conn'[d] = conn[d] /\ client'[d] = client[d] /\ excused'[d] = excused[d]
       /\ Owed(d)' <=> Owed(d)

LEMMA DropOldestBroad ==
  ASSUME Broad, DropOldest
  PROVE  \E c \in Client, q \in Seq(Entry) :
           /\ Broad' /\ OnlyFor(c)
           /\ Owed(c) /\ ~Owed(c)' /\ q = conn[c].queue
           /\ client' = client
           /\ QueueFed(c, Append(IF q = <<>> THEN q ELSE Tail(q), fan.entry))
           /\ excused' = [excused EXCEPT ![c] =
                            IF q = <<>> THEN @ ELSE @ \cup {<<Head(q).g, "overflow">>}]
           /\ fan.entry \in Entry /\ fan.entry.g = Len(ledger) /\ fan.entry.id = nextID
           /\ Wants(c, ledger[Len(ledger)])
<1> USE Sizes
<1>1. TypeOK
  BY DEF Broad
<1>2. PICK c : c = fan.full
  OBVIOUS
<1>3. /\ fan # None /\ c # None /\ fan' = Without(c)
      /\ UNCHANGED <<published, bus, epoch, broker, client, ledger>>
  BY <1>2 DEF DropOldest
<1>4. c \in fan.todo /\ c \in Client /\ Owed(c)
  <2>1. fan \in Fan /\ fan.full \in fan.todo \cup {None}
    BY <1>1, <1>3 DEF TypeOK
  <2> QED
    BY <1>2, <1>3, <2>1 DEF Fan, Owed
<1>5. PICK q \in Seq(Entry) : q = conn[c].queue
  BY <1>1, <1>4, ConnParts
<1>6. /\ conn' = [conn EXCEPT ![c].queue = Append(IF q = <<>> THEN q ELSE Tail(q), fan.entry)]
      /\ excused' = [excused EXCEPT ![c] =
                       IF q = <<>> THEN @ ELSE @ \cup {<<Head(q).g, "overflow">>}]
  BY <1>2, <1>5 DEF DropOldest
<1>7. fan.entry \in Entry /\ fan.entry.id = nextID /\ fan.entry.g = Len(ledger)
  BY <1>3, EntryIsNewest
<1>8. PICK w : w = Without(c)
  OBVIOUS
<1>9. /\ w \in Fan \cup {None}
      /\ w # None => /\ fan # None /\ w.entry = fan.entry
                     /\ w.full \in w.todo \cup {None} /\ w.full \in {None, fan.full}
      /\ \A d \in Client : (w # None /\ d \in w.todo) <=> (Owed(d) /\ d # c)
  BY <1>1, <1>4, <1>8, WithoutIs
<1>10. QueueFed(c, Append(IF q = <<>> THEN q ELSE Tail(q), fan.entry))
  <2>1. PICK t : t = IF q = <<>> THEN q ELSE Tail(q)
    OBVIOUS
  <2>2. t \in Seq(Entry) /\ Len(t) + 1 <= QueueCap
    <3>1. Len(q) <= QueueCap
      BY <1>1, <1>4, <1>5, ConnParts
    <3>2. CASE q = <<>>
      BY <2>1, <3>2
    <3>3. CASE q # <<>>
      BY <2>1, <3>1, <3>3, SeqFacts
    <3> QED
      BY <3>2, <3>3
  <2>3. Append(t, fan.entry) \in Seq(Entry) /\ Len(Append(t, fan.entry)) <= QueueCap
    BY <1>7, <2>2, AppendFacts
  <2> QED
    BY <1>6, <2>1, <2>3 DEF QueueFed
<1>11. /\ conn' \in [Client -> Conn] /\ \A d \in Client : Len(conn'[d].queue) <= QueueCap
       /\ \A d \in Client \ {c} : conn'[d] = conn[d]
  BY <1>1, <1>4, <1>10, QueueType
<1>12. /\ excused' \in [Client -> SUBSET (Index \X Reason)]
       /\ \A d \in Client \ {c} : excused'[d] = excused[d]
  <2>1. excused \in [Client -> SUBSET (Index \X Reason)]
    BY <1>1 DEF TypeOK
  <2>2. q # <<>> => <<Head(q).g, "overflow">> \in Index \X Reason
    BY SeqFacts DEF Entry, Reason
  <2> QED
    BY <1>6, <2>1, <2>2
<1>13. client' \in [Client -> ClientState]
  BY <1>1, <1>3 DEF TypeOK
<1>14. TypeOK'
  BY <1>1, <1>3, <1>8, <1>9, <1>11, <1>12, <1>13, BrokerCalm
<1>15. Broad'
  BY <1>3, <1>8, <1>9, <1>14, BroadCalm
<1>16. \A d \in Client : Owed(d)' <=> Owed(d) /\ d # c
  BY <1>3, <1>8, <1>9 DEF Owed
<1>17. OnlyFor(c)
  BY <1>3, <1>11, <1>12, <1>16 DEF OnlyFor
<1>18. Wants(c, ledger[Len(ledger)])
  BY <1>2, <1>3 DEF Broad, Newest
<1> QED
  BY <1>3, <1>4, <1>5, <1>6, <1>7, <1>10, <1>15, <1>16, <1>17, <1>18

\* Any other step of a handler: what it makes of the connection, of the client
\* and of its excuses has its type.
LEMMA HandlerType ==
  ASSUME Broad, NEW c \in Client, NEW k \in Conn, NEW u \in ClientState,
         NEW x \in SUBSET (Index \X Reason),
         Len(k.queue) <= QueueCap,
         conn' = [conn EXCEPT ![c] = k], client' = [client EXCEPT ![c] = u],
         excused' = [excused EXCEPT ![c] = x],
         UNCHANGED <<published, bus, epoch, broker, ledger>>, fan' \in {fan, Without(c)}
  PROVE  /\ Broad' /\ OnlyFor(c)
         /\ conn'[c] = k /\ client'[c] = u /\ excused'[c] = x
         /\ Owed(c)' => Owed(c)
         /\ fan' = Without(c) => ~Owed(c)'
<1>1. /\ TypeOK /\ conn \in [Client -> Conn] /\ client \in [Client -> ClientState]
      /\ excused \in [Client -> SUBSET (Index \X Reason)]
      /\ fan \in Fan \cup {None} /\ (fan # None => fan.full \in fan.todo \cup {None})
      /\ \A d \in Client : Len(conn[d].queue) <= QueueCap
  BY DEF Broad, TypeOK
<1>2. /\ conn' \in [Client -> Conn] /\ client' \in [Client -> ClientState]
      /\ excused' \in [Client -> SUBSET (Index \X Reason)]
      /\ conn'[c] = k /\ client'[c] = u /\ excused'[c] = x
      /\ \A d \in Client \ {c} :
           conn'[d] = conn[d] /\ client'[d] = client[d] /\ excused'[d] = excused[d]
  BY <1>1
<1>3. \A d \in Client : Len(conn'[d].queue) <= QueueCap
  BY <1>1, <1>2
<1>4. PICK w : w = Without(c)
  OBVIOUS
<1>5. /\ w \in Fan \cup {None}
      /\ w # None => /\ fan # None /\ w.entry = fan.entry
                     /\ w.full \in w.todo \cup {None} /\ w.full \in {None, fan.full}
      /\ \A d \in Client : (w # None /\ d \in w.todo) <=> (Owed(d) /\ d # c)
  BY <1>1, <1>4, WithoutIs
<1>6. /\ fan' \in Fan \cup {None} /\ (fan' # None => fan'.full \in fan'.todo \cup {None})
      /\ fan' # None => fan # None /\ fan'.entry = fan.entry /\ fan'.full \in {None, fan.full}
  BY <1>1, <1>4, <1>5
<1>7. TypeOK'
  BY <1>1, <1>2, <1>3, <1>6, BrokerCalm
<1>8. Broad'
  BY <1>6, <1>7, BroadCalm
<1>9. /\ \A d \in Client \ {c} : Owed(d)' <=> Owed(d)
      /\ Owed(c)' => Owed(c)
      /\ fan' = Without(c) => ~Owed(c)'
  BY <1>4, <1>5 DEF Owed
<1>10. OnlyFor(c)
  BY <1>2, <1>9 DEF OnlyFor
<1> QED
  BY <1>2, <1>8, <1>9, <1>10

-----------------------------------------------------------------------------
(* What the steps leave of a client's part of the invariant *)

\* Nothing that concerns the client changes.
LEMMA ServedCalm ==
  ASSUME NEW c \in Client, Served(c), UNCHANGED <<ledger, nextID, epoch>>,
         conn'[c] = conn[c], client'[c] = client[c], excused'[c] = excused[c],
         Owed(c)' <=> Owed(c)
  PROVE  Served(c)'
<1>1. Earlier' = Earlier
  BY DEF Earlier
<1>3. Lined(c)'
  <2>1. Lined(c)
    BY DEF Served
  <2>2. Frames(c, conn[c].replay)' <=> Frames(c, conn[c].replay)
    BY <1>1 DEF Frames
  <2>3. Frames(c, conn[c].queue)' <=> Frames(c, conn[c].queue)
    BY <1>1 DEF Frames
  <2>4. Rising(conn[c].replay)' <=> Rising(conn[c].replay)
    BY DEF Rising
  <2>5. Rising(conn[c].queue)' <=> Rising(conn[c].queue)
    BY DEF Rising
  <2> QED
    BY <2>1, <2>2, <2>3, <2>4, <2>5 DEF Lined
<1>4. Knows(c)'
  BY <1>1 DEF Served, Knows
<1>5. \A g : Pending(c, g)' <=> Pending(c, g)
  BY DEF Pending
<1>6. \A g : ToCome(c, g)' <=> ToCome(c, g)
  BY DEF ToCome
<1>7. Accounted(c)'
  BY <1>5, <1>6 DEF Served, Accounted
<1> QED
  BY <1>3, <1>4, <1>7 DEF Served

LEMMA OnlyForOthers ==
  ASSUME NEW c \in Client, OnlyFor(c), NEW d \in Client, d # c, Served(d)
  PROVE  Served(d)'
BY ServedCalm DEF OnlyFor, broker

\* A new event: the client waits for it if it is subscribed.
LEMMA FanOutServed ==
  ASSUME Broad, FanOut, NEW c \in Client, Served(c)
  PROVE  Served(c)'
<1> USE Sizes
<1>1. TypeOK
  BY DEF Broad
<1>2. PICK L, e : L = Len(ledger) /\ e = Head(bus)
  OBVIOUS
<1> L \in Nat
  BY <1>1, <1>2, ConnParts
<1>3. /\ ledger' = Append(ledger, e) /\ nextID' = nextID + 1
      /\ UNCHANGED <<epoch, conn, client, excused>> /\ fan = None
  BY <1>2 DEF FanOut
<1>4. Len(ledger') = L + 1 /\ \A g \in 1..L : ledger'[g] = ledger[g]
  <2>1. ledger \in Seq(RecordEvent) /\ e \in RecordEvent
    <3>1. bus \in Seq(RecordEvent) /\ bus # <<>>
      BY <1>1 DEF TypeOK, FanOut
    <3> QED
      BY <1>1, <1>2, <3>1 DEF TypeOK
  <2> QED
    BY <1>2, <1>3, <2>1
<1>5. Earlier' = Earlier /\ Earlier \in Nat /\ Earlier <= L
  <2>1. nextID \in Nat /\ nextID <= L /\ Earlier = L - nextID
    BY <1>1, <1>2, ConnParts DEF Earlier
  <2>2. Earlier' = (L + 1) - (nextID + 1)
    BY <1>3, <1>4 DEF Earlier
  <2> QED
    BY <2>1, <2>2
<1>6. ~Owed(c) /\ (Owed(c)' <=> conn[c].pc # "off")
  BY <1>3, FanOutBroad DEF Owed
<1>7. Lined(c) /\ Knows(c) /\ Accounted(c)
  BY DEF Served
<1>8. ASSUME NEW s, Frames(c, s) PROVE Frames(c, s)'
  <2> SUFFICES ASSUME NEW i \in DOMAIN s
               PROVE  /\ s[i].g \in (Earlier + 1)..(L + 1)
                      /\ s[i].id = s[i].g - Earlier
                      /\ tenantOK(c, ledger'[s[i].g])
    BY <1>4, <1>5 DEF Frames, tenantOK
  <2>1. /\ s[i].g \in (Earlier + 1)..L
        /\ s[i].id = s[i].g - Earlier
        /\ tenantOK(c, ledger[s[i].g])
    BY <1>2, <1>8 DEF Frames
  <2>2. s[i].g \in 1..L
    BY <1>5, <2>1
  <2> QED
    BY <1>4, <1>5, <2>1, <2>2
<1>9. Knows(c)'
  <2>1. \A h \in client[c].got : h \in 1..L
    BY <1>1, <1>2, <1>7, ConnParts DEF Knows, Index
  <2> QED
    BY <1>1, <1>2, <1>3, <1>4, <1>5, <1>7, <2>1, ConnParts DEF Knows, tenantOK
<1>10. Lined(c)'
  <2>1. Frames(c, conn[c].replay) /\ Frames(c, conn[c].queue)
    BY <1>7 DEF Lined
  <2>2. PICK r, q : r = conn[c].replay /\ q = conn[c].queue
    OBVIOUS
  <2>3. Frames(c, r)' /\ Frames(c, q)'
    BY <1>8, <2>1, <2>2
  <2>4. \A i \in DOMAIN q : q[i].g < L + 1
    BY <1>2, <1>5, <2>1, <2>2 DEF Frames
  <2>5. client[c].mark < L + 1 /\ (conn[c].pc = "replay" => conn[c].start < L + 1)
    <3>1. client[c].mark \in Nat /\ conn[c].start \in Nat
      BY <1>1, ConnParts
    <3>2. client[c].mark <= L
      BY <1>2, <1>7 DEF Knows
    <3>3. conn[c].pc = "replay" => conn[c].start <= L
      BY <1>2, <1>7 DEF Lined
    <3> QED
      BY <3>1, <3>2, <3>3
  <2>6. Frames(c, conn[c].replay)' /\ Frames(c, conn[c].queue)'
    BY <1>3, <2>2, <2>3 DEF Frames
  <2>7. Rising(conn[c].replay)' /\ Rising(conn[c].queue)'
    BY <1>3, <1>7 DEF Lined, Rising
  <2>8. conn[c].pc = "replay" =>
          conn[c].start <= L + 1 /\ client[c].mark <= conn[c].start
    BY <1>1, <1>2, <1>7, ConnParts DEF Lined
  <2> QED
    BY <1>2, <1>3, <1>4, <1>6, <1>7, <2>2, <2>4, <2>5, <2>6, <2>7, <2>8 DEF Lined
<1>11. \A g \in 1..L : Pending(c, g)' => Pending(c, g)
  BY <1>1, <1>2, <1>3, <1>4, ConnParts DEF Pending, Wants, tenantOK, matches
<1>12. \A g : ToCome(c, g) => ToCome(c, g)'
  BY <1>3, <1>6 DEF ToCome
<1>13. conn[c].pc # "off" => ToCome(c, L + 1)'
  BY <1>4, <1>6, Zenon DEF ToCome
<1>14. Accounted(c)'
  <2>1. client[c].mark <= L
    BY <1>2, <1>7 DEF Knows
  <2>2. PICK p, t, m : p = conn[c].pc /\ t = conn[c].start /\ m = client[c].mark
    OBVIOUS
  <2> t \in Nat /\ m \in Nat
    BY <1>1, <2>2, ConnParts
  <2>3. CASE p = "off"
    BY <1>3, <1>7, <1>11, <2>1, <2>2, <2>3 DEF Accounted
  <2>4. CASE p = "live"
    <3>1. \A g \in 1..(L + 1) : g \in 1..L \/ g = L + 1
      OBVIOUS
    <3>2. \A g \in 1..(L + 1) : Pending(c, g)' => ToCome(c, g)'
      BY <1>2, <1>7, <1>11, <1>12, <1>13, <2>2, <2>4, <3>1 DEF Accounted
    <3> QED
      BY <1>3, <1>4, <2>2, <2>4, <3>2 DEF Accounted
  <2>5. CASE p = "replay"
    <3>1. t <= L
      BY <1>2, <1>7, <2>2, <2>5 DEF Lined
    <3>2. \A g \in (t + 1)..(L + 1) : Pending(c, g)' => ToCome(c, g)'
      <4>1. \A g \in (t + 1)..(L + 1) : (g \in 1..L /\ g \in (t + 1)..L) \/ g = L + 1
        OBVIOUS
      <4> QED
        BY <1>2, <1>7, <1>11, <1>12, <1>13, <2>2, <2>5, <4>1 DEF Accounted
    <3>3. \A g \in 1..t : Pending(c, g)' => Pending(c, g)
      BY <1>11, <3>1
    <3> QED
      BY <1>3, <1>4, <1>7, <2>2, <2>5, <3>2, <3>3 DEF Accounted
  <2> QED
    BY <1>1, <2>2, <2>3, <2>4, <2>5, ConnParts
<1> QED
  BY <1>9, <1>10, <1>14 DEF Served

\* t is what is left of a queue q that has lost its first entry, or none.
LeftOf(q, t) ==
  /\ t \in Seq(Entry)
  /\ \A i \in DOMAIN t : \E j \in DOMAIN q : t[i] = q[j]
  /\ Rising(q) => Rising(t)
  /\ \A j \in DOMAIN q : (\E i \in DOMAIN t : t[i] = q[j]) \/ (t # q /\ j = 1)
  /\ Rising(q) /\ t # q => \A i \in DOMAIN t : t[i].g > Head(q).g

LEMMA Shortened ==
  ASSUME NEW q \in Seq(Entry), NEW t, t = q \/ (q # <<>> /\ t = Tail(q))
  PROVE  LeftOf(q, t)
<1>1. CASE t = q
  BY <1>1 DEF LeftOf
<1>2. CASE q # <<>> /\ t = Tail(q)
  <2>1. /\ Head(q) = q[1] /\ 1 \in DOMAIN q
        /\ t \in Seq(Entry) /\ Len(t) = Len(q) - 1 /\ Len(q) \in Nat
        /\ DOMAIN t = 1..(Len(q) - 1) /\ DOMAIN q = 1..Len(q)
        /\ \A i \in DOMAIN t : t[i] = q[i + 1] /\ i + 1 \in DOMAIN q
    BY <1>2, SeqFacts
  <2>2. \A j \in DOMAIN q : j = 1 \/ (j - 1 \in DOMAIN t /\ t[j - 1] = q[j])
    <3> SUFFICES ASSUME NEW j \in DOMAIN q, j # 1 PROVE j - 1 \in DOMAIN t /\ t[j - 1] = q[j]
      OBVIOUS
    <3>1. j - 1 \in DOMAIN t /\ (j - 1) + 1 = j
      BY <2>1
    <3> QED
      BY <2>1, <3>1
  <2>3. t # q
    BY <2>1
  <2>4. Rising(q) => Rising(t) /\ \A i \in DOMAIN t : t[i].g > Head(q).g
    <3> SUFFICES ASSUME Rising(q) PROVE Rising(t) /\ \A i \in DOMAIN t : t[i].g > Head(q).g
      OBVIOUS
    <3>1. ASSUME NEW i \in DOMAIN t, NEW j \in DOMAIN t, i < j PROVE t[i].g < t[j].g
      <4>1. i + 1 \in DOMAIN q /\ j + 1 \in DOMAIN q /\ i + 1 < j + 1
        BY <2>1, <3>1
      <4>2. q[i + 1].g < q[j + 1].g
        BY <4>1 DEF Rising
      <4> QED
        BY <2>1, <4>2
    <3>2. ASSUME NEW i \in DOMAIN t PROVE t[i].g > Head(q).g
      <4>1. i + 1 \in DOMAIN q /\ 1 < i + 1 /\ 1 \in DOMAIN q
        BY <2>1
      <4>2. q[1].g < q[i + 1].g
        BY <4>1 DEF Rising
      <4>3. q[1].g \in Int /\ q[i + 1].g \in Int
        <5>1. q[1] \in Entry /\ q[i + 1] \in Entry
          BY <4>1
        <5> QED
          BY <5>1, Sizes DEF Entry, Index
      <4> QED
        BY <2>1, <4>2, <4>3
    <3> QED
      BY <3>1, <3>2 DEF Rising
  <2> QED
    BY <2>1, <2>2, <2>3, <2>4 DEF LeftOf
<1> QED
  BY <1>1, <1>2

\* The latest event is put in a client's queue, at the cost of the oldest
\* entry if there is no room.
LEMMA FedServed ==
  ASSUME Broad, NEW c \in Client, Served(c), Owed(c), ~Owed(c)',
         UNCHANGED <<ledger, nextID, epoch>>, client'[c] = client[c],
         NEW q, q = conn[c].queue, NEW t, NEW x \in Entry,
         x.g = Len(ledger), x.id = nextID, Wants(c, ledger[Len(ledger)]),
         conn'[c] = [conn[c] EXCEPT !.queue = Append(t, x)],
         excused[c] \subseteq excused'[c],
         \/ t = q
         \/ /\ q # <<>> /\ t = Tail(q)
            /\ <<Head(q).g, "overflow">> \in excused'[c]
  PROVE  Served(c)'
<1> USE Sizes
<1>1. TypeOK /\ Lined(c) /\ Knows(c) /\ Accounted(c)
  BY DEF Broad, Served
<1>2. PICK L, r, m, st, pc :
        /\ L = Len(ledger) /\ r = conn[c].replay /\ m = client[c].mark
        /\ st = conn[c].start /\ pc = conn[c].pc
  OBVIOUS
<1>3. /\ L \in Nat /\ q \in Seq(Entry) /\ r \in Seq(Entry) /\ m \in Nat /\ st \in Nat
      /\ pc \in {"off", "replay", "live"} /\ Earlier \in Nat /\ nextID \in Nat
      /\ Earlier = L - nextID /\ client[c].base \in Nat
  BY <1>1, <1>2, ConnParts DEF Earlier
<1>4. PICK u : u = Append(t, x)
  OBVIOUS
<1>5. /\ conn'[c].pc = pc /\ conn'[c].replay = r /\ conn'[c].start = st
      /\ conn'[c].truncated = conn[c].truncated /\ conn'[c].queue = u
  <2>1. conn[c] \in Conn
    BY <1>1 DEF TypeOK
  <2> QED
    BY <1>2, <1>4, <2>1 DEF Conn
<1>6. /\ t \in Seq(Entry)
      /\ \A i \in DOMAIN t : \E j \in DOMAIN q : t[i] = q[j]
      /\ Rising(q) => Rising(t)
      /\ \A j \in DOMAIN q : (\E i \in DOMAIN t : t[i] = q[j]) \/ (t # q /\ j = 1)
  <2>1. t = q \/ (q # <<>> /\ t = Tail(q))
    OBVIOUS
  <2>2. LeftOf(q, t)
    BY <1>3, <2>1, Shortened
  <2> QED
    BY <2>2 DEF LeftOf
<1>7. /\ u \in Seq(Entry) /\ Len(t) \in Nat
      /\ DOMAIN u = 1..(Len(t) + 1) /\ DOMAIN t = 1..Len(t)
      /\ \A i \in DOMAIN t : u[i] = t[i] /\ i \in DOMAIN u
      /\ u[Len(t) + 1] = x /\ Len(t) + 1 \in DOMAIN u
  <2>1. /\ u \in Seq(Entry) /\ Len(t) \in Nat
        /\ DOMAIN u = 1..(Len(t) + 1) /\ DOMAIN t = 1..Len(t)
        /\ \A i \in DOMAIN t : u[i] = t[i] /\ i \in DOMAIN u
        /\ u[Len(t) + 1] = x
    <3>1. t \in Seq(Entry)
      BY <1>6
    <3> QED
      BY <1>4, <3>1
  <2> QED
    BY <2>1
<1>8. \A i \in DOMAIN u : (i \in DOMAIN t /\ u[i] = t[i]) \/ (i = Len(t) + 1 /\ u[i] = x)
  BY <1>7
<1>9. \A i \in DOMAIN u : (\E j \in DOMAIN q : u[i] = q[j]) \/ u[i] = x
  BY <1>6, <1>8
<1>10. /\ nextID > 0 /\ m < L /\ \A j \in DOMAIN q : q[j].g < L
       /\ pc = "replay" => st < L
       /\ pc # "off"
  BY <1>1, <1>2 DEF Broad, Newest, Owed, Lined
<1>11. Earlier' = Earlier
  BY DEF Earlier
<1>12. Frames(c, r)' /\ Frames(c, u)'
  <2>1. Frames(c, r) /\ Frames(c, q)
    BY <1>1, <1>2 DEF Lined
  <2>2. L \in (Earlier + 1)..L /\ x.id = x.g - Earlier /\ tenantOK(c, ledger[x.g]) /\ x.g = L
    <3>1. tenantOK(c, ledger[x.g])
      BY DEF Wants
    <3>2. x.g = L /\ x.id = nextID
      BY <1>2
    <3>3. nextID > 0
      BY <1>10
    <3>4. L \in Nat /\ Earlier \in Nat /\ nextID \in Nat /\ Earlier = L - nextID
      BY <1>3
    <3>5. L \in (Earlier + 1)..L /\ nextID = L - Earlier
      BY <3>3, <3>4
    <3> QED
      BY <3>1, <3>2, <3>5
  <2>3. ASSUME NEW i \in DOMAIN u
        PROVE  u[i].g \in (Earlier + 1)..L /\ u[i].id = u[i].g - Earlier /\ tenantOK(c, ledger[u[i].g])
    <3>1. CASE u[i] = x
      BY <2>2, <3>1
    <3>2. CASE \E j \in DOMAIN q : u[i] = q[j]
      <4>1. PICK j \in DOMAIN q : u[i] = q[j]
        BY <3>2
      <4> QED
        BY <1>2, <2>1, <4>1 DEF Frames
    <3> QED
      BY <1>9, <3>1, <3>2
  <2> QED
    BY <1>2, <1>11, <2>1, <2>3 DEF Frames, tenantOK
<1>13. Rising(u) /\ Rising(r)
  <2>1. Rising(t) /\ Rising(r) /\ \A i \in DOMAIN t : t[i].g < L
    BY <1>1, <1>2, <1>6, <1>10 DEF Lined
  <2>2. ASSUME NEW i \in DOMAIN u, NEW j \in DOMAIN u, i < j PROVE u[i].g < u[j].g
    <3>1. i \in DOMAIN t /\ u[i] = t[i]
      BY <1>7, <2>2
    <3>2. CASE j \in DOMAIN t
      BY <1>7, <2>1, <2>2, <3>1, <3>2 DEF Rising
    <3>3. CASE u[j] = x
      BY <1>2, <2>1, <3>1, <3>3
    <3> QED
      BY <1>8, <3>2, <3>3
  <2> QED
    BY <2>1, <2>2 DEF Rising
<1>14. Lined(c)'
  <2>1. pc = "replay" => \A i \in DOMAIN u : u[i].g > st
    BY <1>1, <1>2, <1>9, <1>10 DEF Lined
  <2>2. pc = "live" => \A i \in DOMAIN u : u[i].g > m
    BY <1>1, <1>2, <1>9, <1>10 DEF Lined
  <2>3. Frames(c, conn[c].replay)' /\ Frames(c, conn[c].queue)'
    BY <1>5, <1>12 DEF Frames
  <2>4. Rising(conn[c].replay)' /\ Rising(conn[c].queue)'
    BY <1>5, <1>13 DEF Rising
  <2> QED
    BY <1>1, <1>2, <1>5, <1>10, <2>1, <2>2, <2>3, <2>4 DEF Lined
<1>15. Knows(c)'
  BY <1>1, <1>11 DEF Knows
<1>16. ASSUME NEW g, Pending(c, g)' PROVE Pending(c, g) /\ <<g, "overflow">> \notin excused'[c]
  BY <1>16 DEF Pending, Reason
<1>17. ASSUME NEW g, Pending(c, g)', ToCome(c, g) PROVE ToCome(c, g)'
  <2>1. CASE g = L
    BY <1>2, <1>5, <1>7, <2>1 DEF ToCome
  <2>2. CASE g # L
    <3>1. PICK j \in DOMAIN q : q[j].g = g
      BY <1>2, <1>17, <2>2 DEF ToCome
    <3>2. t = q \/ j # 1
      BY <1>16, <1>17, <3>1, SeqFacts, <1>3
    <3>3. PICK i \in DOMAIN t : t[i] = q[j]
      BY <1>6, <3>2
    <3> QED
      BY <1>5, <1>7, <3>1, <3>3 DEF ToCome
  <2> QED
    BY <2>1, <2>2
<1>18. Accounted(c)'
  <2>1. CASE pc = "live"
    BY <1>1, <1>2, <1>5, <1>16, <1>17, <2>1 DEF Accounted
  <2>2. CASE pc = "replay"
    <3>1. ASSUME NEW g \in 1..st, Pending(c, g)'
          PROVE  \/ conn[c].truncated
                 \/ g > m /\ \E i \in DOMAIN r : r[i].g = g
      BY <1>1, <1>2, <1>16, <2>2, <3>1 DEF Accounted
    <3>2. ASSUME NEW g \in (st + 1)..L, Pending(c, g)' PROVE ToCome(c, g)'
      BY <1>1, <1>2, <1>16, <1>17, <2>2, <3>2 DEF Accounted
    <3> QED
      BY <1>2, <1>5, <2>2, <3>1, <3>2 DEF Accounted
  <2> QED
    BY <1>3, <1>10, <2>1, <2>2
<1> QED
  BY <1>14, <1>15, <1>18 DEF Served

LEMMA EnqueueServed ==
  ASSUME Broad, NEW c \in Client, Enqueue(c), NEW d \in Client, Served(d)
  PROVE  Served(d)'
<1> USE Sizes
<1>1. TypeOK
  BY DEF Broad
<1>2. /\ UNCHANGED <<published, bus, epoch, broker, client, ledger, excused>>
      /\ Owed(c) /\ fan.entry \in Entry /\ fan.entry.id = nextID /\ fan.entry.g = Len(ledger)
  BY EnqueueBroad
<1>3. UNCHANGED <<ledger, nextID, epoch, client, excused>>
  BY <1>2 DEF broker
<1>4. CASE /\ conn' = conn
           /\ \A b \in Client : Owed(b)' <=> Owed(b)
  BY <1>3, <1>4, ServedCalm
<1>5. CASE /\ Wants(c, ledger[Len(ledger)])
           /\ QueueFed(c, Append(conn[c].queue, fan.entry))
           /\ \A b \in Client : Owed(b)' <=> Owed(b) /\ b # c
  <2>1. PICK q, x : q = conn[c].queue /\ x = fan.entry
    OBVIOUS
  <2>2. /\ conn'[c] = [conn[c] EXCEPT !.queue = Append(q, x)]
        /\ \A b \in Client \ {c} : conn'[b] = conn[b]
    BY <1>1, <1>5, <2>1, QueueType
  <2>3. CASE d = c
    <3>1. ~Owed(c)' /\ excused[c] \subseteq excused'[c] /\ client'[c] = client[c]
      BY <1>3, <1>5
    <3> QED
      BY <1>2, <1>3, <1>5, <2>1, <2>2, <2>3, <3>1, FedServed
  <2>4. CASE d # c
    BY <1>3, <1>5, <2>2, <2>4, ServedCalm
  <2> QED
    BY <2>3, <2>4
<1>6. CASE /\ conn' = conn
           /\ ~Wants(c, ledger[Len(ledger)])
           /\ \A b \in Client : Owed(b)' <=> Owed(b) /\ b # c
  <2>1. CASE d # c
    BY <1>3, <1>6, <2>1, ServedCalm
  <2>2. CASE d = c
    <3>1. Lined(c) /\ Knows(c) /\ Accounted(c) /\ ~Owed(c)' /\ Earlier' = Earlier
      BY <1>3, <1>6, <2>2 DEF Served, Earlier
    <3>2. Lined(c)'
      <4>1. Frames(c, conn[c].replay)' /\ Frames(c, conn[c].queue)'
        BY <1>3, <1>6, <3>1 DEF Lined, Frames, tenantOK
      <4>2. Rising(conn[c].replay)' /\ Rising(conn[c].queue)'
        BY <1>6, <3>1 DEF Lined, Rising
      <4> QED
        BY <1>3, <1>6, <3>1, <4>1, <4>2 DEF Lined
    <3>3. Knows(c)'
      BY <1>3, <3>1 DEF Knows, tenantOK
    <3>4. ASSUME NEW g, Pending(c, g)' PROVE Pending(c, g) /\ g # Len(ledger)
      BY <1>3, <1>6, <3>4 DEF Pending, Wants, tenantOK, matches
    <3>5. ASSUME NEW g, ToCome(c, g), g # Len(ledger) PROVE ToCome(c, g)'
      BY <1>3, <1>6, <3>5 DEF ToCome
    <3>6. Accounted(c)'
      BY <1>3, <1>6, <3>1, <3>4, <3>5 DEF Accounted
    <3> QED
      BY <2>2, <3>2, <3>3, <3>6 DEF Served
  <2> QED
    BY <2>1, <2>2
<1> QED
  BY <1>4, <1>5, <1>6, EnqueueBroad

LEMMA DropOldestServed ==
  ASSUME Broad, DropOldest, NEW d \in Client, Served(d)
  PROVE  Served(d)'
<1>1. TypeOK
  BY DEF Broad
<1>2. PICK c \in Client, q \in Seq(Entry) :
        /\ OnlyFor(c)
        /\ Owed(c) /\ ~Owed(c)' /\ q = conn[c].queue
        /\ client' = client
        /\ QueueFed(c, Append(IF q = <<>> THEN q ELSE Tail(q), fan.entry))
        /\ excused' = [excused EXCEPT ![c] =
                         IF q = <<>> THEN @ ELSE @ \cup {<<Head(q).g, "overflow">>}]
        /\ fan.entry \in Entry /\ fan.entry.g = Len(ledger) /\ fan.entry.id = nextID
        /\ Wants(c, ledger[Len(ledger)])
  BY DropOldestBroad
<1>3. CASE d # c
  BY <1>2, <1>3, OnlyForOthers
<1>4. CASE d = c
  <2>1. PICK t, x : t = (IF q = <<>> THEN q ELSE Tail(q)) /\ x = fan.entry
    OBVIOUS
  <2>2. conn'[c] = [conn[c] EXCEPT !.queue = Append(t, x)]
    BY <1>1, <1>2, <2>1, QueueType
  <2>3. /\ excused[c] \subseteq excused'[c]
        /\ \/ t = q
           \/ /\ q # <<>> /\ t = Tail(q)
              /\ <<Head(q).g, "overflow">> \in excused'[c]
    <3>1. DOMAIN excused = Client
      BY <1>1 DEF TypeOK
    <3> QED
      BY <1>2, <2>1, <3>1
  <2>4. UNCHANGED <<ledger, nextID, epoch>>
    BY <1>2 DEF OnlyFor, broker
  <2> QED
    BY <1>2, <1>4, <2>1, <2>2, <2>3, <2>4, FedServed
<1> QED
  BY <1>3, <1>4

LEMMA TookFields ==
  ASSUME TypeOK, NEW u \in ClientState, NEW x \in Entry
  PROVE  /\ Took(u, x) \in ClientState
         /\ Took(u, x).cursor = x.id /\ Took(u, x).epoch = epoch /\ Took(u, x).base = u.base
         /\ Took(u, x).mark = (IF u.mark > x.g THEN u.mark ELSE x.g)
         /\ Took(u, x).got = u.got \cup {x.g}
<1> USE Sizes
<1>1. epoch \in Nat /\ x.id \in Nat /\ x.g \in Index /\ x.g \in 0..MaxEvents
  BY DEF TypeOK, Entry, Index
<1>2. /\ Took(u, x).cursor = x.id /\ Took(u, x).epoch = epoch /\ Took(u, x).base = u.base
      /\ Took(u, x).mark = Later(u.mark, x.g) /\ Took(u, x).got = u.got \cup {x.g}
  BY DEF Took, ClientState
<1>3. Later(u.mark, x.g) \in 0..MaxEvents
  BY <1>1 DEF Later, ClientState
<1>4. Took(u, x) \in ClientState
  BY <1>1, <1>3 DEF Took, ClientState
<1> QED
  BY <1>2, <1>4 DEF Later

LEMMA ConnFields ==
  ASSUME NEW k \in Conn
  PROVE  /\ \A s \in Seq(Entry) :
              /\ [k EXCEPT !.queue = s] \in Conn /\ [k EXCEPT !.queue = s].queue = s
              /\ [k EXCEPT !.queue = s].pc = k.pc /\ [k EXCEPT !.queue = s].replay = k.replay
              /\ [k EXCEPT !.queue = s].start = k.start
              /\ [k EXCEPT !.queue = s].truncated = k.truncated
              /\ [k EXCEPT !.replay = s] \in Conn /\ [k EXCEPT !.replay = s].replay = s
              /\ [k EXCEPT !.replay = s].pc = k.pc /\ [k EXCEPT !.replay = s].queue = k.queue
              /\ [k EXCEPT !.replay = s].start = k.start
              /\ [k EXCEPT !.replay = s].truncated = k.truncated
         /\ LET l == [k EXCEPT !.pc = "live", !.truncated = FALSE, !.start = 0]
            IN  /\ l \in Conn /\ l.pc = "live" /\ l.queue = k.queue /\ l.replay = k.replay
<1>1. 0 \in 0..MaxEvents
  BY Sizes
<1> QED
  BY <1>1 DEF Conn

\* The excuses stay as they are.
LEMMA SameExcuses ==
  ASSUME TypeOK, NEW c \in Client
  PROVE  excused = [excused EXCEPT ![c] = excused[c]] /\ excused[c] \in SUBSET (Index \X Reason)
BY DEF TypeOK

LEMMA WriteEventStep ==
  ASSUME Broad, NEW c \in Client, WriteEvent(c)
  PROVE  /\ Broad' /\ OnlyFor(c) /\ (Owed(c)' <=> Owed(c))
         /\ conn[c].pc = "live" /\ conn[c].queue # <<>>
         /\ conn'[c] = [conn[c] EXCEPT !.queue = Tail(conn[c].queue)]
         /\ client'[c] = Took(client[c], Head(conn[c].queue))
         /\ excused'[c] = excused[c]
<1>1. TypeOK /\ conn[c] \in Conn /\ client[c] \in ClientState
  BY DEF Broad, TypeOK
<1>2. PICK q, x, k, u : /\ q = conn[c].queue /\ x = Head(q)
                        /\ k = [conn[c] EXCEPT !.queue = Tail(q)] /\ u = Took(client[c], x)
  OBVIOUS
<1>3. /\ conn[c].pc = "live" /\ q # <<>> /\ UNCHANGED <<published, bus, epoch, broker, ledger>>
      /\ fan' = fan /\ excused' = excused
  BY <1>2 DEF WriteEvent
<1>4. conn' = [conn EXCEPT ![c] = k]
  <2>1. conn' = [conn EXCEPT ![c].queue = Tail(@)]
    BY DEF WriteEvent
  <2> QED
    BY <1>2, <2>1
<1>5. client' = [client EXCEPT ![c] = u]
  <2>1. Receive(c, Head(conn[c].queue))
    BY DEF WriteEvent
  <2>2. client' = [client EXCEPT ![c] = Took(client[c], Head(conn[c].queue))]
    BY <2>1 DEF Receive
  <2> QED
    BY <1>2, <2>2
<1>6. q \in Seq(Entry) /\ Len(q) <= QueueCap
  BY <1>1, <1>2, ConnParts
<1>7. Tail(q) \in Seq(Entry) /\ x \in Entry /\ Len(Tail(q)) <= QueueCap
  BY <1>2, <1>3, <1>6, SeqFacts, Sizes
<1>8. k \in Conn /\ k.queue = Tail(q) /\ u \in ClientState
  BY <1>1, <1>2, <1>7, ConnFields, TookFields
<1>9. excused' = [excused EXCEPT ![c] = excused[c]] /\ excused[c] \in SUBSET (Index \X Reason)
  BY <1>1, <1>3, SameExcuses
<1>10. /\ Broad' /\ OnlyFor(c)
       /\ conn'[c] = k /\ client'[c] = u /\ excused'[c] = excused[c]
  <2>1. PICK e \in SUBSET (Index \X Reason) : e = excused[c]
    BY <1>9
  <2>2. excused' = [excused EXCEPT ![c] = e] /\ Len(k.queue) <= QueueCap
    BY <1>6, <1>7, <1>8, <1>9, <2>1
  <2>3. /\ k \in Conn /\ u \in ClientState /\ fan' \in {fan, Without(c)}
        /\ UNCHANGED <<published, bus, epoch, broker, ledger>>
    BY <1>3, <1>6, <1>8
  <2> QED
    BY <1>4, <1>5, <2>1, <2>2, <2>3, HandlerType
<1>11. Owed(c)' <=> Owed(c)
  BY <1>3 DEF Owed
<1> QED
  BY <1>2, <1>3, <1>6, <1>10, <1>11

LEMMA WriteReplayStep ==
  ASSUME Broad, NEW c \in Client, WriteReplay(c)
  PROVE  /\ Broad' /\ OnlyFor(c) /\ (Owed(c)' <=> Owed(c))
         /\ conn[c].pc = "replay" /\ conn[c].replay # <<>>
         /\ conn'[c] = [conn[c] EXCEPT !.replay = Tail(conn[c].replay)]
         /\ client'[c] = Took(client[c], Head(conn[c].replay))
         /\ excused'[c] = excused[c]
<1>1. TypeOK /\ conn[c] \in Conn /\ client[c] \in ClientState
  BY DEF Broad, TypeOK
<1>2. PICK q, x, k, u : /\ q = conn[c].replay /\ x = Head(q)
                        /\ k = [conn[c] EXCEPT !.replay = Tail(q)] /\ u = Took(client[c], x)
  OBVIOUS
<1>3. /\ conn[c].pc = "replay" /\ q # <<>> /\ UNCHANGED <<published, bus, epoch, broker, ledger>>
      /\ fan' = fan /\ excused' = excused
  BY <1>2 DEF WriteReplay
<1>4. conn' = [conn EXCEPT ![c] = k]
  <2>1. conn' = [conn EXCEPT ![c].replay = Tail(@)]
    BY DEF WriteReplay
  <2> QED
    BY <1>2, <2>1
<1>5. client' = [client EXCEPT ![c] = u]
  <2>1. Receive(c, Head(conn[c].replay))
    BY DEF WriteReplay
  <2>2. client' = [client EXCEPT ![c] = Took(client[c], Head(conn[c].replay))]
    BY <2>1 DEF Receive
  <2> QED
    BY <1>2, <2>2
<1>6. q \in Seq(Entry) /\ Len(conn[c].queue) <= QueueCap
  BY <1>1, <1>2, ConnParts
<1>7. Tail(q) \in Seq(Entry) /\ x \in Entry
  BY <1>2, <1>3, <1>6, SeqFacts
<1>8. k \in Conn /\ k.queue = conn[c].queue /\ u \in ClientState
  BY <1>1, <1>2, <1>7, ConnFields, TookFields
<1>9. excused' = [excused EXCEPT ![c] = excused[c]] /\ excused[c] \in SUBSET (Index \X Reason)
  BY <1>1, <1>3, SameExcuses
<1>10. /\ Broad' /\ OnlyFor(c)
       /\ conn'[c] = k /\ client'[c] = u /\ excused'[c] = excused[c]
  <2>1. PICK e \in SUBSET (Index \X Reason) : e = excused[c]
    BY <1>9
  <2>2. excused' = [excused EXCEPT ![c] = e] /\ Len(k.queue) <= QueueCap
    BY <1>6, <1>7, <1>8, <1>9, <2>1
  <2>3. /\ k \in Conn /\ u \in ClientState /\ fan' \in {fan, Without(c)}
        /\ UNCHANGED <<published, bus, epoch, broker, ledger>>
    BY <1>3, <1>6, <1>8
  <2> QED
    BY <1>4, <1>5, <2>1, <2>2, <2>3, HandlerType
<1>11. Owed(c)' <=> Owed(c)
  BY <1>3 DEF Owed
<1> QED
  BY <1>2, <1>3, <1>6, <1>10, <1>11

LEMMA ReplayDoneStep ==
  ASSUME Broad, NEW c \in Client, ReplayDone(c)
  PROVE  /\ Broad' /\ OnlyFor(c) /\ (Owed(c)' <=> Owed(c))
         /\ conn[c].pc = "replay" /\ conn[c].replay = <<>>
         /\ conn'[c].pc = "live" /\ conn'[c].queue = conn[c].queue /\ conn'[c].replay = <<>>
         /\ client'[c] = [client[c] EXCEPT
                            !.mark = Later(@, conn[c].start),
                            !.base = IF conn[c].truncated THEN conn[c].start ELSE @]
         /\ excused'[c] = excused[c]
<1>1. TypeOK /\ conn[c] \in Conn /\ client[c] \in ClientState
  BY DEF Broad, TypeOK
<1>2. PICK k, u : /\ k = [conn[c] EXCEPT !.pc = "live", !.truncated = FALSE, !.start = 0]
                  /\ u = [client[c] EXCEPT
                            !.mark = Later(@, conn[c].start),
                            !.base = IF conn[c].truncated THEN conn[c].start ELSE @]
  OBVIOUS
<1>3. /\ conn[c].pc = "replay" /\ conn[c].replay = <<>>
      /\ UNCHANGED <<published, bus, epoch, broker, ledger>> /\ fan' = fan /\ excused' = excused
  BY DEF ReplayDone
<1>4. conn' = [conn EXCEPT ![c] = k]
  BY <1>2 DEF ReplayDone
<1>5. client' = [client EXCEPT ![c] = u]
  <2>1. client' = [client EXCEPT ![c].mark = Later(@, conn[c].start),
                                 ![c].base = IF conn[c].truncated THEN conn[c].start ELSE @]
    BY DEF ReplayDone
  <2>2. client \in [Client -> ClientState]
    BY <1>1 DEF TypeOK
  <2> QED
    BY <1>2, <2>1, <2>2 DEF ClientState
<1>6. k \in Conn /\ k.pc = "live" /\ k.queue = conn[c].queue /\ k.replay = conn[c].replay
  BY <1>1, <1>2, ConnFields
<1>7. conn[c].start \in 0..MaxEvents /\ Len(conn[c].queue) <= QueueCap
  BY <1>1, ConnParts DEF Conn
<1>8. u \in ClientState
  <2>1. client[c].mark \in 0..MaxEvents /\ client[c].base \in 0..MaxEvents
    BY <1>1 DEF ClientState
  <2>2. Later(client[c].mark, conn[c].start) \in 0..MaxEvents
    BY <1>7, <2>1 DEF Later
  <2> QED
    BY <1>1, <1>2, <1>7, <2>1, <2>2 DEF ClientState
<1>9. excused' = [excused EXCEPT ![c] = excused[c]] /\ excused[c] \in SUBSET (Index \X Reason)
  BY <1>1, <1>3, SameExcuses
<1>10. /\ Broad' /\ OnlyFor(c)
       /\ conn'[c] = k /\ client'[c] = u /\ excused'[c] = excused[c]
  <2>1. PICK e \in SUBSET (Index \X Reason) : e = excused[c]
    BY <1>9
  <2>2. excused' = [excused EXCEPT ![c] = e] /\ Len(k.queue) <= QueueCap
    BY <1>6, <1>7, <1>8, <1>9, <2>1
  <2>3. /\ k \in Conn /\ u \in ClientState /\ fan' \in {fan, Without(c)}
        /\ UNCHANGED <<published, bus, epoch, broker, ledger>>
    BY <1>3, <1>6, <1>8
  <2> QED
    BY <1>4, <1>5, <2>1, <2>2, <2>3, HandlerType
<1>11. Owed(c)' <=> Owed(c)
  BY <1>3 DEF Owed
<1> QED
  BY <1>2, <1>3, <1>6, <1>10, <1>11

LEMMA WriteEventServed ==
  ASSUME Broad, NEW c \in Client, WriteEvent(c), Served(c)
  PROVE  Served(c)'
<1> USE Sizes
<1>1. TypeOK /\ Lined(c) /\ Knows(c) /\ Accounted(c)
  BY DEF Broad, Served
<1>2. PICK q, x, t, L, m : /\ q = conn[c].queue /\ x = Head(q) /\ t = Tail(q)
                           /\ L = Len(ledger) /\ m = client[c].mark
  OBVIOUS
<1>3. /\ OnlyFor(c) /\ (Owed(c)' <=> Owed(c)) /\ conn[c].pc = "live" /\ q # <<>>
      /\ conn'[c] = [conn[c] EXCEPT !.queue = t] /\ client'[c] = Took(client[c], x)
      /\ excused'[c] = excused[c]
  BY <1>2, WriteEventStep
<1>4. UNCHANGED <<ledger, nextID, epoch>> /\ Earlier' = Earlier
  BY <1>3 DEF OnlyFor, broker, Earlier
<1>5. /\ q \in Seq(Entry) /\ L \in Nat /\ m \in Nat /\ Earlier \in Nat /\ epoch \in Nat
      /\ conn[c] \in Conn /\ client[c] \in ClientState
  BY <1>1, <1>2, ConnParts DEF TypeOK
<1>6. /\ x = q[1] /\ 1 \in DOMAIN q /\ x \in Entry /\ t \in Seq(Entry)
      /\ Len(t) = Len(q) - 1 /\ Len(q) \in Nat
  BY <1>2, <1>3, <1>5, SeqFacts
<1>7. /\ conn'[c].pc = "live" /\ conn'[c].queue = t /\ conn'[c].replay = <<>>
      /\ conn'[c].start = conn[c].start
  <2>1. conn[c].replay = <<>>
    BY <1>1, <1>3 DEF Lined
  <2> QED
    BY <1>3, <1>5, <2>1 DEF Conn
<1>8. /\ client'[c].cursor = x.id /\ client'[c].epoch = epoch
      /\ client'[c].base = client[c].base
      /\ client'[c].mark = (IF m > x.g THEN m ELSE x.g)
      /\ client'[c].got = client[c].got \cup {x.g}
  <2>1. PICK u \in ClientState : u = client[c]
    BY <1>5
  <2>2. /\ Took(u, x).cursor = x.id /\ Took(u, x).epoch = epoch /\ Took(u, x).base = u.base
        /\ Took(u, x).mark = (IF u.mark > x.g THEN u.mark ELSE x.g)
        /\ Took(u, x).got = u.got \cup {x.g}
    BY <1>1, <1>6, TookFields
  <2> QED
    BY <1>2, <1>3, <2>1, <2>2
<1>9. LeftOf(q, t)
  BY <1>2, <1>3, <1>5, Shortened
<1>10. /\ Rising(q) /\ Frames(c, q) /\ \A i \in DOMAIN q : q[i].g > m
       /\ Owed(c) => \A i \in DOMAIN q : q[i].g < L
  BY <1>1, <1>2, <1>3 DEF Lined
<1>11. /\ x.g \in (Earlier + 1)..L /\ x.id = x.g - Earlier /\ tenantOK(c, ledger[x.g])
       /\ x.g > m
  BY <1>2, <1>6, <1>10 DEF Frames
<1>12. client'[c].mark = x.g
  BY <1>5, <1>8, <1>11
<1>13. /\ t # q /\ Rising(t) /\ Frames(c, t) /\ \A i \in DOMAIN t : t[i].g > x.g
       /\ Owed(c) => x.g < L /\ \A i \in DOMAIN t : t[i].g < L
  <2>1. t # q
    BY <1>6
  <2> QED
    BY <1>2, <1>6, <1>9, <1>10, <2>1 DEF LeftOf, Frames
<1>14. Lined(c)'
  <2>1. Frames(c, conn[c].queue)' /\ Frames(c, conn[c].replay)'
    BY <1>4, <1>7, <1>13 DEF Frames, tenantOK
  <2>2. Rising(conn[c].queue)' /\ Rising(conn[c].replay)'
    BY <1>7, <1>13 DEF Rising
  <2> QED
    BY <1>2, <1>3, <1>4, <1>7, <1>12, <1>13, <2>1, <2>2 DEF Lined
<1>15. Knows(c)'
  <2>1. /\ client[c].base <= m /\ client[c].base \in Nat
        /\ \A h \in client[c].got : h <= m /\ tenantOK(c, ledger[h]) /\ h \in Nat
    BY <1>1, <1>2, ConnParts DEF Knows, Index
  <2>2. client[c].base <= x.g /\ x.g <= L /\ x.id > 0 /\ Earlier + x.id = x.g
    BY <1>5, <1>11, <2>1
  <2>3. \A h \in client'[c].got : h <= x.g /\ tenantOK(c, ledger[h])
    BY <1>5, <1>8, <1>11, <2>1
  <2> QED
    BY <1>2, <1>4, <1>5, <1>8, <1>12, <2>2, <2>3 DEF Knows, tenantOK
<1>16. ASSUME NEW g, Pending(c, g)' PROVE Pending(c, g) /\ g # x.g
  BY <1>3, <1>4, <1>8, <1>16 DEF Pending, Wants, tenantOK, matches
<1>17. ASSUME NEW g, ToCome(c, g), g # x.g PROVE ToCome(c, g)'
  <2>1. CASE Owed(c) /\ g = L
    BY <1>2, <1>3, <1>4, <2>1 DEF ToCome
  <2>2. CASE \E j \in DOMAIN q : q[j].g = g
    <3>1. PICK j \in DOMAIN q : q[j].g = g
      BY <2>2
    <3>2. PICK i \in DOMAIN t : t[i] = q[j]
      BY <1>6, <1>9, <1>17, <3>1 DEF LeftOf
    <3> QED
      BY <1>7, <3>1, <3>2 DEF ToCome
  <2> QED
    BY <1>2, <1>17, <2>1, <2>2 DEF ToCome
<1>18. Accounted(c)'
  BY <1>1, <1>3, <1>4, <1>7, <1>16, <1>17 DEF Accounted
<1> QED
  BY <1>14, <1>15, <1>18 DEF Served

LEMMA WriteReplayServed ==
  ASSUME Broad, NEW c \in Client, WriteReplay(c), Served(c)
  PROVE  Served(c)'
<1> USE Sizes
<1>1. TypeOK /\ Lined(c) /\ Knows(c) /\ Accounted(c)
  BY DEF Broad, Served
<1>2. PICK r, x, t, L, m, st :
        /\ r = conn[c].replay /\ x = Head(r) /\ t = Tail(r)
        /\ L = Len(ledger) /\ m = client[c].mark /\ st = conn[c].start
  OBVIOUS
<1>3. /\ OnlyFor(c) /\ (Owed(c)' <=> Owed(c)) /\ conn[c].pc = "replay" /\ r # <<>>
      /\ conn'[c] = [conn[c] EXCEPT !.replay = t] /\ client'[c] = Took(client[c], x)
      /\ excused'[c] = excused[c]
  BY <1>2, WriteReplayStep
<1>4. UNCHANGED <<ledger, nextID, epoch>> /\ Earlier' = Earlier
  BY <1>3 DEF OnlyFor, broker, Earlier
<1>5. /\ r \in Seq(Entry) /\ L \in Nat /\ m \in Nat /\ st \in Nat /\ Earlier \in Nat
      /\ epoch \in Nat /\ conn[c] \in Conn /\ client[c] \in ClientState
  BY <1>1, <1>2, ConnParts DEF TypeOK
<1>6. /\ x = r[1] /\ 1 \in DOMAIN r /\ x \in Entry /\ t \in Seq(Entry)
      /\ Len(t) = Len(r) - 1 /\ Len(r) \in Nat
  BY <1>2, <1>3, <1>5, SeqFacts
<1>7. /\ conn'[c].pc = "replay" /\ conn'[c].queue = conn[c].queue /\ conn'[c].replay = t
      /\ conn'[c].start = st /\ conn'[c].truncated = conn[c].truncated
  BY <1>2, <1>3, <1>5 DEF Conn
<1>8. /\ client'[c].cursor = x.id /\ client'[c].epoch = epoch
      /\ client'[c].base = client[c].base
      /\ client'[c].mark = (IF m > x.g THEN m ELSE x.g)
      /\ client'[c].got = client[c].got \cup {x.g}
  <2>1. PICK u \in ClientState : u = client[c]
    BY <1>5
  <2>2. /\ Took(u, x).cursor = x.id /\ Took(u, x).epoch = epoch /\ Took(u, x).base = u.base
        /\ Took(u, x).mark = (IF u.mark > x.g THEN u.mark ELSE x.g)
        /\ Took(u, x).got = u.got \cup {x.g}
    BY <1>1, <1>6, TookFields
  <2> QED
    BY <1>2, <1>3, <2>1, <2>2
<1>9. LeftOf(r, t)
  BY <1>2, <1>3, <1>5, Shortened
<1>10. /\ Rising(r) /\ Frames(c, r) /\ m <= st /\ st <= L
       /\ \A i \in DOMAIN r : r[i].g <= st /\ \A h \in client[c].got : h < r[i].g
       /\ Owed(c) => st < L
  BY <1>1, <1>2, <1>3 DEF Lined
<1>11. /\ x.g \in (Earlier + 1)..L /\ x.id = x.g - Earlier /\ tenantOK(c, ledger[x.g])
       /\ x.g <= st /\ \A h \in client[c].got : h < x.g
  BY <1>2, <1>6, <1>10 DEF Frames
<1>12. PICK n \in Nat : /\ n = client'[c].mark /\ x.g <= n /\ m <= n /\ n <= st /\ n <= L
                        /\ n = m \/ n = x.g
  BY <1>5, <1>8, <1>10, <1>11
<1>13. /\ t # r /\ Rising(t) /\ Frames(c, t) /\ \A i \in DOMAIN t : t[i].g > x.g /\ t[i].g <= st
  <2>1. t # r
    BY <1>6
  <2> QED
    BY <1>2, <1>6, <1>9, <1>10, <2>1 DEF LeftOf, Frames
<1>14. Lined(c)'
  <2>1. Frames(c, conn[c].queue)' /\ Frames(c, conn[c].replay)'
    <3>1. Frames(c, conn[c].queue)
      BY <1>1 DEF Lined
    <3> QED
      BY <1>4, <1>7, <1>13, <3>1 DEF Frames, tenantOK
  <2>2. Rising(conn[c].queue)' /\ Rising(conn[c].replay)'
    BY <1>1, <1>7, <1>13 DEF Rising, Lined
  <2>3. \A i \in DOMAIN t : \A h \in client'[c].got : h < t[i].g
    <3>1. \A h \in client[c].got : h \in Int
      BY <1>1, ConnParts DEF Index
    <3>2. ASSUME NEW i \in DOMAIN t PROVE t[i].g \in Int
      <4>1. t[i] \in Entry
        BY <1>6
      <4> QED
        BY <4>1 DEF Entry, Index
    <3> QED
      BY <1>8, <1>11, <1>13, <3>1, <3>2
  <2>4. Owed(c) => n < L
    BY <1>5, <1>10, <1>12
  <2> QED
    BY <1>1, <1>2, <1>3, <1>4, <1>7, <1>10, <1>12, <1>13, <2>1, <2>2, <2>3, <2>4 DEF Lined
<1>15. Knows(c)'
  <2>1. /\ client[c].base <= m /\ client[c].base \in Nat
        /\ \A h \in client[c].got : h <= m /\ tenantOK(c, ledger[h]) /\ h \in Nat
    BY <1>1, <1>2, ConnParts DEF Knows, Index
  <2>2. client[c].base <= n /\ x.id > 0 /\ Earlier + x.id = x.g
    BY <1>5, <1>11, <1>12, <2>1
  <2>3. \A h \in client'[c].got : h <= x.g /\ h <= n /\ tenantOK(c, ledger[h])
    BY <1>5, <1>8, <1>11, <1>12, <2>1
  <2>4. /\ client'[c].epoch = epoch' /\ client'[c].cursor > 0 /\ epoch' <= epoch'
        /\ Earlier' + client'[c].cursor = x.g
    BY <1>4, <1>5, <1>8, <2>2
  <2>5. client'[c].base <= n /\ n <= Len(ledger')
    BY <1>2, <1>4, <1>8, <1>12, <2>2
  <2>6. \A h \in client'[c].got : h <= n /\ tenantOK(c, ledger'[h]) /\ h <= x.g
    BY <1>4, <2>3
  <2> QED
    BY <1>12, <2>4, <2>5, <2>6 DEF Knows, tenantOK
<1>16. ASSUME NEW g, Pending(c, g)' PROVE Pending(c, g) /\ g # x.g
  BY <1>3, <1>4, <1>8, <1>16 DEF Pending, Wants, tenantOK, matches
<1>17. ASSUME NEW g, ToCome(c, g) PROVE ToCome(c, g)'
  BY <1>3, <1>4, <1>7, <1>17 DEF ToCome
<1>18. ASSUME NEW g \in 1..st, Pending(c, g)', ~conn[c].truncated
       PROVE  g > n /\ \E i \in DOMAIN t : t[i].g = g
  <2>1. Pending(c, g) /\ g # x.g
    BY <1>16, <1>18
  <2>2. g > m /\ \E j \in DOMAIN r : r[j].g = g
    BY <1>1, <1>2, <1>3, <1>18, <2>1 DEF Accounted
  <2>3. PICK j \in DOMAIN r : r[j].g = g
    BY <2>2
  <2>4. PICK i \in DOMAIN t : t[i] = r[j]
    BY <1>6, <1>9, <2>1, <2>3 DEF LeftOf
  <2>5. g > x.g
    BY <1>13, <2>3, <2>4
  <2> QED
    BY <1>12, <2>2, <2>3, <2>4, <2>5
<1>19. Accounted(c)'
  BY <1>1, <1>2, <1>3, <1>4, <1>7, <1>12, <1>16, <1>17, <1>18 DEF Accounted
<1> QED
  BY <1>14, <1>15, <1>19 DEF Served

LEMMA ReplayDoneServed ==
  ASSUME Broad, NEW c \in Client, ReplayDone(c), Served(c)
  PROVE  Served(c)'
<1> USE Sizes
<1>1. TypeOK /\ Lined(c) /\ Knows(c) /\ Accounted(c)
  BY DEF Broad, Served
<1>2. PICK q, L, m, b, st :
        /\ q = conn[c].queue /\ L = Len(ledger) /\ m = client[c].mark
        /\ b = client[c].base /\ st = conn[c].start
  OBVIOUS
<1>3. /\ OnlyFor(c) /\ (Owed(c)' <=> Owed(c)) /\ conn[c].pc = "replay" /\ conn[c].replay = <<>>
      /\ conn'[c].pc = "live" /\ conn'[c].queue = q /\ conn'[c].replay = <<>>
      /\ client'[c] = [client[c] EXCEPT !.mark = Later(@, conn[c].start),
                                        !.base = IF conn[c].truncated THEN conn[c].start ELSE @]
      /\ excused'[c] = excused[c]
  BY <1>2, ReplayDoneStep
<1>4. UNCHANGED <<ledger, nextID, epoch>> /\ Earlier' = Earlier
  BY <1>3 DEF OnlyFor, broker, Earlier
<1>5. /\ L \in Nat /\ m \in Nat /\ st \in Nat /\ b \in Nat /\ Earlier \in Nat
      /\ epoch \in Nat /\ client[c] \in ClientState /\ client[c].cursor \in Nat
      /\ \A h \in client[c].got : h \in Nat
  <2>1. client[c] \in ClientState
    BY <1>1 DEF TypeOK
  <2>2. client[c].got \subseteq Index
    BY <1>1, ConnParts
  <2>3. \A h \in client[c].got : h \in Nat
    BY <2>2 DEF Index
  <2> QED
    BY <1>1, <1>2, <2>1, <2>3, ConnParts
<1>6. /\ Rising(q) /\ Frames(c, q) /\ m <= st /\ st <= L
      /\ \A i \in DOMAIN q : q[i].g > st
      /\ Owed(c) => st < L /\ \A i \in DOMAIN q : q[i].g < L
  BY <1>1, <1>2, <1>3 DEF Lined
<1>7. b <= m /\ m <= L
  BY <1>1, <1>2 DEF Knows
<1>8. PICK n, a : n = client'[c].mark /\ a = client'[c].base
  OBVIOUS
<1>9. /\ n = st /\ a = (IF conn[c].truncated THEN st ELSE b)
      /\ client'[c].cursor = client[c].cursor /\ client'[c].epoch = client[c].epoch
      /\ client'[c].got = client[c].got
  <2>1. /\ n = Later(m, st) /\ a = (IF conn[c].truncated THEN st ELSE b)
        /\ client'[c].cursor = client[c].cursor /\ client'[c].epoch = client[c].epoch
        /\ client'[c].got = client[c].got
    BY <1>2, <1>3, <1>5, <1>8 DEF ClientState
  <2>2. Later(m, st) = st
    BY <1>5, <1>6 DEF Later
  <2> QED
    BY <2>1, <2>2
<1>10. Lined(c)'
  <2>1. Frames(c, conn[c].queue)' /\ Frames(c, conn[c].replay)'
    BY <1>3, <1>4, <1>6 DEF Frames, tenantOK
  <2>2. Rising(conn[c].queue)' /\ Rising(conn[c].replay)'
    BY <1>3, <1>6 DEF Rising
  <2> QED
    BY <1>2, <1>3, <1>4, <1>6, <1>8, <1>9, <2>1, <2>2 DEF Lined
<1>11. Knows(c)'
  <2>1. a <= st
    BY <1>5, <1>6, <1>7, <1>9
  <2>2. \A h \in client[c].got : h <= st /\ tenantOK(c, ledger[h])
    BY <1>1, <1>2, <1>5, <1>6 DEF Knows
  <2>3. client[c].epoch = epoch /\ client[c].cursor > 0 => Earlier + client[c].cursor <= st
    BY <1>1, <1>2, <1>5, <1>6 DEF Knows
  <2> QED
    BY <1>1, <1>2, <1>4, <1>6, <1>8, <1>9, <2>1, <2>2, <2>3 DEF Knows, tenantOK
<1>12. ASSUME NEW g, Pending(c, g)' PROVE Pending(c, g) /\ g \in (a + 1)..L
  <2>1. /\ g \in (a + 1)..L /\ Wants(c, ledger[g]) /\ g \notin client[c].got
        /\ \A r \in Reason : <<g, r>> \notin excused[c]
    BY <1>2, <1>3, <1>4, <1>8, <1>9, <1>12 DEF Pending, Wants, tenantOK, matches
  <2>2. g \in (b + 1)..L
    BY <1>5, <1>6, <1>7, <1>9, <2>1
  <2> QED
    BY <1>2, <2>1, <2>2 DEF Pending
<1>13. ASSUME NEW g, ToCome(c, g) PROVE ToCome(c, g)'
  BY <1>2, <1>3, <1>4, <1>13 DEF ToCome
<1>14. ASSUME NEW g \in 1..L, Pending(c, g)' PROVE ToCome(c, g)'
  <2>1. Pending(c, g) /\ g \in (a + 1)..L
    BY <1>12, <1>14
  <2>2. CASE g <= st
    <3>1. g \in 1..st /\ ~conn[c].truncated
      BY <1>5, <1>9, <2>1, <2>2
    <3>2. \E i \in DOMAIN conn[c].replay : conn[c].replay[i].g = g
      BY <1>1, <1>2, <1>3, <2>1, <3>1 DEF Accounted
    <3> QED
      BY <1>3, <3>2
  <2>3. CASE g > st
    <3>1. g \in (st + 1)..L
      BY <1>5, <2>3
    <3> QED
      BY <1>1, <1>2, <1>3, <1>13, <2>1, <3>1 DEF Accounted
  <2> QED
    BY <1>5, <2>2, <2>3
<1>15. Accounted(c)'
  BY <1>2, <1>3, <1>4, <1>14 DEF Accounted
<1> QED
  BY <1>10, <1>11, <1>15 DEF Served

\* What the end of a connection makes of the client's excuses.
Cut(c) ==
  IF conn[c].pc = "replay" /\ conn[c].truncated
  THEN excused[c] \cup (((client[c].base + 1)..client[c].mark) \X {"cut"})
  ELSE excused[c]

LEMMA CutType ==
  ASSUME TypeOK, NEW c \in Client
  PROVE  /\ Cut(c) \in SUBSET (Index \X Reason) /\ excused[c] \subseteq Cut(c)
         /\ conn[c].pc = "replay" /\ conn[c].truncated =>
              \A g \in (client[c].base + 1)..client[c].mark : <<g, "cut">> \in Cut(c)
<1>1. excused[c] \in SUBSET (Index \X Reason)
  BY SameExcuses
<1>2. client[c] \in ClientState
  BY DEF TypeOK
<1>3. client[c].base \in 0..MaxEvents /\ client[c].mark \in 0..MaxEvents
  BY <1>2 DEF ClientState
<1>4. (client[c].base + 1)..client[c].mark \subseteq Index
  BY <1>3, Sizes DEF Index
<1> QED
  BY <1>1, <1>4 DEF Cut, Reason

LEMMA DisconnectStep ==
  ASSUME Broad, NEW c \in Client, Disconnect(c)
  PROVE  /\ Broad' /\ OnlyFor(c) /\ ~Owed(c)' /\ conn[c].pc # "off"
         /\ conn'[c] = Off /\ client'[c] = client[c] /\ excused'[c] = Cut(c)
<1>1. /\ TypeOK /\ client \in [Client -> ClientState]
      /\ excused \in [Client -> SUBSET (Index \X Reason)]
  BY DEF Broad, TypeOK
<1>2. PICK u \in ClientState, x \in SUBSET (Index \X Reason) : u = client[c] /\ x = Cut(c)
  BY <1>1, CutType
<1>3. /\ conn[c].pc # "off" /\ conn' = [conn EXCEPT ![c] = Off] /\ fan' = Without(c)
      /\ UNCHANGED <<published, bus, epoch, broker, ledger>> /\ client' = client
  BY DEF Disconnect
<1>4. client' = [client EXCEPT ![c] = u]
  BY <1>1, <1>2, <1>3
<1>5. excused' = [excused EXCEPT ![c] = x]
  <2>1. CASE conn[c].pc = "replay" /\ conn[c].truncated
    BY <1>1, <1>2, <2>1 DEF Disconnect, Cut
  <2>2. CASE ~(conn[c].pc = "replay" /\ conn[c].truncated)
    BY <1>1, <1>2, <2>2 DEF Disconnect, Cut
  <2> QED
    BY <2>1, <2>2
<1>6. Len(Off.queue) <= QueueCap
  BY Sizes DEF Off
<1>7. fan' \in {fan, Without(c)}
  BY <1>3
<1>8. /\ Broad' /\ OnlyFor(c)
      /\ conn'[c] = Off /\ client'[c] = u /\ excused'[c] = x
      /\ fan' = Without(c) => ~Owed(c)'
  BY <1>3, <1>4, <1>5, <1>6, <1>7, OffType, HandlerType
<1> QED
  BY <1>2, <1>3, <1>8

\* What a connection leaves behind is as Accounted has it for one that is off.
LEMMA CutServed ==
  ASSUME TypeOK, NEW c \in Client, Served(c)
  PROVE  \A g \in 1..client[c].mark : Pending(c, g) => \E r \in Reason : <<g, r>> \in Cut(c)
<1>1. Lined(c) /\ Knows(c) /\ Accounted(c)
  BY DEF Served
<1>2. PICK L, m, b, st : /\ L = Len(ledger) /\ m = client[c].mark
                         /\ b = client[c].base /\ st = conn[c].start
  OBVIOUS
<1>3. /\ L \in Nat /\ m \in Nat /\ st \in Nat /\ b \in Nat /\ b <= m /\ m <= L
      /\ conn[c].pc \in {"off", "replay", "live"}
  BY <1>1, <1>2, ConnParts DEF Knows
<1> SUFFICES ASSUME NEW g \in 1..m, Pending(c, g) PROVE \E r \in Reason : <<g, r>> \in Cut(c)
  BY <1>2
<1>4. CASE conn[c].pc = "off"
  BY <1>1, <1>2, <1>4 DEF Accounted
<1>5. CASE conn[c].pc = "live"
  <2>1. g \in 1..L
    BY <1>3
  <2>2. ToCome(c, g)
    BY <1>1, <1>2, <1>5, <2>1 DEF Accounted
  <2>3. CASE \E i \in DOMAIN conn[c].queue : conn[c].queue[i].g = g
    <3>1. PICK i \in DOMAIN conn[c].queue : conn[c].queue[i].g = g
      BY <2>3
    <3>2. conn[c].queue[i].g > m
      BY <1>1, <1>2, <1>5 DEF Lined
    <3> QED
      BY <1>3, <3>1, <3>2
  <2>4. CASE Owed(c) /\ g = Len(ledger)
    <3>1. m < L
      BY <1>1, <1>2, <2>4 DEF Lined
    <3> QED
      BY <1>2, <1>3, <2>4, <3>1
  <2> QED
    BY <2>2, <2>3, <2>4 DEF ToCome
<1>6. CASE conn[c].pc = "replay"
  <2>1. m <= st /\ g \in 1..st
    <3>1. m <= st
      BY <1>1, <1>2, <1>6 DEF Lined
    <3> QED
      BY <1>3, <3>1
  <2>2. conn[c].truncated
    <3>1. conn[c].truncated \/ g > m
      BY <1>1, <1>2, <1>6, <2>1 DEF Accounted
    <3> QED
      BY <1>3, <3>1
  <2>3. g \in (b + 1)..m
    <3>1. g \in (b + 1)..L
      BY <1>2 DEF Pending
    <3> QED
      BY <1>3, <3>1
  <2>4. <<g, "cut">> \in Cut(c)
    BY <1>2, <1>6, <2>2, <2>3, CutType
  <2> QED
    BY <2>4 DEF Reason
<1> QED
  BY <1>3, <1>4, <1>5, <1>6

LEMMA DisconnectServed ==
  ASSUME Broad, NEW c \in Client, Disconnect(c), Served(c)
  PROVE  Served(c)'
<1>1. TypeOK /\ Lined(c) /\ Knows(c) /\ Accounted(c)
  BY DEF Broad, Served
<1>2. /\ OnlyFor(c) /\ ~Owed(c)'
      /\ conn'[c] = Off /\ client'[c] = client[c] /\ excused'[c] = Cut(c)
  BY DisconnectStep
<1>3. UNCHANGED <<ledger, nextID, epoch>> /\ Earlier' = Earlier
  BY <1>2 DEF OnlyFor, broker, Earlier
<1>4. conn'[c].pc = "off" /\ conn'[c].replay = <<>> /\ conn'[c].queue = <<>>
  BY <1>2 DEF Off
<1>5. Lined(c)'
  <2>1. Frames(c, conn[c].queue)' /\ Frames(c, conn[c].replay)'
    BY <1>4 DEF Frames
  <2>2. Rising(conn[c].queue)' /\ Rising(conn[c].replay)'
    BY <1>4 DEF Rising
  <2> QED
    BY <1>2, <1>4, <2>1, <2>2 DEF Lined
<1>6. Knows(c)'
  BY <1>1, <1>2, <1>3 DEF Knows, tenantOK
<1>7. ASSUME NEW g \in 1..client[c].mark, Pending(c, g)' PROVE FALSE
  <2>1. excused[c] \subseteq Cut(c)
    BY <1>1, CutType
  <2>2. Pending(c, g) /\ \A r \in Reason : <<g, r>> \notin Cut(c)
    BY <1>2, <1>3, <1>7, <2>1 DEF Pending, Wants, tenantOK, matches
  <2> QED
    BY <1>1, <2>2, CutServed
<1>8. Accounted(c)'
  BY <1>2, <1>4, <1>7 DEF Accounted
<1> QED
  BY <1>5, <1>6, <1>8 DEF Served

LEMMA RestartServed ==
  ASSUME Broad, Restart, NEW c \in Client, Served(c)
  PROVE  Served(c)'
<1>1. TypeOK /\ Lined(c) /\ Knows(c) /\ Accounted(c)
  BY DEF Broad, Served
<1>2. /\ epoch' = epoch + 1 /\ nextID' = 0 /\ fan' = None /\ UNCHANGED <<client, ledger>>
      /\ conn' = [d \in Client |-> Off]
  BY DEF Restart
<1>3. /\ conn'[c] = Off /\ excused'[c] = Cut(c) /\ ~Owed(c)'
  BY <1>2 DEF Restart, Cut, Owed
<1>4. conn'[c].pc = "off" /\ conn'[c].replay = <<>> /\ conn'[c].queue = <<>>
  BY <1>3 DEF Off
<1>5. Lined(c)'
  <2>1. Frames(c, conn[c].queue)' /\ Frames(c, conn[c].replay)'
    BY <1>4 DEF Frames
  <2>2. Rising(conn[c].queue)' /\ Rising(conn[c].replay)'
    BY <1>4 DEF Rising
  <2> QED
    BY <1>3, <1>4, <2>1, <2>2 DEF Lined
<1>6. Knows(c)'
  <2>1. /\ Len(ledger) \in Nat /\ epoch \in Nat /\ client[c].epoch \in Nat
        /\ client[c].mark \in Nat /\ client[c].got \subseteq Index
    BY <1>1, ConnParts
  <2>2. \A h \in client[c].got : h \in Nat
    BY <2>1, Sizes DEF Index
  <2>3. Earlier' = Len(ledger)
    BY <1>2, <2>1 DEF Earlier
  <2>4. client[c].epoch <= epoch + 1 /\ client[c].epoch # epoch + 1
    BY <1>1, <2>1 DEF Knows
  <2>5. \A h \in client[c].got : h <= Len(ledger)
    BY <1>1, <2>1, <2>2 DEF Knows
  <2> QED
    BY <1>1, <1>2, <2>3, <2>4, <2>5 DEF Knows, tenantOK
<1>7. ASSUME NEW g \in 1..client[c].mark, Pending(c, g)' PROVE FALSE
  <2>1. excused[c] \subseteq Cut(c)
    BY <1>1, CutType
  <2>2. Pending(c, g) /\ \A r \in Reason : <<g, r>> \notin Cut(c)
    BY <1>2, <1>3, <1>7, <2>1 DEF Pending, Wants, tenantOK, matches
  <2> QED
    BY <1>1, <2>2, CutServed
<1>8. Accounted(c)'
  BY <1>2, <1>4, <1>7 DEF Accounted
<1> QED
  BY <1>5, <1>6, <1>8 DEF Served

LEMMA InitServed ==
  ASSUME RealtimeInit, NEW c \in Client
  PROVE  Served(c)
<1>1. /\ Len(ledger) = 0 /\ nextID = 0 /\ epoch = 0 /\ conn[c] = Off /\ ~Owed(c)
      /\ client[c] = [cursor |-> 0, epoch |-> 0, base |-> 0, mark |-> 0, got |-> {}]
  BY DEF RealtimeInit, Owed
<1>2. conn[c].pc = "off" /\ conn[c].replay = <<>> /\ conn[c].queue = <<>>
  BY <1>1 DEF Off
<1>3. /\ client[c].cursor = 0 /\ client[c].epoch = 0 /\ client[c].base = 0
      /\ client[c].mark = 0 /\ client[c].got = {}
  BY <1>1
<1>4. Frames(c, conn[c].queue) /\ Frames(c, conn[c].replay)
  BY <1>2 DEF Frames
<1>5. Rising(conn[c].queue) /\ Rising(conn[c].replay)
  BY <1>2 DEF Rising
<1>6. Lined(c)
  BY <1>1, <1>2, <1>4, <1>5 DEF Lined
<1>7. Knows(c)
  BY <1>1, <1>3 DEF Knows
<1>8. Accounted(c)
  BY <1>2, <1>3 DEF Accounted
<1> QED
  BY <1>6, <1>7, <1>8 DEF Served

\* The marker: the ring has lost an event that the client has not seen.
LEMMA TruncatedIs ==
  ASSUME TypeOK, RingHolds, NEW since \in Nat
  PROVE  Truncated(since) <=> ringLen > 0 /\ since < nextID - ringLen
<1> USE Sizes
<1>1. ringLen \in 0..RingCap /\ nextID \in Nat /\ ringPos \in 0..(RingCap - 1)
  <2>1. Len(ledger) \in Nat
    BY DEF TypeOK
  <2> QED
    BY <2>1 DEF TypeOK
<1>2. CASE ringLen > 0
  <2>1. PICK o : o = Oldest
    OBVIOUS
  <2>2. o \in 0..(RingCap - 1)
    <3>1. ringPos - ringLen + RingCap \in Nat
      BY <1>1
    <3> QED
      BY <2>1, <3>1 DEF Oldest
  <2>3. (o + 1 - 1) % RingCap = o
    <3>1. o + 1 - 1 = o
      BY <2>2
    <3> QED
      BY <2>2, <3>1, Remainders
  <2>4. 1 \in 1..ringLen
    BY <1>1, <1>2
  <2>5. Buffered[1] = ring[o]
    BY <2>1, <2>3, <2>4 DEF Buffered
  <2>6. Buffered[1].id = nextID - ringLen + 1
    <3>1. Buffered[1] = [id |-> nextID - ringLen + 1, g |-> Len(ledger) - ringLen + 1]
      BY <2>4 DEF RingHolds
    <3> QED
      BY <3>1
  <2> QED
    BY <1>1, <1>2, <2>1, <2>5, <2>6 DEF Truncated
<1>3. CASE ringLen = 0
  BY <1>3 DEF Truncated
<1> QED
  BY <1>1, <1>2, <1>3

LEMMA ResumeExcusesType ==
  ASSUME TypeOK, Room, NEW c \in Client
  PROVE  ResumeExcuses(c) \in SUBSET (Index \X Reason)
<1>1. Len(ledger) \in Nat /\ Len(ledger) <= MaxEvents /\ client[c].base \in Nat
  <2>1. Len(bus) \in Nat /\ published \in 0..MaxEvents
    BY DEF TypeOK
  <2>2. Len(ledger) \in Nat /\ client[c].base \in Nat
    BY ConnParts
  <2> QED
    BY <2>1, <2>2, Sizes DEF Room
<1>2. (client[c].base + 1)..Len(ledger) \subseteq Index
  BY <1>1, Sizes DEF Index
<1>3. Unseen(c) \subseteq Index
  BY <1>2 DEF Unseen
<1> QED
  BY <1>3 DEF ResumeExcuses, Reason

LEMMA SubscribeStep ==
  ASSUME Broad, NEW c \in Client, SubscribeWithResume(c),
         NEW s, s = IF client[c].cursor > 0 THEN replaySince(c, client[c].cursor) ELSE <<>>
  PROVE  /\ Broad' /\ OnlyFor(c) /\ (Owed(c)' <=> Owed(c)) /\ conn[c].pc = "off"
         /\ conn'[c] = [pc |-> "replay", queue |-> <<>>, start |-> Len(ledger), replay |-> s,
                        truncated |-> client[c].cursor > 0 /\ Truncated(client[c].cursor)]
         /\ client'[c] = IF client[c].cursor > 0 THEN client[c]
                         ELSE [client[c] EXCEPT !.base = Len(ledger), !.mark = Len(ledger),
                                                !.epoch = epoch]
         /\ excused'[c] = IF client[c].cursor > 0 THEN excused[c] \cup ResumeExcuses(c)
                          ELSE excused[c]
<1> USE Sizes
<1>1. /\ TypeOK /\ Room /\ RingHolds /\ client \in [Client -> ClientState]
      /\ client[c] \in ClientState /\ excused \in [Client -> SUBSET (Index \X Reason)]
      /\ client[c].cursor \in Nat
  BY ConnParts DEF Broad, TypeOK
<1>2. Len(ledger) \in 0..MaxEvents /\ epoch \in Nat
  <2>1. Len(bus) \in Nat /\ published \in 0..MaxEvents
    BY <1>1 DEF TypeOK
  <2>2. Len(ledger) \in Nat /\ epoch \in Nat
    BY <1>1, ConnParts
  <2> QED
    BY <1>1, <2>1, <2>2 DEF Room
<1>3. PICK tr : tr = (client[c].cursor > 0 /\ Truncated(client[c].cursor))
  OBVIOUS
<1>4. tr \in BOOLEAN
  BY <1>3 DEF Truncated
<1>5. s \in Seq(Entry)
  BY <1>1, ReplayFacts
<1>6. PICK L \in 0..MaxEvents : L = Len(ledger)
  BY <1>2
<1>7. PICK k, u, x :
        /\ k = [pc |-> "replay", queue |-> <<>>, start |-> L, replay |-> s, truncated |-> tr]
        /\ u = IF client[c].cursor > 0 THEN client[c]
               ELSE [client[c] EXCEPT !.base = L, !.mark = L, !.epoch = epoch]
        /\ x = IF client[c].cursor > 0 THEN excused[c] \cup ResumeExcuses(c) ELSE excused[c]
  OBVIOUS
<1>8. k \in Conn /\ Len(k.queue) <= QueueCap
  <2>1. <<>> \in Seq(Entry)
    OBVIOUS
  <2> QED
    BY <1>4, <1>5, <1>7, <2>1 DEF Conn
<1>9. u \in ClientState
  BY <1>1, <1>2, <1>7 DEF ClientState
<1>10. x \in SUBSET (Index \X Reason)
  <2>1. ResumeExcuses(c) \in SUBSET (Index \X Reason)
    BY <1>1, ResumeExcusesType
  <2>2. excused[c] \in SUBSET (Index \X Reason)
    BY <1>1
  <2> QED
    BY <1>7, <2>1, <2>2
<1>11. /\ conn[c].pc = "off" /\ fan' = fan /\ UNCHANGED <<published, bus, epoch, broker, ledger>>
  BY DEF SubscribeWithResume
<1>12. conn' = [conn EXCEPT ![c] = k]
  <2>1. conn' = [conn EXCEPT ![c] =
                    [pc |-> "replay", queue |-> <<>>, start |-> Len(ledger),
                     replay |-> IF client[c].cursor > 0 THEN replaySince(c, client[c].cursor)
                                ELSE <<>>,
                     truncated |-> client[c].cursor > 0 /\ Truncated(client[c].cursor)]]
    BY Zenon DEF SubscribeWithResume
  <2> QED
    BY <1>3, <1>6, <1>7, <2>1, Zenon
<1>13. client' = [client EXCEPT ![c] = u]
  <2>1. client' = IF client[c].cursor > 0 THEN client
                  ELSE [client EXCEPT ![c].base = Len(ledger), ![c].mark = Len(ledger),
                                      ![c].epoch = epoch]
    BY Zenon DEF SubscribeWithResume
  <2>2. CASE client[c].cursor > 0
    BY <1>1, <1>7, <2>1, <2>2
  <2>3. CASE ~(client[c].cursor > 0)
    BY <1>1, <1>6, <1>7, <2>1, <2>3 DEF ClientState
  <2> QED
    BY <2>2, <2>3
<1>14. excused' = [excused EXCEPT ![c] = x]
  <2>1. excused' = IF client[c].cursor > 0
                   THEN [excused EXCEPT ![c] = excused[c] \cup ResumeExcuses(c)]
                   ELSE excused
    BY Zenon DEF SubscribeWithResume
  <2> QED
    BY <1>1, <1>7, <2>1
<1>15. fan' \in {fan, Without(c)}
  BY <1>11
<1>16. /\ Broad' /\ OnlyFor(c)
       /\ conn'[c] = k /\ client'[c] = u /\ excused'[c] = x
  BY <1>8, <1>9, <1>10, <1>11, <1>12, <1>13, <1>14, <1>15, HandlerType
<1>17. Owed(c)' <=> Owed(c)
  BY <1>11 DEF Owed
<1> QED
  BY <1>3, <1>6, <1>7, <1>11, <1>16, <1>17, Zenon

LEMMA SubscribeServed ==
  ASSUME Broad, NEW c \in Client, SubscribeWithResume(c), Served(c)
  PROVE  Served(c)'
<1> USE Sizes
<1>1. TypeOK /\ Room /\ RingHolds /\ Lined(c) /\ Knows(c) /\ Accounted(c)
  BY DEF Broad, Served
<1>2. PICK L, m, b, cu, s :
        /\ L = Len(ledger) /\ m = client[c].mark /\ b = client[c].base
        /\ cu = client[c].cursor /\ s = IF cu > 0 THEN replaySince(c, cu) ELSE <<>>
  OBVIOUS
<1>3. /\ OnlyFor(c) /\ (Owed(c)' <=> Owed(c)) /\ conn[c].pc = "off"
      /\ conn'[c] = [pc |-> "replay", queue |-> <<>>, start |-> L, replay |-> s,
                     truncated |-> cu > 0 /\ Truncated(cu)]
      /\ client'[c] = IF cu > 0 THEN client[c]
                      ELSE [client[c] EXCEPT !.base = L, !.mark = L, !.epoch = epoch]
      /\ excused'[c] = IF cu > 0 THEN excused[c] \cup ResumeExcuses(c) ELSE excused[c]
  BY <1>2, SubscribeStep
<1>4. UNCHANGED <<ledger, nextID, epoch>> /\ Earlier' = Earlier
  BY <1>3 DEF OnlyFor, broker, Earlier
<1>5. /\ L \in Nat /\ m \in Nat /\ b \in Nat /\ cu \in Nat /\ Earlier \in Nat /\ epoch \in Nat
      /\ nextID \in Nat /\ Earlier = L - nextID /\ client[c] \in ClientState
      /\ \A h \in client[c].got : h \in Nat
  <2>1. client[c].got \subseteq Index /\ client[c] \in ClientState
    BY <1>1, ConnParts DEF TypeOK
  <2>2. \A h \in client[c].got : h \in Nat
    BY <2>1 DEF Index
  <2>3. Earlier = L - nextID
    BY <1>2 DEF Earlier
  <2> QED
    BY <1>1, <1>2, <2>1, <2>2, <2>3, ConnParts
<1>6. /\ conn'[c].pc = "replay" /\ conn'[c].queue = <<>> /\ conn'[c].start = L
      /\ conn'[c].replay = s /\ conn'[c].truncated = (cu > 0 /\ Truncated(cu))
  BY <1>3
<1>7. ~Owed(c) /\ ~Owed(c)' /\ b <= m /\ m <= L
  BY <1>1, <1>2, <1>3 DEF Lined, Knows
<1>8. Frames(c, s) /\ Rising(s) /\ \A i \in DOMAIN s : s[i].g \in Int /\ s[i].g <= L
  <2>1. Frames(c, s) /\ Rising(s)
    <3>1. CASE cu > 0
      BY <1>1, <1>2, <1>5, <3>1, ReplayFacts
    <3>2. CASE ~(cu > 0)
      BY <1>2, <3>2 DEF Frames, Rising
    <3> QED
      BY <3>1, <3>2
  <2> QED
    BY <1>2, <1>5, <2>1 DEF Frames
<1>9. Frames(c, conn[c].queue)' /\ Frames(c, conn[c].replay)'
  BY <1>4, <1>6, <1>8 DEF Frames, tenantOK
<1>10. Rising(conn[c].queue)' /\ Rising(conn[c].replay)'
  BY <1>6, <1>8 DEF Rising
<1>11. CASE ~(cu > 0)
  <2>1. /\ client'[c].base = L /\ client'[c].mark = L /\ client'[c].epoch = epoch
        /\ client'[c].cursor = cu /\ client'[c].got = client[c].got /\ cu = 0
        /\ client[c].got = {} /\ s = <<>>
    <3>1. client'[c] = [client[c] EXCEPT !.base = L, !.mark = L, !.epoch = epoch] /\ s = <<>>
      BY <1>2, <1>3, <1>11
    <3>2. cu = 0
      BY <1>5, <1>11
    <3>3. client[c].got = {}
      BY <1>1, <1>2, <3>2 DEF Knows
    <3> QED
      BY <1>2, <1>5, <3>1, <3>2, <3>3 DEF ClientState
  <2>2. Lined(c)'
    BY <1>2, <1>4, <1>5, <1>6, <1>7, <1>9, <1>10, <2>1 DEF Lined
  <2>3. Knows(c)'
    BY <1>2, <1>4, <1>5, <2>1 DEF Knows
  <2>4. ASSUME NEW g, Pending(c, g)' PROVE FALSE
    <3>1. g \in (L + 1)..L
      BY <1>2, <1>4, <2>1, <2>4 DEF Pending
    <3> QED
      BY <1>5, <3>1
  <2>5. Accounted(c)'
    BY <1>6, <2>4 DEF Accounted
  <2> QED
    BY <2>2, <2>3, <2>5 DEF Served
<1>12. CASE cu > 0
  <2>1. /\ client'[c] = client[c] /\ excused'[c] = excused[c] \cup ResumeExcuses(c)
        /\ s = replaySince(c, cu)
    BY <1>2, <1>3, <1>12
  <2>2. /\ \A i \in DOMAIN s : s[i].g > Earlier + cu
        /\ \A g \in (L - ringLen + 1)..L :
              g > Earlier + cu /\ matches(c, ledger[g]) /\ tenantOK(c, ledger[g]) =>
              \E i \in DOMAIN s : s[i].g = g
    <3>1. \A i \in DOMAIN s : s[i].g > Earlier + cu
      BY <1>1, <1>5, <2>1, ReplayFacts
    <3>2. Replays(c, cu, s)
      BY <1>1, <1>5, <2>1, ReplayFacts
    <3> QED
      BY <1>2, <3>1, <3>2, Zenon DEF Replays
  <2>3. \A h \in client[c].got : h <= Earlier + cu
    BY <1>1, <1>2, <1>5, <1>12 DEF Knows
  <2>4. \A i \in DOMAIN s : \A h \in client[c].got : h < s[i].g
    BY <1>5, <1>8, <2>2, <2>3
  <2>5. Lined(c)'
    BY <1>2, <1>4, <1>5, <1>6, <1>7, <1>8, <1>9, <1>10, <2>1, <2>4 DEF Lined
  <2>6. Knows(c)'
    BY <1>1, <1>4, <2>1 DEF Knows, tenantOK
  <2>7. ASSUME NEW g \in 1..L, Pending(c, g)', ~Truncated(cu)
        PROVE  g > m /\ \E i \in DOMAIN s : s[i].g = g
    <3>1. Pending(c, g) /\ \A r \in Reason : <<g, r>> \notin ResumeExcuses(c)
      BY <1>2, <1>4, <2>1, <2>7 DEF Pending, Wants, tenantOK, matches
    <3>2. g \in Unseen(c) /\ Wants(c, ledger[g])
      BY <3>1 DEF Pending, Unseen
    <3>3. client[c].epoch = epoch /\ matches(c, ledger[g])
      BY <3>1, <3>2 DEF ResumeExcuses, Reason
    <3>4. g > m
      <4>1. ~(g \in 1..m)
        BY <1>1, <1>2, <1>3, <3>1 DEF Accounted
      <4> QED
        BY <1>5, <4>1
    <3>5. Earlier + cu <= m
      BY <1>1, <1>2, <1>12, <3>3 DEF Knows
    <3>6. /\ ringLen \in Nat /\ ringLen <= nextID /\ (ringLen = 0 => nextID = 0)
      BY <1>1 DEF TypeOK, RingHolds
    <3>7. g > L - ringLen
      <4>1. ~(ringLen > 0 /\ cu < nextID - ringLen)
        BY <1>1, <1>5, <2>7, TruncatedIs
      <4> QED
        BY <1>5, <3>4, <3>5, <3>6, <4>1
    <3>8. g \in (L - ringLen + 1)..L /\ g > Earlier + cu
      BY <1>5, <3>4, <3>5, <3>6, <3>7
    <3> QED
      BY <2>2, <3>2, <3>3, <3>4, <3>8 DEF Wants
  <2>8. Accounted(c)'
    <3>1. (L + 1)..L = {}
      BY <1>5
    <3>2. \A g \in 1..L : Pending(c, g)' =>
            \/ Truncated(cu)
            \/ g > m /\ \E i \in DOMAIN s : s[i].g = g
      BY <2>7
    <3> QED
      BY <1>2, <1>4, <1>6, <1>12, <2>1, <3>1, <3>2 DEF Accounted
  <2> QED
    BY <2>5, <2>6, <2>8 DEF Served
<1> QED
  BY <1>11, <1>12

-----------------------------------------------------------------------------
(* The theorems *)

LEMMA RealtimeInvInit == RealtimeInit => RealtimeInv
BY BroadInit, InitServed DEF RealtimeInv

LEMMA RealtimeInvStutter ==
  ASSUME RealtimeInv, UNCHANGED realtimeVars
  PROVE  RealtimeInv'
<1>1. UNCHANGED <<published, bus, epoch, broker, ledger, fan, conn, client, excused>>
  BY DEF realtimeVars
<1>2. TypeOK'
  BY <1>1 DEF RealtimeInv, Broad, TypeOK, broker
<1>3. Broad'
  BY <1>1, <1>2, BroadCalm DEF RealtimeInv
<1>4. ASSUME NEW c \in Client PROVE Served(c)'
  <2>1. /\ UNCHANGED <<ledger, nextID, epoch>> /\ (Owed(c)' <=> Owed(c))
        /\ conn'[c] = conn[c] /\ client'[c] = client[c] /\ excused'[c] = excused[c]
    BY <1>1 DEF broker, Owed
  <2> QED
    BY <2>1, ServedCalm DEF RealtimeInv
<1> QED
  BY <1>3, <1>4 DEF RealtimeInv

LEMMA RealtimeInvStep == RealtimeInv /\ [RealtimeNext]_realtimeVars => RealtimeInv'
<1> SUFFICES ASSUME RealtimeInv, [RealtimeNext]_realtimeVars PROVE RealtimeInv'
  OBVIOUS
<1>1. Broad /\ \A c \in Client : Served(c)
  BY DEF RealtimeInv
<1>2. ASSUME NEW e \in RecordEvent, Publish(e) PROVE RealtimeInv'
  <2>1. Broad'
    BY <1>1, <1>2, PublishBroad
  <2>2. UNCHANGED <<epoch, broker, fan, conn, client, ledger, excused>>
    BY <1>2 DEF Publish
  <2>3. ASSUME NEW c \in Client PROVE Served(c)'
    <3>1. /\ UNCHANGED <<ledger, nextID, epoch>> /\ (Owed(c)' <=> Owed(c))
          /\ conn'[c] = conn[c] /\ client'[c] = client[c] /\ excused'[c] = excused[c]
      BY <2>2 DEF broker, Owed
    <3> QED
      BY <1>1, <3>1, ServedCalm
  <2> QED
    BY <2>1, <2>3 DEF RealtimeInv
<1>3. CASE FanOut
  BY <1>1, <1>3, FanOutBroad, FanOutServed DEF RealtimeInv
<1>4. CASE DropOldest
  BY <1>1, <1>4, DropOldestBroad, DropOldestServed DEF RealtimeInv
<1>5. ASSUME NEW c \in Client, Enqueue(c) PROVE RealtimeInv'
  BY <1>1, <1>5, EnqueueBroad, EnqueueServed DEF RealtimeInv
<1>6. ASSUME NEW c \in Client, Broad', OnlyFor(c), Served(c)' PROVE RealtimeInv'
  <2>1. ASSUME NEW d \in Client PROVE Served(d)'
    <3>1. CASE d = c
      BY <1>6, <3>1
    <3>2. CASE d # c
      BY <1>1, <1>6, <3>2, OnlyForOthers
    <3> QED
      BY <3>1, <3>2
  <2> QED
    BY <1>6, <2>1 DEF RealtimeInv
<1>7. ASSUME NEW c \in Client, SubscribeWithResume(c) PROVE RealtimeInv'
  <2>1. PICK s : s = IF client[c].cursor > 0 THEN replaySince(c, client[c].cursor) ELSE <<>>
    OBVIOUS
  <2>2. Broad' /\ OnlyFor(c)
    BY <1>1, <1>7, <2>1, SubscribeStep
  <2>3. Served(c)'
    BY <1>1, <1>7, SubscribeServed
  <2> QED
    BY <1>6, <2>2, <2>3
<1>8. ASSUME NEW c \in Client, SseHandler(c) PROVE RealtimeInv'
  <2>1. CASE WriteReplay(c)
    BY <1>1, <1>6, <2>1, WriteReplayStep, WriteReplayServed
  <2>2. CASE ReplayDone(c)
    BY <1>1, <1>6, <2>2, ReplayDoneStep, ReplayDoneServed
  <2>3. CASE WriteEvent(c)
    BY <1>1, <1>6, <2>3, WriteEventStep, WriteEventServed
  <2> QED
    BY <1>8, <2>1, <2>2, <2>3 DEF SseHandler
<1>9. ASSUME NEW c \in Client, Disconnect(c) PROVE RealtimeInv'
  BY <1>1, <1>6, <1>9, DisconnectStep, DisconnectServed
<1>10. CASE Restart
  BY <1>1, <1>10, RestartBroad, RestartServed DEF RealtimeInv
<1>11. CASE UNCHANGED realtimeVars
  BY <1>11, RealtimeInvStutter
<1> QED
  BY <1>2, <1>3, <1>4, <1>5, <1>7, <1>8, <1>9, <1>10, <1>11 DEF RealtimeNext, Broker

LEMMA RealtimeInvariant == RealtimeSpec => []RealtimeInv
BY RealtimeInvInit, RealtimeInvStep, PTL DEF RealtimeSpec

\* Every variable of the bus, the broker, the connections and the clients keeps
\* its type and its bound: in particular no queue outgrows its buffer, and the
\* ids of the broker never get ahead of the events it has fanned out.
THEOREM RealtimeTypeCorrect == RealtimeSpec => []TypeOK
<1>1. RealtimeInv => TypeOK
  BY DEF RealtimeInv, Broad
<1> QED
  BY <1>1, RealtimeInvariant, PTL

\* For any number of clients, any sizes of the bus queue, the ring and the
\* subscription queues, and any number of restarts: what a client lacks of the
\* events up to the last one it received, and was not told of by
\* replay-truncated, it lost in one of the four ways that SubscribeWithResume,
\* enqueueOrDrop and a restart leave open.
THEOREM GapsAreAccounted == RealtimeSpec => []GapsAccounted
<1>1. RealtimeInv => GapsAccounted
  <2> SUFFICES ASSUME RealtimeInv, NEW c \in Client, conn[c].pc # "replay",
                      NEW g \in Lacks(c, Reason)
               PROVE  FALSE
    BY DEF GapsAccounted
  <2>1. TypeOK /\ Served(c) /\ Knows(c)
    BY DEF RealtimeInv, Broad, Served
  <2>2. /\ client[c].base \in Nat /\ client[c].mark \in Nat /\ Len(ledger) \in Nat
        /\ client[c].mark <= Len(ledger)
    BY <2>1, ConnParts DEF Knows
  <2>3. g \in 1..client[c].mark /\ g \in (client[c].base + 1)..Len(ledger)
    BY <2>2 DEF Lacks
  <2>4. Pending(c, g)
    BY <2>3 DEF Lacks, Pending
  <2>5. \A r \in Reason : <<g, r>> \notin Cut(c)
    BY DEF Lacks, Cut
  <2> QED
    BY <2>1, <2>3, <2>4, <2>5, CutServed
<1> QED
  BY <1>1, RealtimeInvariant, PTL

\* Neither the replay from the ring, which all tenants share, nor the live
\* delivery ever hands a client an event of another tenant.
THEOREM TenantsStayApart == RealtimeSpec => []TenantIsolation
<1>1. RealtimeInv => TenantIsolation
  <2> SUFFICES ASSUME RealtimeInv, NEW c \in Client, NEW g \in client[c].got,
                      Interest[c].tenant # None
               PROVE  ledger[g].tenant \in {None, Interest[c].tenant}
    BY DEF TenantIsolation
  <2>1. tenantOK(c, ledger[g])
    BY DEF RealtimeInv, Served, Knows
  <2> QED
    BY <2>1 DEF tenantOK
<1> QED
  BY <1>1, RealtimeInvariant, PTL

LEMMA SameNotWritten ==
  ASSUME TypeOK, NEW c \in Client,
         conn'[c].replay = conn[c].replay, conn'[c].queue = conn[c].queue
  PROVE  ~FrameWritten(c)
<1>1. conn[c].replay \in Seq(Entry) /\ conn[c].queue \in Seq(Entry)
  BY ConnParts
<1>2. Len(conn[c].replay) \in Nat /\ Len(conn[c].queue) \in Nat
  BY <1>1
<1> QED
  BY <1>2 DEF FrameWritten

\* A queue that is fed does not get shorter, one dropped event or not.
LEMMA FedNotWritten ==
  ASSUME TypeOK, NEW c \in Client, NEW s, NEW x \in Entry,
         s = conn[c].queue \/ (conn[c].queue # <<>> /\ s = Tail(conn[c].queue)),
         QueueFed(c, Append(s, x))
  PROVE  \A d \in Client : ~FrameWritten(d)
<1>1. PICK q \in Seq(Entry), r \in Seq(Entry) : q = conn[c].queue /\ r = conn[c].replay
  BY ConnParts
<1>2. /\ conn'[c] = [conn[c] EXCEPT !.queue = Append(s, x)]
      /\ \A b \in Client \ {c} : conn'[b] = conn[b]
  BY QueueType
<1>3. /\ s \in Seq(Entry) /\ Len(s) \in Nat /\ Len(q) \in Nat /\ Len(r) \in Nat
      /\ Len(s) + 1 >= Len(q)
  <2>1. CASE s = q
    BY <2>1
  <2>2. CASE q # <<>> /\ s = Tail(q)
    <3>1. s \in Seq(Entry) /\ Len(s) = Len(q) - 1 /\ Len(q) \in Nat
      BY <2>2, SeqFacts
    <3> QED
      BY <3>1
  <2> QED
    BY <1>1, <2>1, <2>2
<1>4. Len(Append(s, x)) = Len(s) + 1
  BY <1>3
<1>5. conn'[c].queue = Append(s, x) /\ conn'[c].replay = r
  <2>1. conn[c] \in Conn
    BY DEF TypeOK
  <2> QED
    BY <1>1, <1>2, <2>1 DEF Conn
<1>6. ~FrameWritten(c)
  BY <1>1, <1>3, <1>4, <1>5 DEF FrameWritten
<1>7. ASSUME NEW d \in Client, d # c PROVE ~FrameWritten(d)
  <2>1. conn'[d] = conn[d]
    BY <1>2, <1>7
  <2> QED
    BY <2>1, SameNotWritten
<1> QED
  BY <1>6, <1>7

\* Only the two writes of a handler send a frame.
LEMMA OnlyHandlersWrite ==
  ASSUME RealtimeInv, [RealtimeNext]_realtimeVars, NEW c \in Client, FrameWritten(c)
  PROVE  WriteReplay(c) \/ WriteEvent(c)
<1>1. Broad /\ TypeOK /\ \A d \in Client : Served(d)
  BY DEF RealtimeInv, Broad
<1>2. ASSUME conn'[c] = conn[c] PROVE FALSE
  BY <1>1, <1>2, SameNotWritten
<1>3. ASSUME NEW d \in Client, OnlyFor(d), d # c PROVE FALSE
  <2>1. conn'[c] = conn[c]
    BY <1>3 DEF OnlyFor
  <2> QED
    BY <1>2, <2>1
<1>4. ASSUME NEW e \in RecordEvent, Publish(e) PROVE FALSE
  BY <1>2, <1>4 DEF Publish
<1>5. CASE FanOut
  BY <1>2, <1>5 DEF FanOut
<1>6. CASE DropOldest
  <2>1. PICK d \in Client, q \in Seq(Entry) :
          /\ q = conn[d].queue
          /\ QueueFed(d, Append(IF q = <<>> THEN q ELSE Tail(q), fan.entry))
          /\ fan.entry \in Entry
    BY <1>1, <1>6, DropOldestBroad
  <2>2. PICK s, x : s = (IF q = <<>> THEN q ELSE Tail(q)) /\ x = fan.entry
    OBVIOUS
  <2>3. /\ x \in Entry /\ QueueFed(d, Append(s, x))
        /\ s = conn[d].queue \/ (conn[d].queue # <<>> /\ s = Tail(conn[d].queue))
    BY <2>1, <2>2
  <2> QED
    BY <1>1, <2>3, FedNotWritten
<1>7. ASSUME NEW d \in Client, Enqueue(d) PROVE FALSE
  <2>1. conn' = conn \/ QueueFed(d, Append(conn[d].queue, fan.entry))
    BY <1>1, <1>7, EnqueueBroad
  <2>2. fan.entry \in Entry
    BY <1>1, <1>7, EnqueueBroad
  <2>3. PICK s, x : s = conn[d].queue /\ x = fan.entry
    OBVIOUS
  <2>4. CASE conn' = conn
    BY <1>2, <2>4
  <2>5. CASE QueueFed(d, Append(s, x))
    <3>1. x \in Entry /\ (s = conn[d].queue \/ (conn[d].queue # <<>> /\ s = Tail(conn[d].queue)))
      BY <2>2, <2>3
    <3> QED
      BY <1>1, <2>5, <3>1, FedNotWritten
  <2> QED
    BY <2>1, <2>3, <2>4, <2>5
<1>8. ASSUME NEW d \in Client, SubscribeWithResume(d) PROVE FALSE
  <2>1. PICK s : s = IF client[d].cursor > 0 THEN replaySince(d, client[d].cursor) ELSE <<>>
    OBVIOUS
  <2>2. OnlyFor(d) /\ conn[d].pc = "off"
    BY <1>1, <1>8, <2>1, SubscribeStep
  <2> QED
    BY <1>3, <2>2 DEF FrameWritten
<1>9. ASSUME NEW d \in Client, SseHandler(d) PROVE WriteReplay(c) \/ WriteEvent(c)
  <2>1. CASE WriteReplay(d)
    BY <1>1, <1>3, <2>1, WriteReplayStep
  <2>2. CASE ReplayDone(d)
    <3>1. /\ OnlyFor(d) /\ conn[d].replay = <<>>
          /\ conn'[d].queue = conn[d].queue /\ conn'[d].replay = <<>>
      BY <1>1, <2>2, ReplayDoneStep
    <3> QED
      BY <1>1, <1>3, <3>1, SameNotWritten
  <2>3. CASE WriteEvent(d)
    BY <1>1, <1>3, <2>3, WriteEventStep
  <2> QED
    BY <1>9, <2>1, <2>2, <2>3 DEF SseHandler
<1>10. ASSUME NEW d \in Client, Disconnect(d) PROVE FALSE
  <2>1. OnlyFor(d) /\ conn'[d] = Off
    BY <1>1, <1>10, DisconnectStep
  <2> QED
    BY <1>3, <2>1 DEF FrameWritten, Off
<1>11. CASE Restart
  BY <1>11 DEF Restart, FrameWritten, Off
<1>12. CASE UNCHANGED realtimeVars
  BY <1>2, <1>12 DEF realtimeVars
<1> QED
  BY <1>4, <1>5, <1>6, <1>7, <1>8, <1>9, <1>10, <1>11, <1>12 DEF RealtimeNext, Broker

\* A frame of the broker reaches its client after all those of earlier events,
\* from the replay and from the queue alike: no client is ever sent an event
\* twice or out of order, over reconnects, overflows and restarts.
THEOREM FramesComeInOrder == RealtimeSpec => InOrder
<1>1. ASSUME RealtimeInv, [RealtimeNext]_realtimeVars, NEW c \in Client, FrameWritten(c)
      PROVE  \E g \in client'[c].got : \A h \in client[c].got : h < g
  <2>1. Broad /\ TypeOK /\ Lined(c) /\ Knows(c)
    BY <1>1 DEF RealtimeInv, Broad, Served
  <2>2. /\ client[c] \in ClientState /\ client[c].mark \in Nat /\ client[c].got \subseteq Index
        /\ conn[c].replay \in Seq(Entry) /\ conn[c].queue \in Seq(Entry)
    BY <2>1, ConnParts DEF TypeOK
  <2>3. CASE WriteReplay(c)
    <3>1. PICK r, x : r = conn[c].replay /\ x = Head(r)
      OBVIOUS
    <3>2. conn[c].pc = "replay" /\ r # <<>> /\ client'[c] = Took(client[c], x)
      BY <2>1, <2>3, <3>1, WriteReplayStep
    <3>3. x = r[1] /\ 1 \in DOMAIN r /\ x \in Entry
      BY <2>2, <3>1, <3>2, SeqFacts
    <3>4. \A h \in client[c].got : h < x.g
      BY <2>1, <3>1, <3>2, <3>3 DEF Lined
    <3>5. x.g \in client'[c].got
      BY <2>1, <2>2, <3>2, <3>3, TookFields
    <3> QED
      BY <3>4, <3>5
  <2>4. CASE WriteEvent(c)
    <3>1. PICK q, x : q = conn[c].queue /\ x = Head(q)
      OBVIOUS
    <3>2. conn[c].pc = "live" /\ q # <<>> /\ client'[c] = Took(client[c], x)
      BY <2>1, <2>4, <3>1, WriteEventStep
    <3>3. x = q[1] /\ 1 \in DOMAIN q /\ x \in Entry
      BY <2>2, <3>1, <3>2, SeqFacts
    <3>4. x.g > client[c].mark /\ x.g \in Nat
      <4>1. x.g > client[c].mark
        BY <2>1, <3>1, <3>2, <3>3 DEF Lined
      <4>2. x.g \in Nat
        BY <3>3, Sizes DEF Entry, Index
      <4> QED
        BY <4>1, <4>2
    <3>5. \A h \in client[c].got : h < x.g
      <4>1. \A h \in client[c].got : h <= client[c].mark /\ h \in Nat
        BY <2>1, <2>2, Sizes DEF Knows, Index
      <4> QED
        BY <2>2, <3>4, <4>1
    <3>6. x.g \in client'[c].got
      BY <2>1, <2>2, <3>2, <3>3, TookFields
    <3> QED
      BY <3>5, <3>6
  <2> QED
    BY <1>1, <2>3, <2>4, OnlyHandlersWrite
<1>2. RealtimeInv /\ [RealtimeNext]_realtimeVars =>
        [\A c \in Client : FrameWritten(c) =>
           \E g \in client'[c].got : \A h \in client[c].got : h < g]_realtimeVars
  BY <1>1
<1> QED
  BY <1>2, RealtimeInvariant, PTL DEF RealtimeSpec, InOrder

=============================================================================
