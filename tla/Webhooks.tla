------------------------------ MODULE Webhooks ------------------------------
(***************************************************************************)
(* Outbound webhooks (internal/webhooks), end to end: a record handler     *)
(* publishes on the event bus (internal/eventbus/eventbus.go), the         *)
(* dispatcher's subscription turns the event into a delivery row and a job *)
(* per matching webhook, and the delivery handler runs in the job queue.   *)
(*                                                                         *)
(* The queue appears by what module Jobs shows of it: a job is claimed,    *)
(* its handler runs, an error sends it back until the attempts are used    *)
(* up, a job whose worker is lost, or whose lock runs out while the worker *)
(* is still at it, is claimed again, and operators cancel and reset jobs.  *)
(***************************************************************************)
EXTENDS Naturals, Sequences, SequencesExt, FiniteSetsExt

CONSTANTS
    Hook,         \* rows of _webhooks
    Pattern,      \* Pattern[h]: the event patterns of h, sequences of segments
    Topic,        \* record.<verb>.<collection>, as a sequence of segments
    Handler,      \* requests that publish record events
    Worker,       \* job workers
    MaxAttempts,  \* max_attempts of a webhook
    Instances     \* the bounds to explore

(* An instance bounds the events, the delivery rows, the subscriber's      *)
(* buffer, the operators' changes of webhooks and jobs and their replays,  *)
(* and the mishaps: failed statements, lost workers, lapsed locks, crashes.*)
(* It says whether the process is shut down, which topics occur and which  *)
(* handlers and workers run.                                               *)
Instance == [events : Nat, rows : Nat, buffer : Nat, edits : Nat, mishaps : Nat,
             stops : BOOLEAN, topics : SUBSET Topic, handlers : SUBSET Handler,
             workers : SUBSET Worker]

ASSUME WebhooksAssumption ==
    /\ IsFiniteSet(Worker)
    /\ MaxAttempts \in Nat \ {0}
    /\ Instances \subseteq Instance

VARIABLES
    bound,      \* the instance being explored
    hook,       \* hook[h]: "active", "paused" or "deleted"
    pub,        \* pub[r]: where handler r is in Publish
    events,     \* number of events published so far
    sub,        \* the dispatcher's subscription: its place in Unsubscribe, its queue
    disp,       \* the dispatcher's goroutine
    handled,    \* the events dispatch is through with, and the hooks it found
    dels,       \* the rows of _webhook_deliveries, each with its job
    work,       \* work[w]: the delivery handler in worker w
    edits,      \* operators' changes so far
    mishaps     \* mishaps so far

vars == <<bound, hook, pub, events, sub, disp, handled, dels, work, edits, mishaps>>

\* Patterns and topics have the same number of segments or do not match.
matchTopic(pattern, topic) ==
    /\ Len(pattern) = Len(topic)
    /\ \A i \in DOMAIN topic : pattern[i] \in {"*", topic[i]}

Mishap == mishaps < bound.mishaps /\ mishaps' = mishaps + 1

----------------------------------------------------------------------------
(* The event bus.                                                          *)

Quiet == [st |-> "idle", ev |-> 0, to |-> FALSE, since |-> "none"]

\* Publish: the list of subscribers is copied under the lock.
PublishBegin(r, topic) ==
    /\ pub[r].st = "idle"
    /\ events < bound.events
    /\ events' = events + 1
    /\ pub' = [pub EXCEPT ![r] = [st |-> "send", ev |-> [n |-> events + 1, topic |-> topic],
                                  to |-> sub.listed, since |-> sub.st]]
    /\ UNCHANGED <<hook, sub, disp, handled, dels, work, edits, mishaps>>

\* The send, without the lock: queued, or dropped when the buffer is full; a
\* send on a closed channel panics.
PublishSend(r) ==
    /\ pub[r].st = "send"
    /\ \/ /\ pub[r].to /\ sub.open /\ Len(sub.q) < bound.buffer
          /\ sub' = [sub EXCEPT !.q = Append(@, pub[r].ev)]
          /\ pub' = [pub EXCEPT ![r] = Quiet]
       \/ /\ pub[r].to => sub.open /\ Len(sub.q) >= bound.buffer
          /\ pub' = [pub EXCEPT ![r] = Quiet]
          /\ UNCHANGED sub
       \/ /\ pub[r].to /\ ~sub.open
          /\ pub' = [pub EXCEPT ![r].st = "panicked"]
          /\ UNCHANGED sub
    /\ UNCHANGED <<hook, events, disp, handled, dels, work, edits, mishaps>>

\* Mutant: the channel is closed while the subscription is still listed.
UnsubscribeClosesFirst ==
    /\ \/ /\ sub.st = "up"
          /\ bound.stops
          /\ sub' = [sub EXCEPT !.st = "removed", !.open = FALSE]
       \/ /\ sub.st = "removed"
          /\ sub' = [sub EXCEPT !.st = "closed", !.listed = FALSE]
    /\ UNCHANGED <<hook, pub, events, disp, handled, dels, work, edits, mishaps>>

\* Unsubscribe at shutdown: out of the list, then the channel is closed.
Unsubscribe ==
    /\ \/ /\ sub.st = "up"
          /\ bound.stops
          /\ sub' = [sub EXCEPT !.st = "removed", !.listed = FALSE]
       \/ /\ sub.st = "removed"
          /\ sub' = [sub EXCEPT !.st = "closed", !.open = FALSE]
    /\ UNCHANGED <<hook, pub, events, disp, handled, dels, work, edits, mishaps>>

Ready == [st |-> "ready", ev |-> 0, todo |-> {}, d |-> 0]

\* Unsubscribe returns when the goroutine has drained the queue and ended.
UnsubscribeReturns ==
    /\ sub.st = "closed"
    /\ sub.q = << >>
    /\ disp = Ready
    /\ sub' = [sub EXCEPT !.st = "stopped"]
    /\ UNCHANGED <<hook, pub, events, disp, handled, dels, work, edits, mishaps>>

----------------------------------------------------------------------------
(* The dispatcher: for e := range sub.queue { dispatch }.                  *)

Matching(topic) ==
    {h \in Hook : hook[h] = "active" /\ \E p \in Pattern[h] : matchTopic(p, topic)}

\* dispatch takes an event and lists the webhooks; when the query fails the
\* event is gone.
DispatchList ==
    /\ disp.st = "ready"
    /\ sub.q # << >>
    /\ LET ev == Head(sub.q)
           hs == Matching(ev.topic)
       IN  /\ sub' = [sub EXCEPT !.q = Tail(@)]
           /\ \/ /\ disp' = [st |-> "insert", ev |-> ev.n, todo |-> hs, d |-> 0]
                 /\ UNCHANGED mishaps
                 /\ handled' = [handled EXCEPT ![ev.n].found = hs]
              \/ /\ Mishap
                 /\ UNCHANGED <<disp, handled>>
    /\ UNCHANGED <<hook, pub, events, dels, work, edits>>

\* Of a row, "reruns" counts how often the sweep or an operator's reset made its
\* job pending again, and "blind" tells that the outcome of a run got lost.
NoJob == [st |-> "none", attempts |-> 0]
NewDelivery(h, n, origin) ==
    [hook |-> h, ev |-> n, st |-> "pending", job |-> NoJob, origin |-> origin,
     received |-> FALSE, told |-> 0, reruns |-> 0, blind |-> FALSE]

\* InsertDelivery for the next webhook.  It fails when the webhook has been
\* deleted meanwhile, or by mishap; the loop goes on with the others.
DispatchInsert(h) ==
    /\ disp.st = "insert"
    /\ h \in disp.todo
    /\ \/ /\ hook[h] # "deleted"
          /\ Len(dels) < bound.rows
          /\ dels' = Append(dels, NewDelivery(h, disp.ev, "event"))
          /\ disp' = [disp EXCEPT !.st = "enqueue", !.d = Len(dels) + 1, !.todo = @ \ {h}]
          /\ UNCHANGED <<handled, mishaps>>
       \/ /\ hook[h] = "deleted" \/ mishaps < bound.mishaps
          /\ mishaps' = IF hook[h] = "deleted" THEN mishaps ELSE mishaps + 1
          /\ disp' = [disp EXCEPT !.todo = @ \ {h}]
          /\ handled' = [handled EXCEPT ![disp.ev].failed = @ \cup {h}]
          /\ UNCHANGED dels
    /\ UNCHANGED <<hook, pub, events, sub, work, edits>>

\* Mutant: an Enqueue that fails ends the loop.
DispatchEnqueueStops ==
    /\ disp.st = "enqueue"
    /\ \/ /\ dels' = [dels EXCEPT ![disp.d].job.st = "pending"]
          /\ disp' = [disp EXCEPT !.st = "insert", !.d = 0]
          /\ UNCHANGED mishaps
       \/ /\ Mishap
          /\ disp' = [disp EXCEPT !.st = "insert", !.d = 0, !.todo = {}]
          /\ UNCHANGED dels
    /\ UNCHANGED <<hook, pub, events, sub, handled, work, edits>>

\* Enqueue the job of the row just inserted.  When it fails the row stays
\* without a job; the loop goes on.
DispatchEnqueue ==
    /\ disp.st = "enqueue"
    /\ \/ /\ dels' = [dels EXCEPT ![disp.d].job.st = "pending"]
          /\ UNCHANGED mishaps
       \/ /\ Mishap
          /\ UNCHANGED dels
    /\ disp' = [disp EXCEPT !.st = "insert", !.d = 0]
    /\ UNCHANGED <<hook, pub, events, sub, handled, work, edits>>

DispatchDone ==
    /\ disp.st = "insert"
    /\ disp.todo = {}
    /\ disp' = Ready
    /\ handled' = [handled EXCEPT ![disp.ev].done = TRUE]
    /\ UNCHANGED <<hook, pub, events, sub, dels, work, edits, mishaps>>

----------------------------------------------------------------------------
(* The operators.                                                          *)

Edit == edits < bound.edits /\ edits' = edits + 1

\* SetActive: pause and resume.
SetActive(h) ==
    /\ Edit
    /\ hook[h] # "deleted"
    /\ hook' = [hook EXCEPT ![h] = IF @ = "active" THEN "paused" ELSE "active"]
    /\ UNCHANGED <<pub, events, sub, disp, handled, dels, work, mishaps>>

\* Delete: the delivery rows go with the webhook, their jobs stay.
DeleteHook(h) ==
    /\ Edit
    /\ hook[h] # "deleted"
    /\ hook' = [hook EXCEPT ![h] = "deleted"]
    /\ dels' = [d \in DOMAIN dels |->
            IF dels[d].hook = h THEN [dels[d] EXCEPT !.st = "gone"] ELSE dels[d]]
    /\ UNCHANGED <<pub, events, sub, disp, handled, work, mishaps>>

\* webhooksReplayHandler: a copy of the row, and no job for it.
Replay(d) ==
    /\ Edit
    /\ Len(dels) < bound.rows
    /\ dels[d].st # "gone"
    /\ dels' = Append(dels, NewDelivery(dels[d].hook, dels[d].ev, "replay"))
    /\ UNCHANGED <<hook, pub, events, sub, disp, handled, work, mishaps>>

\* The queue's Cancel takes a pending or running job; the handler is not told.
Cancel(d) ==
    /\ Edit
    /\ dels[d].job.st \in {"pending", "running"}
    /\ dels' = [dels EXCEPT ![d].job.st = "cancelled"]
    /\ UNCHANGED <<hook, pub, events, sub, disp, handled, work, mishaps>>

\* Its Reset starts a failed or cancelled job over, even under a handler that is
\* still at it.
Reset(d) ==
    /\ Edit
    /\ dels[d].job.st \in {"failed", "cancelled"}
    /\ dels' = [dels EXCEPT ![d].job = [st |-> "pending", attempts |-> 0],
                            ![d].reruns = @ + 1]
    /\ UNCHANGED <<hook, pub, events, sub, disp, handled, work, mishaps>>

----------------------------------------------------------------------------
(* The delivery handler in the job queue.                                  *)

Free == [st |-> "idle", d |-> 0, attempts |-> 0, outcome |-> "none"]

Claim(w, d) ==
    /\ work[w].st = "idle"
    /\ dels[d].job.st = "pending"
    /\ dels' = [dels EXCEPT ![d].job = [st |-> "running", attempts |-> @.attempts + 1]]
    /\ work' = [work EXCEPT ![w] = [st |-> "check", d |-> d, outcome |-> "none",
                                    attempts |-> dels[d].job.attempts + 1]]
    /\ UNCHANGED <<hook, pub, events, sub, disp, handled, edits, mishaps>>

\* The checks before the POST.  A webhook that is gone, paused or no longer
\* valid makes the delivery dead; so does any error of GetByID.  A delivery
\* row that cannot be loaded is an error for the queue.
Check(w) ==
    LET d == work[w].d
    IN  /\ work[w].st = "check"
        /\ \/ /\ hook[dels[d].hook] = "active" /\ dels[d].st # "gone"
              /\ work' = [work EXCEPT ![w].st = "post"]
              /\ UNCHANGED mishaps
           \/ /\ hook[dels[d].hook] # "active"
              /\ work' = [work EXCEPT ![w].st = "record", ![w].outcome = "dead"]
              /\ UNCHANGED mishaps
           \/ /\ Mishap
              /\ \E o \in {"dead", "unread"} :
                    work' = [work EXCEPT ![w].st = IF o = "dead" THEN "record" ELSE "finish",
                                         ![w].outcome = o]
        /\ UNCHANGED <<hook, pub, events, sub, disp, handled, dels, edits>>

\* The POST.  The receiver accepts the delivery and says so; or accepts it
\* and the answer is lost; or asks to try later or is not reached; or refuses.
Post(w) ==
    LET d == work[w].d
    IN  /\ work[w].st = "post"
        /\ \/ /\ dels' = [dels EXCEPT ![d].received = TRUE]
              /\ work' = [work EXCEPT ![w].st = "record", ![w].outcome = "success"]
              /\ UNCHANGED mishaps
           \/ /\ Mishap
              /\ dels' = [dels EXCEPT ![d].received = TRUE, ![d].blind = TRUE]
              /\ work' = [work EXCEPT ![w].st = "record", ![w].outcome = "retry"]
           \/ /\ \E o \in {"retry", "dead"} :
                    work' = [work EXCEPT ![w].st = "record", ![w].outcome = o]
              /\ UNCHANGED <<dels, mishaps>>
        /\ UNCHANGED <<hook, pub, events, sub, disp, handled, edits>>

Terminal == {"success", "dead"}

\* Mutant: every attempt is announced.
AnnouncedAlways(outcome) == outcome # "none"

\* emitTerminal is called for success and dead, never for a retry.
Announced(outcome) == outcome \in Terminal

\* CompleteDelivery: the row takes the outcome whatever it says by now.  Its
\* error is ignored.
Record(w) ==
    LET d == work[w].d
        o == work[w].outcome
    IN  /\ work[w].st = "record"
        /\ \/ /\ dels' = [dels EXCEPT ![d].st = IF @ = "gone" THEN @ ELSE o]
              /\ UNCHANGED mishaps
           \/ /\ Mishap
              /\ dels' = [dels EXCEPT ![d].blind = TRUE]
        /\ work' = [work EXCEPT ![w].st = IF Announced(o) THEN "announce" ELSE "finish"]
        /\ UNCHANGED <<hook, pub, events, sub, disp, handled, edits>>

\* emitTerminal publishes the outcome.  Its topic has no subscriber that leaves,
\* so this Publish does not panic.
Announce(w) ==
    /\ work[w].st = "announce"
    /\ dels' = [dels EXCEPT ![work[w].d].told = @ + 1]
    /\ work' = [work EXCEPT ![w].st = "finish"]
    /\ UNCHANGED <<hook, pub, events, sub, disp, handled, edits, mishaps>>

\* Mutant: an error does not bring the job back to pending.
NextJobHasty(job, outcome, attempts) ==
    IF job.st # "running" THEN job
    ELSE [job EXCEPT !.st = IF outcome \in Terminal THEN "completed"
                            ELSE IF attempts >= MaxAttempts THEN "failed" ELSE "none"]

\* What the queue makes of the handler's result: Complete and Fail only touch
\* a running job.
NextJob(job, outcome, attempts) ==
    IF job.st # "running" THEN job
    ELSE [job EXCEPT !.st = IF outcome \in Terminal THEN "completed"
                            ELSE IF attempts >= MaxAttempts THEN "failed" ELSE "pending"]

\* The handler has returned to the queue, which stores the result.
Finish(w) ==
    /\ work[w].st = "finish"
    /\ dels' = [dels EXCEPT ![work[w].d].job =
                    NextJob(@, work[w].outcome, work[w].attempts)]
    /\ work' = [work EXCEPT ![w] = Free]
    /\ UNCHANGED <<hook, pub, events, sub, disp, handled, edits, mishaps>>

\* The rows when workers ws are lost: an outcome not yet recorded is lost too.
LoseOutcomes(ws) ==
    [d \in DOMAIN dels |->
        [dels[d] EXCEPT !.blind =
            IF \E w \in ws : work[w].st = "record" /\ work[w].d = d THEN TRUE ELSE @]]

\* The worker is lost with its process, or its result cannot be stored.
Abandon(w) ==
    /\ work[w].st # "idle"
    /\ Mishap
    /\ work' = [work EXCEPT ![w] = Free]
    /\ dels' = LoseOutcomes({w})
    /\ UNCHANGED <<hook, pub, events, sub, disp, handled, edits>>

Working(d) == \E w \in Worker : work[w].st # "idle" /\ work[w].d = d

\* The sweep for expired locks: the worker is gone, or too slow.
Recover(d) ==
    /\ dels[d].job.st = "running"
    /\ IF Working(d) THEN Mishap ELSE UNCHANGED mishaps
    /\ dels' = [dels EXCEPT ![d].job.st = "pending", ![d].reruns = @ + 1]
    /\ UNCHANGED <<hook, pub, events, sub, disp, handled, work, edits>>

Subscribed == [st |-> "up", listed |-> TRUE, open |-> TRUE, q |-> << >>]

\* The process dies and starts again: queue, dispatcher and workers are lost.
Crash ==
    /\ Mishap
    /\ sub.st = "up"
    /\ sub' = Subscribed
    /\ disp' = Ready
    /\ pub' = [r \in Handler |-> Quiet]
    /\ work' = [w \in Worker |-> Free]
    /\ dels' = LoseOutcomes(Worker)
    /\ UNCHANGED <<hook, events, handled, edits>>

----------------------------------------------------------------------------

Init ==
    /\ bound \in Instances
    /\ hook = [h \in Hook |-> "active"]
    /\ pub = [r \in Handler |-> Quiet]
    /\ events = 0
    /\ sub = Subscribed
    /\ disp = Ready
    /\ handled = [n \in 1 .. bound.events |-> [done |-> FALSE, found |-> {}, failed |-> {}]]
    /\ dels = << >>
    /\ work = [w \in Worker |-> Free]
    /\ edits = 0
    /\ mishaps = 0

Dispatcher ==
    \/ DispatchList
    \/ \E h \in Hook : DispatchInsert(h)
    \/ DispatchEnqueue
    \/ DispatchDone

Deliver(w) == Check(w) \/ Post(w) \/ Record(w) \/ Announce(w) \/ Finish(w)

Next ==
    /\ UNCHANGED bound
    /\ \/ \E r \in bound.handlers : (\E t \in bound.topics : PublishBegin(r, t)) \/ PublishSend(r)
       \/ Unsubscribe
       \/ UnsubscribeReturns
       \/ Dispatcher
       \/ \E h \in Hook : SetActive(h) \/ DeleteHook(h)
       \/ \E d \in DOMAIN dels : Replay(d) \/ Cancel(d) \/ Reset(d) \/ Recover(d)
       \/ \E w \in bound.workers : Deliver(w) \/ Abandon(w)
       \/ \E w \in bound.workers, d \in DOMAIN dels : Claim(w, d)
       \/ Crash

(* Goroutines and workers run, due jobs are claimed, the sweep runs.       *)
Row == 1 .. Max({i.rows : i \in Instances})

Fairness ==
    /\ WF_vars(UNCHANGED bound /\ Dispatcher)
    /\ \A w \in Worker : WF_vars(UNCHANGED bound /\ Deliver(w))
    /\ \A d \in Row : WF_vars(UNCHANGED bound /\ d \in DOMAIN dels
                              /\ \E w \in bound.workers : Claim(w, d))
    /\ \A d \in Row : WF_vars(UNCHANGED bound /\ d \in DOMAIN dels /\ ~Working(d) /\ Recover(d))

Spec == Init /\ [][Next]_vars /\ Fairness

----------------------------------------------------------------------------
(* Properties.                                                             *)

\* When dispatch is through with an event, each webhook it found has a row for
\* it, or inserting that very row failed: trouble with one webhook never costs
\* another its delivery.
EachMatchServed ==
    \A n \in DOMAIN handled : handled[n].done =>
        \A h \in handled[n].found \ handled[n].failed :
            \E d \in DOMAIN dels : dels[d].hook = h /\ dels[d].ev = n /\ dels[d].origin = "event"

\* A row says "success" only if the receiver accepted the delivery; when nobody is
\* at it, it says something else of an accepted one only if the job was made
\* pending again by the sweep or by a reset, or an outcome got lost; and the
\* outcome is announced once, and once more for each time the job was.
OutcomeHonest ==
    \A d \in DOMAIN dels :
        /\ dels[d].st = "success" => dels[d].received
        /\ dels[d].received /\ dels[d].st \in {"pending", "retry", "dead"} /\ ~Working(d)
                => dels[d].reruns > 0 \/ dels[d].blind
        /\ dels[d].told <= 1 + dels[d].reruns

Settled(del) == \/ del.st \in {"success", "dead", "gone"}
                \/ del.job.st \in {"failed", "cancelled"}
                \/ del.job.st = "completed" /\ (del.blind \/ del.reruns > 0)

\* A delivery with a job ends: its row tells the outcome, or the webhook was
\* deleted, or the attempts are used up, or an operator cancelled the job (then
\* the row keeps what it says, "pending" or "retry", until the job is reset), or
\* the outcome could not be stored or was overwritten by a run that came late.
\* A row without a job (its Enqueue failed, the process died before it, or it
\* is a replay) stays pending.
DeliverySettles ==
    \A d \in Row : (d \in DOMAIN dels /\ dels[d].job.st = "pending")
        ~> (d \in DOMAIN dels /\ Settled(dels[d]))

\* Publish panics only when its copy of the subscribers is older than the
\* Unsubscribe it collides with.
PanicNeedsOverlap == \A r \in Handler : pub[r].st = "panicked" => pub[r].since = "up"

============================================================================
