------------------------------- MODULE Stripe -------------------------------
(***************************************************************************)
(* The Stripe integration (internal/stripe, api/stripeapi,                 *)
(* api/adminapi/stripe.go): the catalog pushed up, and payments,           *)
(* subscriptions and customers mirrored down by checkouts and webhooks.    *)
(*                                                                         *)
(* A request makes its statements and its calls of Stripe one at a time,   *)
(* without a transaction.  Stripe is external: an object goes through      *)
(* numbered states, each announced by an event that is sent, in no order,  *)
(* until it is answered with 200.  A row holds the number of the state it  *)
(* was last given, 0 when there is no row.                                 *)
(***************************************************************************)
EXTENDS Naturals, Sequences

CONSTANTS
    Req,          \* requests served at the same time
    Payment,      \* payment intents
    Subscription, \* subscriptions
    Last,         \* number of an object's final state
    Instances     \* the bounds to explore

Sale == Payment \cup Subscription
Item == {"product", "price"}

(* An instance bounds the customers, the operator's changes, the mishaps   *)
(* (failed statements and calls, crashes, repeated deliveries) and the     *)
(* Stripe objects made for one row; it names the sales that are made and   *)
(* says whether the catalog is in place from the start.                    *)
Instance == [customers : Nat, edits : Nat, mishaps : Nat, copies : Nat,
             sales : SUBSET Sale, stocked : BOOLEAN]

ASSUME StripeAssumption ==
    /\ Payment \cap Subscription = {}
    /\ Sale \cap (Item \cup {"none", "customer"}) = {}
    /\ Last \in Nat \ {0, 1}
    /\ Instances \subseteq Instance

VARIABLES
    bound,     \* the instance being explored
    ready,     \* Config.Ready: Stripe is enabled and has a key
    local,     \* local[x]: catalog row x, with its Stripe id, 0 for none
    catalog,   \* catalog[x]: at Stripe, the active flags of the objects made for x
    cust,      \* the customers at Stripe, each with its mirror row: "none",
               \* "blank" (without the email) or "named"
    now,       \* now[s]: the state of sale s at Stripe, 0 before it is made
    owner,     \* owner[s]: the customer of s, 0 for a guest
    row,       \* row[s]: the mirror row of s
    sent,      \* the events Stripe has sent
    answered,  \* the events it has been answered with 200
    log,       \* _stripe_events: the events inserted, "new", "error" or "processed"
    req,       \* req[r]: the locals of request r
    edits,     \* the operator's changes so far
    mishaps,   \* mishaps so far
    hist       \* history: see Past

(* made: customers made by checkouts; applied, again: events projected on  *)
(* a row, and more than once; late: sales whose row was overwritten with   *)
(* an older state; missed: sales with an event ignored for want of a row;  *)
(* excused: what may be at Stripe twice, or with other fields, and why.    *)
Past == [made |-> 0, applied |-> {}, again |-> {}, late |-> {}, missed |-> {}, excused |-> {}]

vars == <<bound, ready, local, catalog, cust, now, owner, row, sent, answered, log,
          req, edits, mishaps, hist>>
mirror == <<cust, row>>
sales == <<now, owner, sent>>
events == <<answered, log>>
counts == <<edits, mishaps>>

Idle == [pc |-> "idle", x |-> "none", n |-> 0, c |-> 0, v |-> FALSE, then |-> "idle"]

Begin(pc, x) == [Idle EXCEPT !.pc = pc, !.x = x]
Mishap == mishaps < bound.mishaps /\ mishaps' = mishaps + 1
Edit == edits < bound.edits /\ edits' = edits + 1

\* The request goes on at pc, and forgets its locals when it is through.
Go(r, pc) == req' = [req EXCEPT ![r] = IF pc = "idle" THEN Idle ELSE [@ EXCEPT !.pc = pc]]

\* Two requests at work on x at the same time.
Overlap(r, x) ==
    IF \E q \in Req \ {r} : req[q].x = x THEN {<<x, "copy">>, <<x, "fields">>} ELSE {}

Excuse(why) == hist' = [hist EXCEPT !.excused = @ \cup why]

----------------------------------------------------------------------------
(* Stripe.                                                                 *)

EventOf(x, n) == [x |-> x, n |-> n]

\* payment_intent.created is no type that dispatchEvent handles.
Announce(s, n) ==
    sent' = IF s \in Payment /\ n = 1 THEN sent ELSE sent \cup {EventOf(s, n)}

\* A sale moves on at Stripe: it is paid, declined, renewed, canceled.
Progress(s) ==
    /\ now[s] \in 1..(Last - 1)
    /\ now' = [now EXCEPT ![s] = @ + 1]
    /\ Announce(s, now[s] + 1)
    /\ UNCHANGED <<ready, local, catalog, owner, mirror, events, req, counts, hist>>

\* A customer and a subscription are made in Stripe's own dashboard.
SubscribeAtStripe(s) ==
    /\ s \in Subscription \cap bound.sales
    /\ now[s] = 0 /\ \A r \in Req : req[r].x # s
    /\ Len(cust) < bound.customers
    /\ Edit
    /\ cust' = Append(cust, "none")
    /\ now' = [now EXCEPT ![s] = 1]
    /\ owner' = [owner EXCEPT ![s] = Len(cust) + 1]
    /\ sent' = sent \cup {EventOf(s, 1), EventOf("customer", Len(cust) + 1)}
    /\ UNCHANGED <<ready, local, catalog, row, events, req, mishaps, hist>>

----------------------------------------------------------------------------
(* The catalog: rows first, then Stripe, then the id stamped on the row.   *)

\* PUT of the settings: Stripe is switched on or off.
SaveConfig ==
    /\ Edit
    /\ ready' = ~ready
    /\ UNCHANGED <<local, catalog, mirror, sales, events, req, mishaps, hist>>

\* Store.CreateProduct or CreatePrice, active or not; a price is pushed only under
\* a product that has been.
CreateRow(r, x, on) ==
    /\ req[r] = Idle
    /\ local[x].st = "none"
    /\ x = "price" => local["product"].st = "kept"
    /\ Edit
    /\ local' = [local EXCEPT ![x] = [st |-> "kept", id |-> 0, active |-> on]]
    /\ IF ready /\ (x = "price" => local["product"].id # 0)
         THEN /\ req' = [req EXCEPT ![r] = [Begin("push", x) EXCEPT !.v = on]]
              /\ Excuse(Overlap(r, x))
         ELSE UNCHANGED <<req, hist>>
    /\ UNCHANGED <<ready, catalog, mirror, sales, events, mishaps>>

\* PushCatalog: products without a Stripe id, from one list.
PushCatalog(r) ==
    /\ req[r] = Idle
    /\ ready
    /\ IF local["product"].st = "kept" /\ local["product"].id = 0
         THEN /\ req' = [req EXCEPT ![r] = [Begin("push", "product") EXCEPT
                                              !.v = local["product"].active, !.then = "prices"]]
              /\ Excuse(Overlap(r, "product"))
         ELSE Go(r, "prices") /\ UNCHANGED hist
    /\ UNCHANGED <<ready, local, catalog, mirror, sales, events, counts>>

\* ... then prices, each read from one list, its product read again.
ListPrices(r) ==
    /\ req[r].pc = "prices"
    /\ IF local["price"].st = "kept" /\ local["price"].id = 0
         THEN /\ req' = [req EXCEPT ![r] = [Begin("parent", "price") EXCEPT
                                              !.v = local["price"].active]]
              /\ Excuse(Overlap(r, "price"))
         ELSE Go(r, "idle") /\ UNCHANGED hist
    /\ UNCHANGED <<ready, local, catalog, mirror, sales, events, counts>>

ReadParent(r) ==
    /\ req[r].pc = "parent"
    /\ Go(r, IF local["product"].id = 0 THEN "idle" ELSE "push")
    /\ UNCHANGED <<ready, local, catalog, mirror, sales, events, counts, hist>>

\* A price is made active whatever its row says: CreatePrice does not send the flag.
MadeActive(x, v) == x = "price" \/ v

\* Client.CreateProduct or CreatePrice.
Push(r) ==
    LET x == req[r].x
    IN  /\ req[r].pc = "push"
        /\ Len(catalog[x]) < bound.copies
        /\ catalog' = [catalog EXCEPT ![x] = Append(@, MadeActive(x, req[r].v))]
        /\ req' = [req EXCEPT ![r].pc = "stamp", ![r].n = Len(catalog[x]) + 1]
        /\ Excuse(IF x = "price" /\ ~req[r].v THEN {<<x, "fields">>} ELSE {})
        /\ UNCHANGED <<ready, local, mirror, sales, events, counts>>

\* Mutant: the id is kept in the reply and not stored.
StampSkipped(r) ==
    /\ req[r].pc = "stamp"
    /\ Go(r, req[r].then)
    /\ UNCHANGED <<ready, local, catalog, mirror, sales, events, counts, hist>>

\* SetProductStripeID or SetPriceStripeID; no row, no effect.
Stamp(r) ==
    LET x == req[r].x
    IN  /\ req[r].pc = "stamp"
        /\ local' = [local EXCEPT ![x].id = IF local[x].st = "kept" THEN req[r].n ELSE @]
        /\ Go(r, req[r].then)
        /\ UNCHANGED <<ready, catalog, mirror, sales, events, counts, hist>>

\* UpdateProduct or SetPriceActive: the row, ...
UpdateRow(r, x, on) ==
    /\ req[r] = Idle
    /\ local[x].st = "kept"
    /\ Edit
    /\ local' = [local EXCEPT ![x].active = on]
    /\ req' = [req EXCEPT ![r] = [Begin("reread", x) EXCEPT !.v = on]]
    /\ Excuse(Overlap(r, x))
    /\ UNCHANGED <<ready, catalog, mirror, sales, events, mishaps>>

\* ... the row read back for its Stripe id, a product for its fields too, ...
Reread(r) ==
    LET x == req[r].x
    IN  /\ req[r].pc = "reread"
        /\ IF ready /\ local[x].id # 0
             THEN /\ req' = [req EXCEPT ![r].pc = "update", ![r].n = local[x].id,
                                        ![r].v = IF x = "product" THEN local[x].active ELSE @]
                  /\ UNCHANGED hist
             ELSE /\ Go(r, "idle")
                  /\ Excuse(IF local[x].id = 0 THEN {} ELSE {<<x, "fields">>})
        /\ UNCHANGED <<ready, local, catalog, mirror, sales, events, counts>>

\* ... and Stripe's object.
UpdateAtStripe(r) ==
    /\ req[r].pc = "update"
    /\ catalog' = [catalog EXCEPT ![req[r].x][req[r].n] = req[r].v]
    /\ Go(r, "idle")
    /\ UNCHANGED <<ready, local, mirror, sales, events, counts, hist>>

\* DeleteProduct: the prices go with it; Stripe is not told.
DeleteProduct ==
    /\ local["product"].st = "kept"
    /\ Edit
    /\ local' = [x \in Item |-> [st |-> "deleted", id |-> 0, active |-> FALSE]]
    /\ UNCHANGED <<ready, catalog, mirror, sales, events, req, mishaps, hist>>

----------------------------------------------------------------------------
(* Checkouts: createCatalogPayment, createAdhocPayment, CreateSubscription.*)

\* A subscription needs an email and an active price that has been pushed; a
\* payment without a price is ad hoc.
Checkout(r, s, email) ==
    /\ req[r] = Idle
    /\ ready
    /\ s \in bound.sales
    /\ now[s] = 0 /\ \A q \in Req : req[q].x # s
    /\ s \in Subscription =>
         email /\ local["price"].st = "kept" /\ local["price"].active /\ local["price"].id # 0
    /\ req' = [req EXCEPT ![r] = Begin(IF email THEN "customer" ELSE "create", s)]
    /\ UNCHANGED <<ready, local, catalog, mirror, sales, events, counts, hist>>

Named == {c \in DOMAIN cust : cust[c] = "named"}
Making == {r \in Req : req[r].pc \in {"newcustomer", "savecustomer"}}

\* ensureCustomer: a row with the email, ...
EnsureCustomer(r) ==
    /\ req[r].pc = "customer"
    /\ \/ /\ \E c \in Named : req' = [req EXCEPT ![r].pc = "create", ![r].c = c]
          /\ UNCHANGED hist
       \/ /\ Named = {}
          /\ Go(r, "newcustomer")
          /\ Excuse(IF Making = {} THEN {} ELSE {<<"customer", "copy">>})
    /\ UNCHANGED <<ready, local, catalog, mirror, sales, events, counts>>

\* ... or a customer made at Stripe ...
CreateCustomer(r) ==
    /\ req[r].pc = "newcustomer"
    /\ Len(cust) < bound.customers
    /\ cust' = Append(cust, "none")
    /\ sent' = sent \cup {EventOf("customer", Len(cust) + 1)}
    /\ req' = [req EXCEPT ![r].pc = "savecustomer", ![r].c = Len(cust) + 1]
    /\ hist' = [hist EXCEPT !.made = @ + 1]
    /\ UNCHANGED <<ready, local, catalog, now, owner, row, events, counts>>

\* ... and mirrored.
SaveCustomer(r) ==
    /\ req[r].pc = "savecustomer"
    /\ cust' = [cust EXCEPT ![req[r].c] = "named"]
    /\ Go(r, "create")
    /\ UNCHANGED <<ready, local, catalog, row, sales, events, counts, hist>>

\* CreatePaymentIntent or CreateSubscription at Stripe.
CreateSale(r) ==
    LET s == req[r].x
    IN  /\ req[r].pc = "create"
        /\ now' = [now EXCEPT ![s] = 1]
        /\ owner' = [owner EXCEPT ![s] = req[r].c]
        /\ Announce(s, 1)
        /\ req' = [req EXCEPT ![r].n = 1,
                              ![r].pc = IF s \in Payment THEN "save" ELSE "owner"]
        /\ UNCHANGED <<ready, local, catalog, mirror, events, counts, hist>>

\* CancelSubscription: of a subscription that has a row; Stripe refuses to
\* cancel one twice.
CancelSubscription(r, s) ==
    /\ req[r] = Idle
    /\ ready
    /\ s \in Subscription
    /\ row[s] # 0 /\ now[s] < Last
    /\ now' = [now EXCEPT ![s] = Last]
    /\ Announce(s, Last)
    /\ req' = [req EXCEPT ![r] = [Begin("owner", s) EXCEPT !.n = Last]]
    /\ UNCHANGED <<ready, local, catalog, owner, mirror, events, counts, hist>>

\* localSubFromStripe looks the customer up; the subscription carries its id
\* only, so a customer not mirrored yet gets a row without an email.
ResolveOwner(r) ==
    /\ req[r].pc = "owner"
    /\ Go(r, IF cust[owner[req[r].x]] = "none" THEN "mirror" ELSE "save")
    /\ UNCHANGED <<ready, local, catalog, mirror, sales, events, counts, hist>>

MirrorOwner(r) ==
    /\ req[r].pc = "mirror"
    /\ cust' = [cust EXCEPT ![owner[req[r].x]] = "blank"]
    /\ Go(r, "save")
    /\ UNCHANGED <<ready, local, catalog, row, sales, events, counts, hist>>

Projected(e) == [hist EXCEPT !.applied = @ \cup {e},
                             !.again = IF e \in hist.applied THEN @ \cup {e} ELSE @]

\* Mutant: ON CONFLICT DO NOTHING.
SaveOnce(r) ==
    LET s == req[r].x
        h == IF req[r].then = "mark" THEN Projected(EventOf(s, req[r].n)) ELSE hist
    IN  /\ req[r].pc = "save"
        /\ row' = [row EXCEPT ![s] = IF @ = 0 THEN req[r].n ELSE @]
        /\ hist' = [h EXCEPT !.late = IF req[r].n < row[s] THEN @ \cup {s} ELSE @]
        /\ Go(r, req[r].then)
        /\ UNCHANGED <<ready, local, catalog, cust, sales, events, counts>>

\* UpsertPayment or UpsertSubscription: the last writer wins.
Save(r) ==
    LET s == req[r].x
        h == IF req[r].then = "mark" THEN Projected(EventOf(s, req[r].n)) ELSE hist
    IN  /\ req[r].pc = "save"
        /\ row' = [row EXCEPT ![s] = req[r].n]
        /\ hist' = [h EXCEPT !.late = IF req[r].n < row[s] THEN @ \cup {s} ELSE @]
        /\ Go(r, req[r].then)
        /\ UNCHANGED <<ready, local, catalog, cust, sales, events, counts>>

----------------------------------------------------------------------------
(* Webhooks.                                                               *)

Handler(x) ==
    IF x \in Payment THEN "payment" ELSE IF x \in Subscription THEN "owner" ELSE "profile"

Answer(e) == answered' = answered \cup {e}

\* InsertEvent of an event that is not in the log.
WithEvent(e) == [d \in {e} \cup DOMAIN log |-> IF d = e THEN "new" ELSE log[d]]

\* Stripe sends an event until it is answered, and now and then once more.
Delivered(e) ==
    /\ e \in sent
    /\ \/ e \notin answered /\ UNCHANGED mishaps
       \/ e \in answered /\ Mishap

\* Mutant: an event in the log that is not marked processed is taken again.
HandleWebhookUnlessProcessed(r, e) ==
    /\ req[r] = Idle
    /\ Delivered(e)
    /\ IF e \in DOMAIN log /\ log[e] = "processed"
         THEN Answer(e) /\ UNCHANGED <<log, req>>
         ELSE /\ log' = WithEvent(e)
              /\ req' = [req EXCEPT ![r] = [Begin(Handler(e.x), e.x) EXCEPT
                                              !.n = e.n, !.then = "mark"]]
              /\ UNCHANGED answered
    /\ UNCHANGED <<ready, local, catalog, mirror, sales, edits, hist>>

\* HandleWebhook: an event already in the log is a duplicate, answered with 200.
HandleWebhook(r, e) ==
    /\ req[r] = Idle
    /\ Delivered(e)
    /\ IF e \in DOMAIN log
         THEN Answer(e) /\ UNCHANGED <<log, req>>
         ELSE /\ log' = WithEvent(e)
              /\ req' = [req EXCEPT ![r] = [Begin(Handler(e.x), e.x) EXCEPT
                                              !.n = e.n, !.then = "mark"]]
              /\ UNCHANGED answered
    /\ UNCHANGED <<ready, local, catalog, mirror, sales, edits, hist>>

\* applyPaymentIntent: only payments of our own checkouts.
ApplyPaymentIntent(r) ==
    /\ req[r].pc = "payment"
    /\ IF row[req[r].x] = 0
         THEN Go(r, "mark") /\ hist' = [hist EXCEPT !.missed = @ \cup {req[r].x}]
         ELSE Go(r, "save") /\ UNCHANGED hist
    /\ UNCHANGED <<ready, local, catalog, mirror, sales, events, counts>>

\* customer.created, customer.updated.
ApplyCustomer(r) ==
    /\ req[r].pc = "profile"
    /\ cust' = [cust EXCEPT ![req[r].n] = "named"]
    /\ hist' = Projected(EventOf("customer", req[r].n))
    /\ Go(r, "mark")
    /\ UNCHANGED <<ready, local, catalog, row, sales, events, counts>>

MarkEventProcessed(r) ==
    LET e == EventOf(req[r].x, req[r].n)
    IN  /\ req[r].pc = "mark"
        /\ log' = [log EXCEPT ![e] = "processed"]
        /\ Answer(e)
        /\ Go(r, "idle")
        /\ UNCHANGED <<ready, local, catalog, mirror, sales, counts, hist>>

\* A statement of the dispatch fails: recorded, if that can be, and answered
\* with 200 all the same.
DispatchFails(r) ==
    LET e == EventOf(req[r].x, req[r].n)
    IN  /\ req[r].pc \in {"payment", "owner", "mirror", "save", "profile"}
        /\ req[r].then = "mark"
        /\ Mishap
        /\ \/ log' = [log EXCEPT ![e] = "error"]
           \/ UNCHANGED log
        /\ Answer(e)
        /\ Go(r, "idle")
        /\ UNCHANGED <<ready, local, catalog, mirror, sales, edits, hist>>

\* The request ends early: an error is returned, or the process dies.  What
\* Stripe made and no row names may be made again; an edit may not arrive.
Fail(r) ==
    LET x == IF req[r].pc = "savecustomer" THEN "customer" ELSE req[r].x
    IN  /\ req[r].pc # "idle"
        /\ Mishap
        /\ Go(r, "idle")
        /\ Excuse(CASE req[r].pc \in {"stamp", "savecustomer"} -> {<<x, "copy">>}
                    [] req[r].pc \in {"reread", "update"} -> {<<x, "fields">>}
                    [] OTHER -> {})
        /\ UNCHANGED <<ready, local, catalog, mirror, sales, events, edits>>

----------------------------------------------------------------------------
Init ==
    /\ bound \in Instances
    /\ ready = bound.stocked
    /\ local = [x \in Item |-> IF bound.stocked
                                 THEN [st |-> "kept", id |-> 1, active |-> TRUE]
                                 ELSE [st |-> "none", id |-> 0, active |-> FALSE]]
    /\ catalog = [x \in Item |-> IF bound.stocked THEN <<TRUE>> ELSE << >>]
    /\ cust = << >>
    /\ now = [s \in Sale |-> 0]
    /\ owner = now
    /\ row = now
    /\ sent = {}
    /\ answered = {}
    /\ log = << >>
    /\ req = [r \in Req |-> Idle]
    /\ edits = 0
    /\ mishaps = 0
    /\ hist = Past

Catalog(r) ==
    \/ \E x \in Item, on \in BOOLEAN : CreateRow(r, x, on) \/ UpdateRow(r, x, on)
    \/ PushCatalog(r) \/ ListPrices(r) \/ ReadParent(r) \/ Push(r) \/ Stamp(r)
    \/ Reread(r) \/ UpdateAtStripe(r)

Selling(r) ==
    \/ \E s \in Sale : CancelSubscription(r, s) \/ \E email \in BOOLEAN : Checkout(r, s, email)
    \/ EnsureCustomer(r) \/ CreateCustomer(r) \/ SaveCustomer(r) \/ CreateSale(r)
    \/ ResolveOwner(r) \/ MirrorOwner(r) \/ Save(r)

Webhook(r) ==
    \/ \E e \in sent : HandleWebhook(r, e)
    \/ ApplyPaymentIntent(r) \/ ApplyCustomer(r) \/ MarkEventProcessed(r) \/ DispatchFails(r)

Next ==
    /\ bound' = bound
    /\ \/ SaveConfig \/ DeleteProduct
       \/ \E s \in Sale : Progress(s) \/ SubscribeAtStripe(s)
       \/ \E r \in Req : Catalog(r) \/ Selling(r) \/ Webhook(r) \/ Fail(r)

Spec == Init /\ [][Next]_vars

----------------------------------------------------------------------------
(* Properties *)

\* "duplicate delivery - already handled" (HandleWebhook): however deliveries
\* of an event repeat and overlap, fail or are cut short, it is projected at
\* most once; Stripe stops sending it only when it is in the log; and it is
\* marked processed only when it was projected or was about no row.
EventCountsOnce ==
    /\ hist.again = {}
    /\ answered \subseteq DOMAIN log
    /\ \A e \in DOMAIN log : log[e] = "processed" => e \in hist.applied \/ e.x \in hist.missed

\* The webhook handler "projects the result" (client.go): with every event of a
\* sale answered, its row has the state Stripe has, whatever requests are still at
\* work on it, unless an older state was written over a newer one, an event came
\* before the checkout had made the row, or the last event is in the log
\* unprocessed, where the admin UI shows it.  A payment whose checkout failed, or
\* is not through, has no row.
StaleIsExplained ==
    \A s \in Sale :
        /\ now[s] # 0
        /\ \A e \in sent : e.x = s => e \in answered
        => \/ row[s] = now[s]
           \/ s \in hist.late \cup hist.missed
           \/ s \in Payment /\ row[s] = 0
           \/ EventOf(s, now[s]) \in DOMAIN log /\ log[EventOf(s, now[s])] # "processed"

Quiet(x) == \A r \in Req : req[r].x # x

\* PushCatalog is "idempotent - already-pushed rows are skipped" and a failed push
\* is reconciled later: Stripe has one object for a row and one customer for an
\* email, and the row's fields, unless two requests were at it at once, an id was
\* lost between Stripe and the row, an edit could not be sent, or a price was pushed
\* while its row was archived, which Stripe is not told.
CatalogExplained ==
    /\ \A x \in Item :
         /\ Len(catalog[x]) > 1 => <<x, "copy">> \in hist.excused
         /\ local[x].id # 0 /\ Quiet(x) =>
              \/ catalog[x][local[x].id] = local[x].active
              \/ <<x, "fields">> \in hist.excused
    /\ hist.made > 1 => <<"customer", "copy">> \in hist.excused
=============================================================================
