---------------------------- MODULE StripeProofs ----------------------------
(***************************************************************************)
(* Proofs about Stripe, for any number of requests, customers, payments    *)
(* and subscriptions, changes and mishaps.                                 *)
(*                                                                         *)
(* The invariant has four parts beside the locals of the requests: the     *)
(* events and their log (Counted), the states of sales and of their rows   *)
(* (Sold), the catalog (Shelved) and the customers (Known).  A part says   *)
(* what the requests under way know of the rows they have read and have    *)
(* yet to write, until an excuse is recorded.                              *)
(***************************************************************************)
EXTENDS Stripe, SequenceTheorems, TLAPS

Shelving == {"push", "stamp", "parent", "reread", "update"}
Buying == {"customer", "newcustomer", "savecustomer", "create"}
Applying == {"payment", "owner", "mirror", "save"}

Thing == Sale \cup Item \cup {"none", "customer"}

Statement == {"idle", "prices", "profile", "mark"} \cup Shelving \cup Buying \cup Applying
Return == {"idle", "prices", "mark"}
Local == [pc : Statement, x : Thing, n : Nat, c : Nat, v : BOOLEAN, then : Return]

\* What a request is about, and where it goes on, at each of its statements.
FitAt(pc, x, then) ==
    /\ pc \in Shelving => x \in Item /\ then # "mark"
    /\ pc = "prices" => x \in Item \cup {"none"} /\ then # "mark"
    /\ pc \in Buying => x \in Sale /\ then = "idle"
    /\ pc \in {"owner", "mirror"} => x \in Subscription
    /\ pc = "payment" => x \in Payment
    /\ pc = "save" => x \in Sale
    /\ pc = "profile" => x = "customer"
    /\ pc = "mark" => x \in Sale \cup {"customer"}
    /\ pc \in {"payment", "profile", "mark"} => then = "mark"
    /\ pc \in {"owner", "mirror", "save"} => then # "prices"

Fit(q) == (q.pc = "idle" => q = Idle) /\ FitAt(q.pc, q.x, q.then)

Requests == req \in [Req -> Local] /\ \A r \in Req : Fit(req[r])

Event == [x : Sale \cup {"customer"}, n : Nat]

History == [made : Nat, applied : SUBSET Event, again : SUBSET Event, late : SUBSET Sale,
            missed : SUBSET Sale, excused : SUBSET (Thing \X {"copy", "fields"})]

\* The event that request r is handling.
Dispatching(r) == req[r].then = "mark"
Handled(r) == EventOf(req[r].x, req[r].n)

\* An event being handled is in the log, by one request, and not projected before
\* its row is written; it is about to be marked when it was, or had no row.
Counted ==
    /\ sent \subseteq Event
    /\ EventCountsOnce
    /\ hist.applied \subseteq DOMAIN log
    /\ \A r \in Req : Dispatching(r) => Handled(r) \in DOMAIN log
    /\ \A r, q \in Req : Dispatching(r) /\ Dispatching(q) /\ Handled(q) = Handled(r) => q = r
    /\ \A r \in Req : Dispatching(r) /\ req[r].pc # "mark" => Handled(r) \notin hist.applied
    /\ \A r \in Req : req[r].pc = "mark" => Handled(r) \in hist.applied \/ req[r].x \in hist.missed

\* Nothing is newer than Stripe: rows, events, and states about to be written.
\* What was projected is still there, or was written over late.
Sold ==
    /\ now \in [Sale -> 0 .. Last] /\ row \in [Sale -> Nat]
    /\ \A s \in Sale : row[s] <= now[s]
    /\ \A s \in Sale : now[s] # 0 => EventOf(s, now[s]) \in sent \/ (s \in Payment /\ now[s] = 1)
    /\ \A e \in sent : e.x \in Sale => e.n \in 1 .. now[e.x]
    /\ \A e \in hist.applied : e.x \in Sale => e.n <= row[e.x] \/ e.x \in hist.late
    /\ \A r \in Req : req[r].pc \in Applying => req[r].n \in 1 .. now[req[r].x]
    /\ \A r \in Req : req[r].pc \in Buying => now[req[r].x] = 0
    /\ \A r, q \in Req : req[r].pc \in Buying /\ req[q].x = req[r].x => q = r

\* Two requests are never about x.
Alone(x) == \A r, q \in Req : req[r].x = x /\ req[q].x = x => q = r

\* One object for a row: it is made only while there is none, and its id stamped.
MadeOnce(x) ==
    \/ <<x, "copy">> \in hist.excused
    \/ /\ Alone(x)
       /\ Len(catalog[x]) <= 1
       /\ \A r \in Req : req[r].x = x /\ req[r].pc \in {"push", "parent"} => Len(catalog[x]) = 0
       /\ local[x].st = "none" => Len(catalog[x]) = 0
       /\ local[x].st = "kept" /\ local[x].id = 0 =>
            \/ Len(catalog[x]) = 0
            \/ \E r \in Req : req[r].x = x /\ req[r].pc = "stamp"

\* The object has the row's fields, but for an update under way; the row is the one
\* the request has seen, or written.
SameFields(x) ==
    \/ <<x, "fields">> \in hist.excused
    \/ /\ Alone(x)
       /\ \A r \in Req : req[r].x = x /\ local[x].st = "kept" =>
            /\ req[r].pc \in {"push", "parent", "reread"} => req[r].v = local[x].active
            /\ req[r].pc = "stamp" => catalog[x][req[r].n] = local[x].active
            /\ req[r].pc = "update" => req[r].n = local[x].id /\ req[r].v = local[x].active
       /\ local[x].id # 0 =>
            \/ catalog[x][local[x].id] = local[x].active
            \/ \E r \in Req : req[r].x = x /\ req[r].pc \in {"reread", "update"}

Kept == [st : {"none", "kept", "deleted"}, id : Nat, active : BOOLEAN]

Shelved ==
    /\ local \in [Item -> Kept] /\ catalog \in [Item -> Seq(BOOLEAN)]
    /\ \A x \in Item : local[x].id # 0 => local[x].st = "kept" /\ local[x].id \in DOMAIN catalog[x]
    /\ \A r \in Req : req[r].x \in Item => local[req[r].x].st # "none"
    /\ \A r \in Req : req[r].pc \in {"stamp", "update"} => req[r].n \in DOMAIN catalog[req[r].x]
    /\ \A x \in Item : MadeOnce(x) /\ SameFields(x)

\* Customer c keeps its email once it has a row: nobody is about to mirror it
\* without, for it had a row with the email before it had a subscription.
Steady(c) ==
    /\ \A r \in Req : req[r].pc = "mirror" => owner[req[r].x] # c
    /\ \/ cust[c] = "named"
       \/ /\ cust[c] = "none"
          /\ \A s \in Sale : owner[s] # c
          /\ \A r \in Req : req[r].pc = "create" => req[r].c # c

\* One customer for an email: it is made only while there is none.
OneCustomer ==
    \/ <<"customer", "copy">> \in hist.excused
    \/ /\ hist.made <= 1
       /\ \A r, q \in Making : q = r
       /\ \A r \in Req : req[r].pc = "newcustomer" => hist.made = 0
       /\ hist.made # 0 => \/ \E r \in Req : req[r].pc = "savecustomer"
                           \/ \E c \in DOMAIN cust : cust[c] = "named" /\ Steady(c)

Known ==
    /\ cust \in Seq({"none", "blank", "named"})
    /\ owner \in [Sale -> 0 .. Len(cust)]
    /\ \A r \in Req : req[r].c \in 0 .. Len(cust)
    /\ \A r \in Req : req[r].pc = "savecustomer" => req[r].c \in DOMAIN cust /\ Steady(req[r].c)
    /\ OneCustomer

IInv == Requests /\ hist \in History /\ Counted /\ Sold /\ Shelved /\ Known

USE StripeAssumption

-----------------------------------------------------------------------------
(* Sequences *)

\* Writing one row of a table.
LEMMA SeqSet ==
    ASSUME NEW S, NEW s \in Seq(S), NEW i \in DOMAIN s, NEW x \in S
    PROVE  /\ [s EXCEPT ![i] = x] \in Seq(S)
           /\ Len([s EXCEPT ![i] = x]) = Len(s)
           /\ DOMAIN [s EXCEPT ![i] = x] = DOMAIN s
           /\ [s EXCEPT ![i] = x][i] = x
           /\ \A j \in DOMAIN s : j # i => [s EXCEPT ![i] = x][j] = s[j]
<1>1. i \in 1 .. Len(s) /\ DOMAIN s = 1 .. Len(s)
    BY LenProperties
<1> QED
    BY <1>1, ExceptSeq

\* Adding one.
LEMMA SeqAdd ==
    ASSUME NEW S, NEW s \in Seq(S), NEW x \in S
    PROVE  /\ Append(s, x) \in Seq(S)
           /\ Len(Append(s, x)) = Len(s) + 1 /\ Len(s) \in Nat
           /\ DOMAIN s = 1 .. Len(s) /\ DOMAIN Append(s, x) = 1 .. (Len(s) + 1)
           /\ Append(s, x)[Len(s) + 1] = x
           /\ \A j \in DOMAIN s : Append(s, x)[j] = s[j]
<1>1. Len(s) \in Nat /\ DOMAIN s = 1 .. Len(s)
    BY LenProperties
<1>2. Append(s, x) \in Seq(S) /\ Len(Append(s, x)) = Len(s) + 1
    BY AppendProperties
<1>3. DOMAIN Append(s, x) = 1 .. (Len(s) + 1)
    BY <1>2, LenProperties
<1> QED
    BY <1>1, <1>2, <1>3, AppendProperties

-----------------------------------------------------------------------------
(* What a request keeps *)

\* A request that has not begun.
LEMMA IdleFields ==
    /\ Idle \in Local /\ Fit(Idle)
    /\ Idle.pc = "idle" /\ Idle.x = "none" /\ Idle.n = 0 /\ Idle.c = 0 /\ Idle.then = "idle"
<1>1. /\ Idle.pc = "idle" /\ Idle.x = "none" /\ Idle.n = 0 /\ Idle.c = 0 /\ Idle.then = "idle"
    BY DEF Idle
<1>2. Idle \in Local
    BY DEF Idle, Local, Statement, Return, Thing
<1>3. FitAt("idle", "none", "idle")
    BY DEF FitAt, Shelving, Buying
<1> QED
    BY <1>1, <1>2, <1>3 DEF Fit

\* The columns of a request.
LEMMA LocalFields ==
    ASSUME Requests, NEW r \in Req
    PROVE  /\ req \in [Req -> Local] /\ req[r] \in Local
           /\ req[r].pc \in Statement /\ req[r].x \in Thing /\ req[r].n \in Nat /\ req[r].c \in Nat
           /\ req[r].v \in BOOLEAN /\ req[r].then \in Return
           /\ FitAt(req[r].pc, req[r].x, req[r].then) /\ (req[r].pc = "idle" => req[r] = Idle)
<1>1. req \in [Req -> Local] /\ req[r] \in Local /\ Fit(req[r])
    BY DEF Requests
<1> QED
    BY <1>1 DEF Local, Fit

\* One request moves and the others stay where they are.
Moves(r) == \A q \in Req : q # r => req'[q] = req[q]

\* The requests after one of them has moved.
LEMMA ReqSet ==
    ASSUME Requests, NEW r \in Req, NEW x \in Local, Fit(x), req' = [req EXCEPT ![r] = x]
    PROVE  Requests' /\ req'[r] = x /\ Moves(r)
<1>1. req \in [Req -> Local]
    BY DEF Requests
<1>2. req' \in [Req -> Local] /\ req'[r] = x /\ \A q \in Req : q # r => req'[q] = req[q]
    BY <1>1
<1>3. \A q \in Req : Fit(req'[q])
    BY <1>2 DEF Requests
<1> QED
    BY <1>2, <1>3 DEF Requests, Moves

\* A request that ends.
LEMMA GoIdle ==
    ASSUME Requests, NEW r \in Req, Go(r, "idle")
    PROVE  Requests' /\ req'[r] = Idle /\ Moves(r)
BY ReqSet, IdleFields DEF Go

\* A request that goes on to another statement.
LEMMA GoOn ==
    ASSUME Requests, NEW r \in Req, NEW pc \in Statement, pc # "idle", Go(r, pc),
           FitAt(pc, req[r].x, req[r].then)
    PROVE  /\ Requests' /\ Moves(r)
           /\ req'[r].pc = pc /\ req'[r].x = req[r].x /\ req'[r].n = req[r].n /\ req'[r].c = req[r].c
           /\ req'[r].v = req[r].v /\ req'[r].then = req[r].then
<1> DEFINE x == [req[r] EXCEPT !.pc = pc]
<1>0. req \in [Req -> Local] /\ req[r] \in Local
    BY DEF Requests
<1>1. req' = [req EXCEPT ![r] = x]
    BY <1>0 DEF Go
<1>2. /\ x \in Local /\ x.pc = pc /\ x.x = req[r].x /\ x.n = req[r].n /\ x.c = req[r].c
      /\ x.v = req[r].v /\ x.then = req[r].then
    BY <1>0 DEF Local
<1> HIDE DEF x
<1>3. Fit(x)
    BY <1>2 DEF Fit
<1> QED
    BY <1>1, <1>2, <1>3, ReqSet

\* The locals of a request that begins.
Started(pc, x, n, v, then) == [pc |-> pc, x |-> x, n |-> n, c |-> 0, v |-> v, then |-> then]

\* Begin leaves the other locals as they are in Idle.
LEMMA BeginPlain ==
    ASSUME NEW pc, NEW x
    PROVE  \E b \in BOOLEAN : Begin(pc, x) = Started(pc, x, 0, b, "idle")
<1>1. PICK b \in BOOLEAN : Idle = Started("idle", "none", 0, b, "idle")
    <2>1. PICK b \in BOOLEAN : b = FALSE
        OBVIOUS
    <2>2. Idle = Started("idle", "none", 0, b, "idle")
        BY <2>1 DEF Idle, Started
    <2> QED
        BY <2>2
<1>2. /\ [Started("idle", "none", 0, b, "idle") EXCEPT !.pc = pc] = Started(pc, "none", 0, b, "idle")
      /\ [Started(pc, "none", 0, b, "idle") EXCEPT !.x = x] = Started(pc, x, 0, b, "idle")
    BY DEF Started
<1>3. Begin(pc, x) = [[Idle EXCEPT !.pc = pc] EXCEPT !.x = x]
    BY DEF Begin
<1>4. Begin(pc, x) = Started(pc, x, 0, b, "idle")
    BY <1>1, <1>2, <1>3
<1> QED
    BY <1>4

\* Nor is any other local set than is said.
LEMMA BeginIs ==
    ASSUME NEW pc, NEW x, NEW n, NEW v \in BOOLEAN, NEW then
    PROVE  \E b \in BOOLEAN :
             /\ [Begin(pc, x) EXCEPT !.n = n] = Started(pc, x, n, b, "idle")
             /\ [Begin(pc, x) EXCEPT !.v = v] = Started(pc, x, 0, v, "idle")
             /\ [Begin(pc, x) EXCEPT !.v = v, !.then = then] = Started(pc, x, 0, v, then)
             /\ [Begin(pc, x) EXCEPT !.n = n, !.then = then] = Started(pc, x, n, b, then)
<1>4. PICK b \in BOOLEAN : Begin(pc, x) = Started(pc, x, 0, b, "idle")
    BY BeginPlain
<1>5. [Begin(pc, x) EXCEPT !.n = n] = Started(pc, x, n, b, "idle")
    BY <1>4 DEF Started
<1>6. [Begin(pc, x) EXCEPT !.v = v] = Started(pc, x, 0, v, "idle")
    BY <1>4 DEF Started
<1>7. /\ [Started(pc, x, 0, v, "idle") EXCEPT !.then = then] = Started(pc, x, 0, v, then)
      /\ [Started(pc, x, n, b, "idle") EXCEPT !.then = then] = Started(pc, x, n, b, then)
    BY DEF Started
<1>8. /\ [Begin(pc, x) EXCEPT !.v = v, !.then = then] = [[Begin(pc, x) EXCEPT !.v = v] EXCEPT !.then = then]
      /\ [Begin(pc, x) EXCEPT !.n = n, !.then = then] = [[Begin(pc, x) EXCEPT !.n = n] EXCEPT !.then = then]
    OBVIOUS
<1>9. [Begin(pc, x) EXCEPT !.v = v, !.then = then] = Started(pc, x, 0, v, then)
    BY <1>6, <1>7, <1>8
<1>10. [Begin(pc, x) EXCEPT !.n = n, !.then = then] = Started(pc, x, n, b, then)
    BY <1>5, <1>7, <1>8
<1> QED
    BY <1>5, <1>6, <1>9, <1>10

\* A request that begins.
LEMMA BeginFields ==
    ASSUME NEW pc \in Statement, NEW x \in Thing, NEW n \in Nat, NEW v \in BOOLEAN, NEW then \in Return,
           pc # "idle", FitAt(pc, x, then), NEW y, y = Started(pc, x, n, v, then)
    PROVE  /\ y \in Local /\ Fit(y)
           /\ y.pc = pc /\ y.x = x /\ y.n = n /\ y.c = 0 /\ y.v = v /\ y.then = then
<1>1. y \in Local /\ y.pc = pc /\ y.x = x /\ y.n = n /\ y.c = 0 /\ y.v = v /\ y.then = then
    BY DEF Started, Local
<1> QED
    BY <1>1 DEF Fit

-----------------------------------------------------------------------------
(* History *)

\* The history's fields.
LEMMA HistFields ==
    ASSUME hist \in History
    PROVE  /\ hist.made \in Nat /\ hist.applied \in SUBSET Event /\ hist.again \in SUBSET Event
           /\ hist.late \in SUBSET Sale /\ hist.missed \in SUBSET Sale
           /\ hist.excused \in SUBSET (Thing \X {"copy", "fields"})
BY DEF History

\* Nothing but excuses changes.
OnlyExcuses ==
    /\ hist' \in History
    /\ hist'.made = hist.made /\ hist'.applied = hist.applied /\ hist'.again = hist.again
    /\ hist'.late = hist.late /\ hist'.missed = hist.missed /\ hist.excused \subseteq hist'.excused

\* An excuse is recorded.
LEMMA ExcuseFields ==
    ASSUME hist \in History, NEW why \in SUBSET (Thing \X {"copy", "fields"}), Excuse(why)
    PROVE  OnlyExcuses /\ hist'.excused = hist.excused \cup why
<1>1. PICK e \in SUBSET (Thing \X {"copy", "fields"}) : e = hist.excused \cup why
    BY HistFields
<1>2. hist' = [hist EXCEPT !.excused = e]
    BY <1>1 DEF Excuse
<1>3. /\ hist' \in History /\ hist'.made = hist.made /\ hist'.applied = hist.applied
      /\ hist'.again = hist.again /\ hist'.late = hist.late /\ hist'.missed = hist.missed
      /\ hist'.excused = e
    BY <1>2 DEF History
<1> QED
    BY <1>1, <1>3 DEF OnlyExcuses

\* No history at all.
LEMMA SameHist == ASSUME hist \in History, hist' = hist PROVE OnlyExcuses
BY DEF OnlyExcuses

\* Two requests about x excuse copies and fields of x.
LEMMA OverlapFields ==
    ASSUME NEW r \in Req, NEW x \in Thing
    PROVE  /\ Overlap(r, x) \in SUBSET (Thing \X {"copy", "fields"})
           /\ \/ \A q \in Req : req[q].x = x => q = r
              \/ <<x, "copy">> \in Overlap(r, x) /\ <<x, "fields">> \in Overlap(r, x)
BY DEF Overlap

-----------------------------------------------------------------------------
(* Calm steps *)

\* A part is about tables and the requests that are about to write to them.  A
\* step that leaves the tables alone and sends nobody there keeps it.
CountedCalm ==
    /\ UNCHANGED <<log, answered>> /\ sent' \subseteq Event
    /\ hist'.applied = hist.applied /\ hist'.again = hist.again /\ hist'.missed = hist.missed
    /\ \A q \in Req : Dispatching(q)' =>
         /\ Dispatching(q) /\ req'[q].x = req[q].x /\ req'[q].n = req[q].n
         /\ req'[q].pc = "mark" <=> req[q].pc = "mark"

SoldCalm ==
    /\ UNCHANGED <<now, row>>
    /\ sent \subseteq sent' /\ \A e \in sent' \ sent : e.x \notin Sale
    /\ \A e \in hist'.applied \ hist.applied : e.x \notin Sale
    /\ hist.late \subseteq hist'.late
    /\ \A q \in Req : req'[q].pc \in Applying =>
         req[q].pc \in Applying /\ req'[q].x = req[q].x /\ req'[q].n = req[q].n
    /\ \A q \in Req : req'[q].pc \in Buying => req[q].pc \in Buying
    /\ \A q \in Req : req'[q].x = req[q].x \/ req'[q].x \notin Sale

ShelvedCalm ==
    /\ UNCHANGED <<local, catalog>>
    /\ hist.excused \subseteq hist'.excused
    /\ \A q \in Req : req[q].x \in Item \/ req'[q].x \in Item => req'[q] = req[q]

KnownCalm ==
    /\ UNCHANGED <<cust, owner>>
    /\ hist'.made = hist.made /\ hist.excused \subseteq hist'.excused
    /\ \A q \in Req : req'[q].pc \in {"newcustomer", "savecustomer", "create", "mirror"} => req'[q] = req[q]
    /\ \A q \in Req : req[q].pc = "savecustomer" => req'[q] = req[q]
    /\ \A q \in Req : req'[q].c = req[q].c \/ req'[q].c = 0

\* A request about to mark an event is handling it.
LEMMA MarkDispatches ==
    ASSUME Requests, NEW r \in Req, req[r].pc = "mark" PROVE Dispatching(r)
<1>1. FitAt(req[r].pc, req[r].x, req[r].then)
    BY LocalFields
<1> QED
    BY <1>1 DEF FitAt, Dispatching

\* No event.
LEMMA CountedStays == ASSUME Requests', Counted, CountedCalm PROVE Counted'
<1>1. \A r \in Req : Dispatching(r)' => Dispatching(r) /\ Handled(r)' = Handled(r)
    BY DEF CountedCalm, Handled, EventOf
<1>2. \A r \in Req : req'[r].pc = "mark" => Dispatching(r)'
    BY MarkDispatches DEF Requests, Dispatching, Fit, FitAt
<1>3. EventCountsOnce'
    BY DEF CountedCalm, Counted, EventCountsOnce
<1>4. \A r \in Req : Dispatching(r)' => Handled(r)' \in DOMAIN log
    BY <1>1 DEF Counted
<1>5. \A r, q \in Req : Dispatching(r)' /\ Dispatching(q)' /\ Handled(q)' = Handled(r)' => q = r
    BY <1>1 DEF Counted
<1>6. \A r \in Req : Dispatching(r)' /\ req'[r].pc # "mark" => Handled(r)' \notin hist.applied
    BY <1>1 DEF Counted, CountedCalm
<1>7. \A r \in Req : req'[r].pc = "mark" => Handled(r)' \in hist.applied \/ req'[r].x \in hist.missed
    BY <1>1, <1>2 DEF Counted, CountedCalm
<1>8. hist.applied \subseteq DOMAIN log
    BY DEF Counted
<1> QED
    BY <1>3, <1>4, <1>5, <1>6, <1>7, <1>8 DEF Counted, CountedCalm

\* What a request is buying.
LEMMA BuyingFields ==
    ASSUME Requests, NEW r \in Req, req[r].pc \in Buying
    PROVE  req[r].x \in Sale /\ req[r].then = "idle"
<1>1. FitAt(req[r].pc, req[r].x, req[r].then)
    BY LocalFields
<1> QED
    BY <1>1 DEF FitAt

\* No sale.
LEMMA SoldStays == ASSUME Requests', Sold, SoldCalm PROVE Sold'
<1>1. \A r \in Req : req'[r].pc \in Buying => req'[r].x \in Sale
    BY DEF Requests, Fit, FitAt
<1>2. \A r \in Req : req'[r].pc \in Applying => req'[r].n \in 1 .. now[req'[r].x]
    BY DEF Sold, SoldCalm
<1>3. \A r \in Req : req'[r].pc \in Buying => now[req'[r].x] = 0
    BY <1>1 DEF Sold, SoldCalm
<1>4. \A r, q \in Req : req'[r].pc \in Buying /\ req'[q].x = req'[r].x => q = r
    BY <1>1 DEF Sold, SoldCalm
<1>5. \A e \in sent' : e.x \in Sale => e.n \in 1 .. now[e.x]
    BY DEF Sold, SoldCalm
<1>6. \A e \in hist'.applied : e.x \in Sale => e.n <= row[e.x] \/ e.x \in hist'.late
    BY DEF Sold, SoldCalm
<1>7. \A s \in Sale : now[s] # 0 => EventOf(s, now[s]) \in sent' \/ (s \in Payment /\ now[s] = 1)
    BY DEF Sold, SoldCalm
<1>8. now' = now /\ row' = row
    BY DEF SoldCalm
<1>9. now \in [Sale -> 0 .. Last] /\ row \in [Sale -> Nat] /\ \A s \in Sale : row[s] <= now[s]
    BY DEF Sold
<1> QED
    BY <1>2, <1>3, <1>4, <1>5, <1>6, <1>7, <1>8, <1>9 DEF Sold, EventOf

\* What a request about an item is about.
LEMMA ShelvingFields ==
    ASSUME Requests, NEW r \in Req, req[r].pc \in Shelving
    PROVE  req[r].x \in Item /\ req[r].then \in {"idle", "prices"}
<1>1. FitAt(req[r].pc, req[r].x, req[r].then) /\ req[r].then \in Return
    BY LocalFields
<1> QED
    BY <1>1 DEF FitAt, Return

\* No item.
LEMMA ShelvedStays == ASSUME Requests', Shelved, ShelvedCalm PROVE Shelved'
<1>1. \A r \in Req : req'[r].pc \in {"stamp", "update"} => req'[r].x \in Item
    BY DEF Requests, Fit, FitAt, Shelving
<1>2. \A r \in Req : req'[r].x \in Item => local[req'[r].x].st # "none"
    BY DEF Shelved, ShelvedCalm
<1>3. \A r \in Req : req'[r].pc \in {"stamp", "update"} => req'[r].n \in DOMAIN catalog[req'[r].x]
    BY <1>1 DEF Shelved, ShelvedCalm
<1>4. ASSUME NEW x \in Item PROVE MadeOnce(x)' /\ SameFields(x)'
    <2>1. MadeOnce(x) /\ SameFields(x)
        BY DEF Shelved
    <2>2. \A r \in Req : req[r].x = x \/ req'[r].x = x => req'[r] = req[r]
        BY DEF ShelvedCalm
    <2>3. local' = local /\ catalog' = catalog /\ hist.excused \subseteq hist'.excused
        BY DEF ShelvedCalm
    <2>4. Alone(x) => Alone(x)'
        BY <2>2 DEF Alone
    <2>5. MadeOnce(x)'
        BY <2>1, <2>2, <2>3, <2>4 DEF MadeOnce
    <2>6. SameFields(x)'
        BY <2>1, <2>2, <2>3, <2>4 DEF SameFields
    <2> QED
        BY <2>5, <2>6
<1>5. local' = local /\ catalog' = catalog
    BY DEF ShelvedCalm
<1> QED
    BY <1>2, <1>3, <1>4, <1>5 DEF Shelved

\* A customer that is steady stays so.
LEMMA SteadyStays ==
    ASSUME NEW c, cust' = cust, owner' = owner, Steady(c),
           \A q \in Req : req'[q].pc \in {"create", "mirror"} => req'[q] = req[q]
    PROVE  Steady(c)'
BY DEF Steady

\* No customer.
LEMMA KnownStays == ASSUME Known, KnownCalm PROVE Known'
<1>1. cust' = cust /\ owner' = owner /\ hist'.made = hist.made /\ hist.excused \subseteq hist'.excused
    BY DEF KnownCalm
<1>2. \A q \in Req : req'[q].pc \in {"create", "mirror"} => req'[q] = req[q]
    BY DEF KnownCalm
<1>3. \A c : Steady(c) => Steady(c)'
    BY <1>1, <1>2, SteadyStays
<1>4. ASSUME NEW r \in Req, req'[r].pc = "savecustomer"
      PROVE  req'[r].c \in DOMAIN cust' /\ Steady(req[r].c)' /\ req'[r].c = req[r].c
    <2>1. req'[r] = req[r]
        BY <1>4 DEF KnownCalm
    <2>2. PICK c : c = req[r].c
        OBVIOUS
    <2>3. c \in DOMAIN cust /\ Steady(c)
        BY <1>4, <2>1, <2>2 DEF Known
    <2>4. Steady(c)'
        BY <1>3, <2>3
    <2> QED
        BY <1>1, <2>1, <2>2, <2>3, <2>4
<1>5. OneCustomer'
    <2>1. CASE <<"customer", "copy">> \in hist.excused
        BY <1>1, <2>1 DEF OneCustomer
    <2>2. CASE <<"customer", "copy">> \notin hist.excused
        <3>1. /\ hist.made <= 1
              /\ \A r, q \in Making : q = r
              /\ \A r \in Req : req[r].pc = "newcustomer" => hist.made = 0
              /\ hist.made # 0 => \/ \E r \in Req : req[r].pc = "savecustomer"
                                  \/ \E c \in DOMAIN cust : cust[c] = "named" /\ Steady(c)
            BY <2>2 DEF Known, OneCustomer
        <3>2. \A r, q \in Making' : q = r
            BY <3>1 DEF Making, KnownCalm
        <3>3. \A r \in Req : req'[r].pc = "newcustomer" => hist.made = 0
            BY <3>1 DEF KnownCalm
        <3>4. (\E r \in Req : req[r].pc = "savecustomer") => \E r \in Req : req'[r].pc = "savecustomer"
            BY DEF KnownCalm
        <3>5. (\E c \in DOMAIN cust : cust[c] = "named" /\ Steady(c))
                => \E c \in DOMAIN cust' : cust'[c] = "named" /\ Steady(c)'
            BY <1>1, <1>3
        <3> QED
            BY <1>1, <3>1, <3>2, <3>3, <3>4, <3>5 DEF OneCustomer
    <2> QED
        BY <2>1, <2>2
<1>6. Len(cust) \in Nat
    BY LenProperties DEF Known
<1>7. \A r \in Req : req'[r].c \in 0 .. Len(cust)
    BY <1>6 DEF Known, KnownCalm
<1>8. cust \in Seq({"none", "blank", "named"}) /\ owner \in [Sale -> 0 .. Len(cust)]
    BY DEF Known
<1> QED
    BY <1>1, <1>4, <1>5, <1>7, <1>8 DEF Known

-----------------------------------------------------------------------------
(* Steps about the catalog *)

\* A step about the catalog leaves the other parts alone.
LEMMA CatalogOnly ==
    ASSUME IInv, Requests', OnlyExcuses, NEW r \in Req, Moves(r),
           UNCHANGED <<cust, row, now, owner, sent, answered, log>>,
           req[r].pc # "savecustomer",
           req'[r].pc \in Shelving \cup {"idle", "prices"},
           req'[r].then # "mark", req'[r].x \notin Sale, req'[r].c \in {0, req[r].c}
    PROVE  Counted' /\ Sold' /\ Known'
<1>1. CountedCalm
    BY DEF CountedCalm, OnlyExcuses, Moves, Dispatching, IInv, Counted
<1>2. SoldCalm
    BY DEF SoldCalm, OnlyExcuses, Moves, IInv, Applying, Buying, Shelving
<1>3. KnownCalm
    BY DEF KnownCalm, OnlyExcuses, Moves, Shelving
<1> QED
    BY <1>1, <1>2, <1>3, CountedStays, SoldStays, KnownStays DEF IInv

\* No request about the item begins, none that makes or changes it ends.
ItemCalm(x) ==
    /\ local'[x] = local[x] /\ catalog'[x] = catalog[x]
    /\ \A q \in Req : req'[q].x = x => req'[q] = req[q]
    /\ \A q \in Req : req[q].x = x /\ req[q].pc \in {"stamp", "reread", "update"} => req'[q] = req[q]

\* Such an item stays as it was.
LEMMA ItemStays ==
    ASSUME NEW x, MadeOnce(x), SameFields(x), ItemCalm(x), hist.excused \subseteq hist'.excused
    PROVE  MadeOnce(x)' /\ SameFields(x)'
<1>1. /\ local'[x] = local[x] /\ catalog'[x] = catalog[x]
      /\ \A q \in Req : req'[q].x = x => req'[q] = req[q]
      /\ \A q \in Req : req[q].x = x /\ req[q].pc \in {"stamp", "reread", "update"} => req'[q] = req[q]
    BY DEF ItemCalm
<1>2. Alone(x) => Alone(x)'
    BY <1>1 DEF Alone
<1>3. MadeOnce(x)'
    BY <1>1, <1>2 DEF MadeOnce
<1>4. SameFields(x)'
    BY <1>1, <1>2 DEF SameFields
<1> QED
    BY <1>3, <1>4

\* The catalog after a step about item x: the other item is calm.
LEMMA ShelvedAt ==
    ASSUME Shelved, Requests', NEW r \in Req, NEW x \in Item, Moves(r),
           hist.excused \subseteq hist'.excused,
           local' \in [Item -> Kept], catalog' \in [Item -> Seq(BOOLEAN)],
           \A y \in Item : y # x => ItemCalm(y),
           local'[x].id # 0 => local'[x].st = "kept" /\ local'[x].id \in DOMAIN catalog'[x],
           local[x].st # "none" => local'[x].st # "none",
           DOMAIN catalog[x] \subseteq DOMAIN catalog'[x],
           req'[r].x \in Item => req'[r].x = x \/ req'[r].x = req[r].x,
           req'[r].x = x => local'[x].st # "none",
           req'[r].pc \in {"stamp", "update"} => req'[r].x = x /\ req'[r].n \in DOMAIN catalog'[x],
           MadeOnce(x)', SameFields(x)'
    PROVE  Shelved'
<1>1. \A y \in Item : y # x => local'[y] = local[y] /\ catalog'[y] = catalog[y]
    BY DEF ItemCalm
<1>2. \A y \in Item : local'[y].id # 0 => local'[y].st = "kept" /\ local'[y].id \in DOMAIN catalog'[y]
    BY <1>1 DEF Shelved
<1>3. \A q \in Req : req'[q].x \in Item => local'[req'[q].x].st # "none"
    <2> SUFFICES ASSUME NEW q \in Req, req'[q].x \in Item PROVE local'[req'[q].x].st # "none"
        OBVIOUS
    <2>1. CASE q = r
        BY <1>1, <2>1 DEF Shelved
    <2>2. CASE q # r
        <3>1. req'[q] = req[q] /\ req[q].x \in Item /\ local[req[q].x].st # "none"
            BY <2>2 DEF Shelved, Moves
        <3>2. CASE req[q].x = x
            BY <3>1, <3>2
        <3>3. CASE req[q].x # x
            BY <1>1, <3>1, <3>3
        <3> QED
            BY <3>2, <3>3
    <2> QED
        BY <2>1, <2>2
<1>4. \A q \in Req : req'[q].pc \in {"stamp", "update"} => req'[q].n \in DOMAIN catalog'[req'[q].x]
    <2> SUFFICES ASSUME NEW q \in Req, req'[q].pc \in {"stamp", "update"}
                 PROVE  req'[q].n \in DOMAIN catalog'[req'[q].x]
        OBVIOUS
    <2>1. CASE q = r
        BY <2>1
    <2>2. CASE q # r
        <3>1. req'[q] = req[q] /\ req[q].x \in Item
            BY <2>2 DEF Moves, Requests, Fit, FitAt, Shelving
        <3>2. req[q].n \in DOMAIN catalog[req[q].x]
            BY <3>1 DEF Shelved
        <3> QED
            BY <1>1, <3>1, <3>2
    <2> QED
        BY <2>1, <2>2
<1>5. ASSUME NEW y \in Item PROVE MadeOnce(y)' /\ SameFields(y)'
    <2>1. CASE y = x
        BY <2>1
    <2>2. CASE y # x
        BY <2>2, ItemStays DEF Shelved
    <2> QED
        BY <2>1, <2>2
<1> QED
    BY <1>2, <1>3, <1>4, <1>5 DEF Shelved

\* A request that begins work on an item.
LEMMA BeginItem ==
    ASSUME Requests, NEW r \in Req, NEW x \in Item, NEW pc \in Shelving, NEW v \in BOOLEAN,
           NEW then \in {"idle", "prices"}, NEW y, y = Started(pc, x, 0, v, then), req' = [req EXCEPT ![r] = y]
    PROVE  /\ Requests' /\ Moves(r)
           /\ req'[r].pc = pc /\ req'[r].x = x /\ req'[r].n = 0 /\ req'[r].c = 0 /\ req'[r].v = v
           /\ req'[r].then = then
<1>1. pc \in Statement /\ pc # "idle" /\ x \in Thing /\ then \in Return /\ 0 \in Nat
    BY DEF Statement, Thing, Return, Shelving
<1>2. FitAt(pc, x, then)
    BY DEF FitAt, Shelving, Buying
<1>4. y \in Local /\ Fit(y) /\ y.pc = pc /\ y.x = x /\ y.n = 0 /\ y.c = 0 /\ y.v = v /\ y.then = then
    BY <1>1, <1>2, BeginFields
<1>5. Requests' /\ req'[r] = y /\ Moves(r)
    BY <1>4, ReqSet
<1> QED
    BY <1>4, <1>5

\* A row is created, and pushed.
LEMMA CreateRowStep ==
    ASSUME IInv, NEW r \in Req, NEW x \in Item, NEW on \in BOOLEAN, CreateRow(r, x, on) PROVE IInv'
<1>0. /\ Requests /\ hist \in History /\ Shelved
      /\ local \in [Item -> Kept] /\ catalog \in [Item -> Seq(BOOLEAN)]
      /\ x \in Thing /\ x # "none" /\ x \notin Sale
    BY DEF IInv, Shelved, Thing, Item
<1>1. \A q \in Req : req[q].x # x
    BY DEF CreateRow, IInv, Shelved
<1>2. /\ local' = [local EXCEPT ![x] = [st |-> "kept", id |-> 0, active |-> on]]
      /\ catalog' = catalog /\ req[r] = Idle /\ local[x].st = "none"
      /\ UNCHANGED <<cust, row, now, owner, sent, answered, log>>
    BY DEF CreateRow, mirror, sales, events
<1>3. /\ local' \in [Item -> Kept] /\ local'[x].st = "kept" /\ local'[x].id = 0
      /\ local'[x].active = on /\ \A y \in Item : y # x => local'[y] = local[y]
    BY <1>0, <1>2 DEF Kept
<1>4. /\ OnlyExcuses /\ Requests' /\ Moves(r)
      /\ req'[r].pc \in {"idle", "push"} /\ req'[r].then = "idle" /\ req'[r].c = 0
      /\ req'[r].x \in {x, "none"} /\ (req'[r].x = x => req'[r].v = on)
    <2>1. CASE ready /\ (x = "price" => local["product"].id # 0)
        <3>1. req' = [req EXCEPT ![r] = [Begin("push", x) EXCEPT !.v = on]] /\ Excuse(Overlap(r, x))
            BY <2>1 DEF CreateRow
        <3>2. PICK pc \in Shelving, th \in {"idle", "prices"} : pc = "push" /\ th = "idle"
            BY DEF Shelving
        <3>3. [Begin(pc, x) EXCEPT !.v = on] = Started(pc, x, 0, on, th)
            <4>1. [Begin("push", x) EXCEPT !.v = on] = Started("push", x, 0, on, "idle")
                BY BeginPlain DEF Started
            <4> QED
                BY <3>2, <4>1
        <3>4. PICK y : y = Started(pc, x, 0, on, th) /\ req' = [req EXCEPT ![r] = y]
            BY <3>1, <3>2, <3>3
        <3>5. /\ Requests' /\ Moves(r) /\ req'[r].pc = pc /\ req'[r].x = x /\ req'[r].c = 0
              /\ req'[r].v = on /\ req'[r].then = th
            <4>1. Requests
                BY <1>0
            <4> QED
                BY <3>4, <4>1, BeginItem
        <3>6. OnlyExcuses
            BY <1>0, <3>1, ExcuseFields, OverlapFields
        <3> QED
            BY <3>2, <3>5, <3>6
    <2>2. CASE ~(ready /\ (x = "price" => local["product"].id # 0))
        <3>1. req' = req /\ hist' = hist
            BY <2>2 DEF CreateRow
        <3> QED
            BY <1>0, <1>2, <3>1, SameHist, IdleFields DEF Moves, Requests
    <2> QED
        BY <2>1, <2>2
<1>5. hist.excused \subseteq hist'.excused /\ hist' \in History
    BY <1>4 DEF OnlyExcuses
<1>6. \A q \in Req : req'[q].x = x => q = r
    BY <1>1, <1>4 DEF Moves
<1>7. Alone(x)'
    BY <1>6 DEF Alone
<1>8. MadeOnce(x)'
    <2>1. <<x, "copy">> \in hist.excused \/ Len(catalog[x]) = 0
        BY <1>0, <1>2 DEF Shelved, MadeOnce
    <2> QED
        BY <1>2, <1>3, <1>5, <1>7, <2>1 DEF MadeOnce
<1>9. SameFields(x)'
    BY <1>3, <1>4, <1>6, <1>7 DEF SameFields
<1>10. \A y \in Item : y # x => ItemCalm(y)
    BY <1>2, <1>3, <1>4, IdleFields DEF ItemCalm, Moves, Item
<1>11. Shelved'
    BY <1>0, <1>2, <1>3, <1>4, <1>5, <1>8, <1>9, <1>10, ShelvedAt DEF Item
<1>12. /\ req[r].pc # "savecustomer" /\ req'[r].pc \in Shelving \cup {"idle", "prices"}
       /\ req'[r].then # "mark" /\ req'[r].x \notin Sale /\ req'[r].c \in {0, req[r].c}
    BY <1>0, <1>2, <1>4, IdleFields DEF Shelving
<1>13. Counted' /\ Sold' /\ Known'
    BY <1>2, <1>4, <1>12, CatalogOnly
<1> QED
    BY <1>4, <1>5, <1>11, <1>13 DEF IInv

\* A request that begins is alone, or excused.
LEMMA BeginExcused ==
    ASSUME hist \in History, NEW r \in Req, NEW x \in Item, Excuse(Overlap(r, x))
    PROVE  /\ OnlyExcuses /\ hist' \in History /\ hist.excused \subseteq hist'.excused
           /\ \/ \A q \in Req : req[q].x = x => q = r
              \/ <<x, "copy">> \in hist'.excused /\ <<x, "fields">> \in hist'.excused
<1>1. x \in Thing
    BY DEF Thing
<1>2. OnlyExcuses /\ hist'.excused = hist.excused \cup Overlap(r, x)
    BY <1>1, OverlapFields, ExcuseFields
<1> QED
    BY <1>1, <1>2, OverlapFields DEF OnlyExcuses

\* A row is changed.
LEMMA UpdateRowStep ==
    ASSUME IInv, NEW r \in Req, NEW x \in Item, NEW on \in BOOLEAN, UpdateRow(r, x, on) PROVE IInv'
<1>0. /\ Requests /\ hist \in History /\ Shelved
      /\ local \in [Item -> Kept] /\ catalog \in [Item -> Seq(BOOLEAN)]
      /\ x \in Thing /\ x # "none" /\ x \notin Sale
    BY DEF IInv, Shelved, Thing, Item
<1>2. /\ local' = [local EXCEPT ![x].active = on]
      /\ catalog' = catalog /\ req[r] = Idle /\ local[x].st = "kept" /\ Excuse(Overlap(r, x))
      /\ UNCHANGED <<cust, row, now, owner, sent, answered, log>>
      /\ req' = [req EXCEPT ![r] = [Begin("reread", x) EXCEPT !.v = on]]
    BY DEF UpdateRow, mirror, sales, events
<1>3. /\ local' \in [Item -> Kept] /\ local'[x].st = "kept" /\ local'[x].id = local[x].id
      /\ local'[x].active = on /\ \A y \in Item : y # x => local'[y] = local[y]
    <2>1. PICK b \in BOOLEAN : b = on
        OBVIOUS
    <2>2. local' = [local EXCEPT ![x] = [local[x] EXCEPT !.active = b]]
        BY <1>0, <1>2, <2>1
    <2>0. PICK k : k = [local[x] EXCEPT !.active = b]
        OBVIOUS
    <2>3. k \in Kept /\ k.st = local[x].st /\ k.id = local[x].id /\ k.active = on
        BY <1>0, <2>0, <2>1 DEF Kept
    <2>4. k.st = "kept" /\ local' = [local EXCEPT ![x] = k]
        BY <1>2, <2>0, <2>2, <2>3
    <2> QED
        BY <1>0, <2>3, <2>4
<1>4. /\ Requests' /\ Moves(r)
      /\ req'[r].pc = "reread" /\ req'[r].then = "idle" /\ req'[r].c = 0 /\ req'[r].x = x /\ req'[r].v = on
    <2>1. PICK b \in BOOLEAN : b = on /\ [Begin("reread", x) EXCEPT !.v = on] = Started("reread", x, 0, b, "idle")
        BY BeginIs
    <2>2. PICK pc \in Shelving, th \in {"idle", "prices"} : pc = "reread" /\ th = "idle"
        BY DEF Shelving
    <2>3. PICK y : y = Started(pc, x, 0, b, th) /\ req' = [req EXCEPT ![r] = y]
        BY <1>2, <2>1, <2>2
    <2>4. /\ Requests' /\ Moves(r) /\ req'[r].pc = pc /\ req'[r].then = th /\ req'[r].c = 0 /\ req'[r].x = x
          /\ req'[r].v = b
        <3>1. Requests
            BY <1>0
        <3> QED
            BY <2>3, <3>1, BeginItem
    <2> QED
        BY <2>1, <2>2, <2>4
<1>5. /\ OnlyExcuses /\ hist' \in History /\ hist.excused \subseteq hist'.excused
      /\ \/ \A q \in Req : req[q].x = x => q = r
         \/ <<x, "copy">> \in hist'.excused /\ <<x, "fields">> \in hist'.excused
    BY <1>0, <1>2, BeginExcused
<1>6. MadeOnce(x)' /\ SameFields(x)'
    <2>1. CASE <<x, "copy">> \in hist'.excused /\ <<x, "fields">> \in hist'.excused
        BY <2>1 DEF MadeOnce, SameFields
    <2>2. CASE \A q \in Req : req[q].x = x => q = r
        <3>1. \A q \in Req : req[q].x # x
            BY <1>0, <1>2, <2>2, IdleFields
        <3>2. \A q \in Req : req'[q].x = x => q = r
            BY <1>4, <3>1 DEF Moves
        <3>3. Alone(x)'
            BY <3>2 DEF Alone
        <3>4. <<x, "copy">> \in hist.excused \/ (Len(catalog[x]) <= 1 /\ (local[x].id = 0 => Len(catalog[x]) = 0))
            BY <1>0, <1>2, <3>1 DEF Shelved, MadeOnce
        <3>5. MadeOnce(x)'
            BY <1>2, <1>3, <1>4, <1>5, <3>2, <3>3, <3>4 DEF MadeOnce
        <3>6. SameFields(x)'
            BY <1>3, <1>4, <3>2, <3>3 DEF SameFields
        <3> QED
            BY <3>5, <3>6
    <2> QED
        BY <1>5, <2>1, <2>2
<1>10. \A y \in Item : y # x => ItemCalm(y)
    BY <1>2, <1>3, <1>4, IdleFields DEF ItemCalm, Moves, Item
<1>11. Shelved'
    <2>1. local'[x].id # 0 => local'[x].st = "kept" /\ local'[x].id \in DOMAIN catalog'[x]
        BY <1>0, <1>2, <1>3 DEF Shelved
    <2> QED
        BY <1>0, <1>2, <1>3, <1>4, <1>5, <1>6, <1>10, <2>1, ShelvedAt
<1>12. /\ req[r].pc # "savecustomer" /\ req'[r].pc \in Shelving \cup {"idle", "prices"}
       /\ req'[r].then # "mark" /\ req'[r].x \notin Sale /\ req'[r].c \in {0, req[r].c}
    BY <1>0, <1>2, <1>4, IdleFields DEF Shelving
<1>13. Counted' /\ Sold' /\ Known'
    BY <1>2, <1>4, <1>5, <1>12, CatalogOnly
<1> QED
    BY <1>4, <1>5, <1>11, <1>13 DEF IInv

\* A row without an id is about to be pushed.
LEMMA BeginPush ==
    ASSUME IInv, NEW r \in Req, NEW x \in Item, NEW pc \in {"push", "parent"}, NEW then \in {"idle", "prices"},
           req[r].pc \in {"idle", "prices"}, local[x].st = "kept", local[x].id = 0,
           NEW v \in BOOLEAN, v = local[x].active,
           NEW y, y = Started(pc, x, 0, v, then), req' = [req EXCEPT ![r] = y],
           Excuse(Overlap(r, x)),
           UNCHANGED <<local, catalog, cust, row, now, owner, sent, answered, log>>
    PROVE  IInv'
<1>0. /\ Requests /\ hist \in History /\ Shelved
      /\ local \in [Item -> Kept] /\ catalog \in [Item -> Seq(BOOLEAN)]
      /\ x \in Thing /\ x # "none" /\ x \notin Sale
    BY DEF IInv, Shelved, Thing, Item
<1>4. /\ Requests' /\ Moves(r) /\ req'[r].pc = pc /\ req'[r].x = x /\ req'[r].c = 0
      /\ req'[r].v = local[x].active /\ req'[r].then = then
    <2>3. pc \in Shelving
        BY DEF Shelving
    <2>4. /\ Requests' /\ Moves(r) /\ req'[r].pc = pc /\ req'[r].x = x /\ req'[r].c = 0
          /\ req'[r].v = v /\ req'[r].then = then
        <3>1. y \in Local /\ Fit(y)
            BY <1>0, <2>3, BeginFields DEF Statement, Return, FitAt, Buying, Shelving
        <3>2. /\ req'[r] = y /\ Requests' /\ Moves(r)
            BY <1>0, <3>1, ReqSet
        <3>3. y.pc = pc /\ y.x = x /\ y.c = 0 /\ y.v = v /\ y.then = then
            BY DEF Started
        <3> QED
            BY <3>2, <3>3
    <2> QED
        BY <2>4
<1>5. /\ OnlyExcuses /\ hist' \in History /\ hist.excused \subseteq hist'.excused
      /\ \/ \A q \in Req : req[q].x = x => q = r
         \/ <<x, "copy">> \in hist'.excused /\ <<x, "fields">> \in hist'.excused
    BY <1>0, BeginExcused
<1>6. MadeOnce(x)' /\ SameFields(x)'
    <2>1. CASE <<x, "copy">> \in hist'.excused /\ <<x, "fields">> \in hist'.excused
        BY <2>1 DEF MadeOnce, SameFields
    <2>2. CASE \A q \in Req : req[q].x = x => q = r
        <3>2. \A q \in Req : req'[q].x = x => q = r
            BY <1>4, <2>2 DEF Moves
        <3>3. Alone(x)'
            BY <3>2 DEF Alone
        <3>4. <<x, "copy">> \in hist.excused \/ Len(catalog[x]) = 0
            BY <1>0, <2>2 DEF Shelved, MadeOnce
        <3>5. MadeOnce(x)'
            BY <1>4, <1>5, <3>2, <3>3, <3>4 DEF MadeOnce
        <3>6. SameFields(x)'
            BY <1>4, <3>2, <3>3 DEF SameFields
        <3> QED
            BY <3>5, <3>6
    <2> QED
        BY <1>5, <2>1, <2>2
<1>10. \A z \in Item : z # x => ItemCalm(z)
    BY <1>4 DEF ItemCalm, Moves
<1>11. Shelved'
    BY <1>0, <1>4, <1>5, <1>6, <1>10, ShelvedAt
<1>12. /\ req[r].pc # "savecustomer" /\ req'[r].pc \in Shelving \cup {"idle", "prices"}
       /\ req'[r].then # "mark" /\ req'[r].x \notin Sale /\ req'[r].c \in {0, req[r].c}
    BY <1>0, <1>4 DEF Shelving
<1>13. Counted' /\ Sold' /\ Known'
    BY <1>4, <1>5, <1>12, CatalogOnly
<1> QED
    BY <1>4, <1>5, <1>11, <1>13 DEF IInv

\* A request that is no longer about the catalog, and leaves nothing undone there.
LEMMA LeaveShelf ==
    ASSUME Shelved, Requests', NEW r \in Req, Moves(r), hist.excused \subseteq hist'.excused,
           local' = local, catalog' = catalog, req'[r].x \notin Item,
           req[r].pc \notin {"stamp", "reread", "update"}
    PROVE  Shelved'
<1>1. \A y \in Item : ItemCalm(y)
    BY DEF ItemCalm, Moves
<1>2. PICK x \in Item : x = "product"
    BY DEF Item
<1>3. MadeOnce(x)' /\ SameFields(x)'
    BY <1>1, ItemStays DEF Shelved
<1>4. local \in [Item -> Kept] /\ catalog \in [Item -> Seq(BOOLEAN)]
      /\ (local[x].id # 0 => local[x].st = "kept" /\ local[x].id \in DOMAIN catalog[x])
    BY DEF Shelved
<1>5. req'[r].pc \notin {"stamp", "update"}
    BY DEF Requests, Fit, FitAt, Shelving
<1> QED
    BY <1>1, <1>3, <1>4, <1>5, ShelvedAt

\* Catalog.PushCatalog, of products.
LEMMA PushCatalogStep == ASSUME IInv, NEW r \in Req, PushCatalog(r) PROVE IInv'
<1>0. Requests /\ hist \in History /\ Shelved /\ local \in [Item -> Kept]
    BY DEF IInv, Shelved
<1>1. /\ UNCHANGED <<local, catalog, cust, row, now, owner, sent, answered, log>>
      /\ req[r] = Idle /\ req[r].pc = "idle"
    BY IdleFields DEF PushCatalog, mirror, sales, events
<1>2. CASE local["product"].st = "kept" /\ local["product"].id = 0
    <2>1. PICK x \in Item : x = "product"
        BY DEF Item
    <2>2. PICK v \in BOOLEAN : v = local[x].active
        BY <1>0 DEF Kept
    <2>3. /\ req' = [req EXCEPT ![r] = [Begin("push", x) EXCEPT !.v = v, !.then = "prices"]]
          /\ Excuse(Overlap(r, x)) /\ local[x].st = "kept" /\ local[x].id = 0
        BY <1>2, <2>1, <2>2 DEF PushCatalog
    <2>4. PICK y : y = Started("push", x, 0, v, "prices") /\ req' = [req EXCEPT ![r] = y]
        <3>1. [Begin("push", x) EXCEPT !.v = v, !.then = "prices"] = Started("push", x, 0, v, "prices")
            <4>1. [Begin("push", x) EXCEPT !.v = v] = Started("push", x, 0, v, "idle")
                BY BeginPlain DEF Started
            <4>2. [Started("push", x, 0, v, "idle") EXCEPT !.then = "prices"] = Started("push", x, 0, v, "prices")
                BY DEF Started
            <4>3. [Begin("push", x) EXCEPT !.v = v, !.then = "prices"]
                    = [[Begin("push", x) EXCEPT !.v = v] EXCEPT !.then = "prices"]
                OBVIOUS
            <4> QED
                BY <4>1, <4>2, <4>3
        <3> QED
            BY <2>3, <3>1
    <2>5. "push" \in {"push", "parent"} /\ "prices" \in {"idle", "prices"} /\ req[r].pc \in {"idle", "prices"}
        BY <1>1
    <2> QED
        BY <1>1, <2>2, <2>3, <2>4, <2>5, BeginPush
<1>3. CASE ~(local["product"].st = "kept" /\ local["product"].id = 0)
    <2>1. Go(r, "prices") /\ hist' = hist
        BY <1>3 DEF PushCatalog
    <2>2. "prices" \in Statement /\ FitAt("prices", req[r].x, req[r].then)
        BY <1>1, IdleFields DEF Statement, FitAt, Shelving, Buying
    <2>3. /\ Requests' /\ Moves(r) /\ req'[r].pc = "prices" /\ req'[r].x = req[r].x
          /\ req'[r].then = req[r].then /\ req'[r].c = req[r].c
        BY <1>0, <2>1, <2>2, GoOn
    <2>4. req[r].x = "none" /\ req[r].then = "idle" /\ "none" \notin Item /\ "none" \notin Sale
        BY <1>1, IdleFields DEF Item
    <2>5. hist.excused \subseteq hist'.excused /\ req'[r].x \notin Item /\ req[r].pc \notin {"stamp", "reread", "update"}
        BY <1>1, <2>1, <2>3, <2>4
    <2>6. Shelved'
        BY <1>0, <1>1, <2>3, <2>5, LeaveShelf
    <2>7. /\ req[r].pc # "savecustomer" /\ req'[r].pc \in Shelving \cup {"idle", "prices"} /\ OnlyExcuses
          /\ req'[r].then # "mark" /\ req'[r].x \notin Sale /\ req'[r].c \in {0, req[r].c}
        BY <1>0, <1>1, <2>1, <2>3, <2>4, SameHist
    <2>8. Counted' /\ Sold' /\ Known'
        BY <1>1, <2>3, <2>7, CatalogOnly
    <2> QED
        BY <2>3, <2>6, <2>7, <2>8 DEF IInv, OnlyExcuses
<1> QED
    BY <1>2, <1>3

\* A request about the catalog that ends where nothing is undone.
LEMMA EndShelf ==
    ASSUME IInv, NEW r \in Req, Go(r, "idle"), req[r].pc \in {"prices", "parent"}, hist' = hist,
           UNCHANGED <<local, catalog, cust, row, now, owner, sent, answered, log>>
    PROVE  IInv'
<1>0. Requests /\ hist \in History /\ Shelved
    BY DEF IInv, Shelved
<1>1. Requests' /\ Moves(r) /\ req'[r] = Idle
    BY <1>0, GoIdle
<1>2. /\ req'[r].x = "none" /\ req'[r].then = "idle" /\ req'[r].c = 0 /\ req'[r].pc = "idle"
      /\ "none" \notin Item /\ "none" \notin Sale
    BY <1>1, IdleFields DEF Item
<1>3. hist.excused \subseteq hist'.excused /\ req'[r].x \notin Item /\ req[r].pc \notin {"stamp", "reread", "update"}
    BY <1>2
<1>4. Shelved'
    BY <1>0, <1>1, <1>3, LeaveShelf
<1>5. /\ req[r].pc # "savecustomer" /\ req'[r].pc \in Shelving \cup {"idle", "prices"} /\ OnlyExcuses
      /\ req'[r].then # "mark" /\ req'[r].x \notin Sale /\ req'[r].c \in {0, req[r].c}
    BY <1>0, <1>2, SameHist
<1>6. Counted' /\ Sold' /\ Known'
    BY <1>1, <1>5, CatalogOnly
<1> QED
    BY <1>1, <1>4, <1>5, <1>6 DEF IInv, OnlyExcuses

\* ... and of prices.
LEMMA ListPricesStep == ASSUME IInv, NEW r \in Req, ListPrices(r) PROVE IInv'
<1>0. Requests /\ hist \in History /\ Shelved /\ local \in [Item -> Kept]
    BY DEF IInv, Shelved
<1>1. /\ UNCHANGED <<local, catalog, cust, row, now, owner, sent, answered, log>>
      /\ req[r].pc = "prices"
    BY DEF ListPrices, mirror, sales, events
<1>2. CASE local["price"].st = "kept" /\ local["price"].id = 0
    <2>1. PICK x \in Item : x = "price"
        BY DEF Item
    <2>2. PICK v \in BOOLEAN : v = local[x].active
        BY <1>0 DEF Kept
    <2>3. /\ req' = [req EXCEPT ![r] = [Begin("parent", x) EXCEPT !.v = v]]
          /\ Excuse(Overlap(r, x)) /\ local[x].st = "kept" /\ local[x].id = 0
        BY <1>2, <2>1, <2>2 DEF ListPrices
    <2>4. PICK y : y = Started("parent", x, 0, v, "idle") /\ req' = [req EXCEPT ![r] = y]
        <3>1. [Begin("parent", x) EXCEPT !.v = v] = Started("parent", x, 0, v, "idle")
            BY BeginPlain DEF Started
        <3> QED
            BY <2>3, <3>1
    <2>5. "parent" \in {"push", "parent"} /\ "idle" \in {"idle", "prices"} /\ req[r].pc \in {"idle", "prices"}
        BY <1>1
    <2> QED
        BY <1>1, <2>2, <2>3, <2>4, <2>5, BeginPush
<1>3. CASE ~(local["price"].st = "kept" /\ local["price"].id = 0)
    <2>1. Go(r, "idle") /\ hist' = hist /\ req[r].pc \in {"prices", "parent"}
        BY <1>1, <1>3 DEF ListPrices
    <2> QED
        BY <1>1, <2>1, EndShelf
<1> QED
    BY <1>2, <1>3

\* The product of a price is read again.
LEMMA ReadParentStep == ASSUME IInv, NEW r \in Req, ReadParent(r) PROVE IInv'
<1>0. Requests /\ hist \in History /\ Shelved /\ local \in [Item -> Kept] /\ catalog \in [Item -> Seq(BOOLEAN)]
    BY DEF IInv, Shelved
<1>1. /\ UNCHANGED <<local, catalog, cust, row, now, owner, sent, answered, log>>
      /\ req[r].pc = "parent" /\ hist' = hist
      /\ Go(r, IF local["product"].id = 0 THEN "idle" ELSE "push")
    BY DEF ReadParent, mirror, sales, events
<1>2. CASE local["product"].id = 0
    <2>1. Go(r, "idle") /\ req[r].pc \in {"prices", "parent"}
        BY <1>1, <1>2
    <2> QED
        BY <1>1, <2>1, EndShelf
<1>3. CASE local["product"].id # 0
    <2>0. "parent" \in Shelving /\ "push" \in Statement /\ "push" \in Shelving /\ "push" # "idle"
        BY DEF Shelving, Statement
    <2>1. PICK x \in Item : x = req[r].x
        BY <1>0, <1>1, <2>0, ShelvingFields
    <2>2. FitAt("push", req[r].x, req[r].then) /\ req[r].then # "mark"
        BY <1>0, <1>1, <2>0, <2>1, ShelvingFields DEF FitAt, Buying, Shelving
    <2>3. /\ Requests' /\ Moves(r)
          /\ req'[r].pc = "push" /\ req'[r].x = x /\ req'[r].c = req[r].c
          /\ req'[r].v = req[r].v /\ req'[r].then = req[r].then
        BY <1>0, <1>1, <1>3, <2>0, <2>1, <2>2, GoOn
    <2>4. hist.excused \subseteq hist'.excused /\ OnlyExcuses
        BY <1>0, <1>1, SameHist
    <2>5. Alone(x) => Alone(x)'
        BY <2>1, <2>3 DEF Alone, Moves
    <2>6. MadeOnce(x) /\ SameFields(x)
        BY <1>0 DEF Shelved
    <2>7. MadeOnce(x)'
        <3>1. CASE <<x, "copy">> \in hist.excused
            BY <2>4, <3>1 DEF MadeOnce
        <3>2. CASE <<x, "copy">> \notin hist.excused
            <4>1. Alone(x) /\ Len(catalog[x]) = 0
                BY <1>1, <2>1, <2>6, <3>2 DEF MadeOnce
            <4>2. Alone(x)' /\ Len(catalog'[x]) = 0
                BY <1>1, <2>5, <4>1
            <4> QED
                BY <4>2 DEF MadeOnce
        <3> QED
            BY <3>1, <3>2
    <2>8. SameFields(x)'
        <3>1. CASE <<x, "fields">> \in hist.excused
            BY <2>4, <3>1 DEF SameFields
        <3>2. CASE <<x, "fields">> \notin hist.excused
            <4>1. Alone(x) /\ (local[x].st = "kept" => req[r].v = local[x].active)
                BY <1>1, <2>1, <2>6, <3>2 DEF SameFields
            <4>2. \A q \in Req : req[q].x = x \/ req'[q].x = x => q = r
                BY <2>1, <2>3, <4>1 DEF Alone, Moves
            <4>3. local[x].id # 0 => catalog[x][local[x].id] = local[x].active
                BY <1>1, <2>6, <3>2, <4>2 DEF SameFields
            <4>4. Alone(x)' /\ local'[x] = local[x] /\ catalog'[x] = catalog[x]
                BY <1>1, <2>5, <4>1
            <4> QED
                BY <2>3, <4>1, <4>2, <4>3, <4>4 DEF SameFields
        <3> QED
            BY <3>1, <3>2
    <2>9. \A y \in Item : y # x => ItemCalm(y)
        BY <1>1, <2>1, <2>3 DEF ItemCalm, Moves
    <2>10. /\ local[x].id # 0 => local[x].st = "kept" /\ local[x].id \in DOMAIN catalog[x]
           /\ local[x].st # "none"
        BY <1>0, <2>1 DEF Shelved
    <2>11. Shelved'
        BY <1>0, <1>1, <2>1, <2>3, <2>4, <2>7, <2>8, <2>9, <2>10, ShelvedAt
    <2>12. /\ req[r].pc # "savecustomer" /\ req'[r].pc \in Shelving \cup {"idle", "prices"}
           /\ req'[r].then # "mark" /\ req'[r].x \notin Sale /\ req'[r].c \in {0, req[r].c}
        BY <1>0, <1>1, <2>0, <2>2, <2>3
    <2>13. Counted' /\ Sold' /\ Known'
        BY <1>1, <2>3, <2>4, <2>12, CatalogOnly
    <2> QED
        BY <2>3, <2>4, <2>11, <2>13 DEF IInv, OnlyExcuses
<1> QED
    BY <1>2, <1>3

\* Client.CreateProduct or CreatePrice.
LEMMA PushStep == ASSUME IInv, NEW r \in Req, Push(r) PROVE IInv'
<1>0. Requests /\ hist \in History /\ Shelved /\ local \in [Item -> Kept] /\ catalog \in [Item -> Seq(BOOLEAN)]
    BY DEF IInv, Shelved
<1>1. /\ UNCHANGED <<local, cust, row, now, owner, sent, answered, log>>
      /\ req[r].pc = "push"
    BY DEF Push, mirror, sales, events
<1>2. "push" \in Shelving /\ "stamp" \in Shelving /\ "stamp" \in Statement
    BY DEF Shelving, Statement
<1>3. PICK x \in Item : x = req[r].x
    BY <1>0, <1>1, <1>2, ShelvingFields
<1>4. PICK v \in BOOLEAN : v = MadeActive(x, req[r].v)
    BY <1>0, LocalFields DEF MadeActive
<1>5. PICK s \in Seq(BOOLEAN) : s = catalog[x]
    BY <1>0
<1>6. PICK n \in Nat : n = Len(s) + 1
    BY LenProperties
<1>7. catalog' = [catalog EXCEPT ![x] = Append(s, v)]
    BY <1>0, <1>3, <1>4, <1>5 DEF Push
<1>8. /\ Append(s, v) \in Seq(BOOLEAN) /\ Len(Append(s, v)) = n /\ DOMAIN s = 1 .. Len(s)
      /\ DOMAIN Append(s, v) = 1 .. n /\ Append(s, v)[n] = v /\ Len(s) \in Nat
      /\ \A j \in DOMAIN s : Append(s, v)[j] = s[j]
    BY <1>6, SeqAdd
<1>9. PICK t : t = Append(s, v)
    OBVIOUS
<1>10. /\ catalog' \in [Item -> Seq(BOOLEAN)] /\ catalog'[x] = t
       /\ \A y \in Item : y # x => catalog'[y] = catalog[y]
    BY <1>0, <1>7, <1>8, <1>9
<1>11. n \in DOMAIN t /\ DOMAIN s \subseteq DOMAIN t /\ Len(t) = n /\ t[n] = v /\ \A j \in DOMAIN s : t[j] = s[j]
    BY <1>6, <1>8, <1>9
<1>12. /\ Requests' /\ Moves(r)
       /\ req'[r].pc = "stamp" /\ req'[r].x = x /\ req'[r].c = req[r].c /\ req'[r].n = n
       /\ req'[r].then = req[r].then /\ req[r].then # "mark"
    <2>1. PICK y : y = [[req[r] EXCEPT !.pc = "stamp"] EXCEPT !.n = n]
        OBVIOUS
    <2>2. req' = [req EXCEPT ![r] = y]
        BY <1>0, <1>3, <1>5, <1>6, <2>1 DEF Push
    <2>3. req[r] \in Local /\ req[r].then # "mark" /\ req[r].then \in Return
        BY <1>0, <1>1, <1>2, ShelvingFields, LocalFields
    <2>4. /\ y \in Local /\ y.pc = "stamp" /\ y.x = x /\ y.c = req[r].c /\ y.n = n
          /\ y.then = req[r].then
        BY <1>2, <1>3, <2>1, <2>3 DEF Local
    <2>5. FitAt("stamp", x, req[r].then)
        BY <2>3 DEF FitAt, Shelving, Buying
    <2>6. Fit(y)
        BY <2>4, <2>5 DEF Fit
    <2> QED
        BY <1>0, <2>2, <2>3, <2>4, <2>6, ReqSet
<1>13. /\ hist.excused \subseteq hist'.excused /\ OnlyExcuses
       /\ <<x, "fields">> \in hist'.excused \/ v = req[r].v
    <2>1. PICK why : why = IF x = "price" /\ ~req[r].v THEN {<<x, "fields">>} ELSE {}
        OBVIOUS
    <2>2. Excuse(why) /\ why \in SUBSET (Thing \X {"copy", "fields"})
        BY <1>3, <2>1 DEF Push, Thing
    <2>3. OnlyExcuses /\ hist'.excused = hist.excused \cup why
        BY <1>0, <2>2, ExcuseFields
    <2>4. CASE x = "price" /\ ~req[r].v
        BY <2>1, <2>3, <2>4
    <2>5. CASE ~(x = "price" /\ ~req[r].v)
        <3>1. req[r].v \in BOOLEAN
            BY <1>0, LocalFields
        <3>2. v = req[r].v
            BY <1>4, <2>5, <3>1 DEF MadeActive
        <3> QED
            BY <2>3, <3>2
    <2> QED
        BY <2>4, <2>5
<1>14. Alone(x) => Alone(x)' /\ \A q \in Req : req[q].x = x \/ req'[q].x = x => q = r
    BY <1>3, <1>12 DEF Alone, Moves
<1>15. local[x].st # "none" /\ (local[x].id # 0 => local[x].st = "kept" /\ local[x].id \in DOMAIN s)
    BY <1>0, <1>3, <1>5 DEF Shelved
<1>16. MadeOnce(x)'
    <2>1. CASE <<x, "copy">> \in hist.excused
        BY <1>13, <2>1 DEF MadeOnce
    <2>2. CASE <<x, "copy">> \notin hist.excused
        <3>1. Alone(x) /\ Len(s) = 0
            BY <1>0, <1>1, <1>3, <1>5, <2>2 DEF Shelved, MadeOnce
        <3>2. Len(t) = 1
            BY <1>6, <1>11, <3>1
        <3> QED
            BY <1>1, <1>10, <1>12, <1>14, <1>15, <3>1, <3>2 DEF MadeOnce
    <2> QED
        BY <2>1, <2>2
<1>17. SameFields(x)'
    <2>1. CASE <<x, "fields">> \in hist'.excused
        BY <2>1 DEF SameFields
    <2>2. CASE <<x, "fields">> \notin hist'.excused
        <3>1. Alone(x) /\ (local[x].st = "kept" => v = local[x].active)
            BY <1>0, <1>1, <1>3, <1>13, <2>2 DEF Shelved, SameFields
        <3>2. local[x].id # 0 => s[local[x].id] = local[x].active
            <4>1. SameFields(x)
                BY <1>0 DEF Shelved
            <4>2. local[x].id # 0 => \/ s[local[x].id] = local[x].active
                                     \/ \E q \in Req : req[q].x = x /\ req[q].pc \in {"reread", "update"}
                BY <1>5, <1>13, <2>2, <4>1 DEF SameFields
            <4>3. \A q \in Req : req[q].x = x => req[q].pc = "push"
                BY <1>1, <1>14, <3>1
            <4> QED
                BY <4>2, <4>3
        <3>3. local[x].id # 0 => t[local[x].id] = local[x].active
            BY <1>11, <1>15, <3>2
        <3> QED
            BY <1>1, <1>10, <1>11, <1>12, <1>14, <3>1, <3>3 DEF SameFields
    <2> QED
        BY <2>1, <2>2
<1>18. \A y \in Item : y # x => ItemCalm(y)
    BY <1>1, <1>3, <1>10, <1>12 DEF ItemCalm, Moves
<1>19. Shelved'
    <2>1. local'[x].id # 0 => local'[x].st = "kept" /\ local'[x].id \in DOMAIN catalog'[x]
        BY <1>1, <1>10, <1>11, <1>15
    <2>2. DOMAIN catalog[x] \subseteq DOMAIN catalog'[x] /\ req'[r].n \in DOMAIN catalog'[x]
        BY <1>5, <1>10, <1>11, <1>12
    <2> QED
        BY <1>0, <1>1, <1>10, <1>12, <1>13, <1>15, <1>16, <1>17, <1>18, <2>1, <2>2, ShelvedAt
<1>20. /\ req[r].pc # "savecustomer" /\ req'[r].pc \in Shelving \cup {"idle", "prices"}
       /\ req'[r].then # "mark" /\ req'[r].x \notin Sale /\ req'[r].c \in {0, req[r].c}
    BY <1>1, <1>2, <1>12
<1>21. Counted' /\ Sold' /\ Known'
    BY <1>1, <1>12, <1>13, <1>20, CatalogOnly
<1> QED
    BY <1>12, <1>13, <1>19, <1>21 DEF IInv, OnlyExcuses

\* A request about an item that goes back to where it was called from.
LEMMA GoBack ==
    ASSUME Requests, NEW r \in Req, req[r].pc \in Shelving, Go(r, req[r].then)
    PROVE  /\ Requests' /\ Moves(r) /\ req'[r].pc \in {"idle", "prices"}
           /\ req'[r].x \in {req[r].x, "none"} /\ req'[r].then # "mark" /\ req'[r].c \in {0, req[r].c}
<1>1. req[r].x \in Item /\ req[r].then \in {"idle", "prices"}
    BY ShelvingFields
<1>2. CASE req[r].then = "idle"
    BY <1>2, GoIdle, IdleFields
<1>3. CASE req[r].then = "prices"
    <2>1. "prices" \in Statement /\ "prices" # "idle" /\ Go(r, "prices")
        BY <1>3 DEF Statement
    <2>2. FitAt("prices", req[r].x, req[r].then)
        BY <1>1, <1>3 DEF FitAt, Shelving, Buying
    <2> QED
        BY <1>3, <2>1, <2>2, GoOn
<1> QED
    BY <1>1, <1>2, <1>3

\* SetProductStripeID or SetPriceStripeID.
LEMMA StampStep == ASSUME IInv, NEW r \in Req, Stamp(r) PROVE IInv'
<1>0. Requests /\ hist \in History /\ Shelved /\ local \in [Item -> Kept] /\ catalog \in [Item -> Seq(BOOLEAN)]
    BY DEF IInv, Shelved
<1>1. /\ UNCHANGED <<catalog, cust, row, now, owner, sent, answered, log>>
      /\ req[r].pc = "stamp" /\ hist' = hist /\ Go(r, req[r].then)
    BY DEF Stamp, mirror, sales, events
<1>2. req[r].pc \in Shelving
    BY <1>1 DEF Shelving
<1>3. PICK x \in Item : x = req[r].x
    BY <1>0, <1>2, ShelvingFields
<1>4. PICK n \in DOMAIN catalog[x] : n = req[r].n
    BY <1>0, <1>1, <1>3 DEF Shelved
<1>5. n \in Nat /\ n # 0
    <2>1. DOMAIN catalog[x] = 1 .. Len(catalog[x]) /\ Len(catalog[x]) \in Nat
        BY <1>0, LenProperties
    <2> QED
        BY <1>4, <2>1
<1>6. PICK m \in Nat : m = IF local[x].st = "kept" THEN n ELSE local[x].id
    BY <1>0, <1>5 DEF Kept
<1>7. PICK k : k = [local[x] EXCEPT !.id = m]
    OBVIOUS
<1>8. local' = [local EXCEPT ![x] = k]
    BY <1>0, <1>3, <1>4, <1>6, <1>7 DEF Stamp
<1>9. k \in Kept /\ k.st = local[x].st /\ k.id = m /\ k.active = local[x].active
    BY <1>0, <1>7 DEF Kept
<1>10. /\ local' \in [Item -> Kept] /\ local'[x].st = local[x].st /\ local'[x].id = m
       /\ local'[x].active = local[x].active /\ \A y \in Item : y # x => local'[y] = local[y]
    BY <1>0, <1>8, <1>9
<1>11. /\ local[x].st # "none" /\ (local[x].st # "kept" => m = 0) /\ (local[x].st = "kept" => m = n)
    BY <1>0, <1>3, <1>6 DEF Shelved
<1>12. /\ Requests' /\ Moves(r) /\ req'[r].pc \in {"idle", "prices"} /\ "none" \notin Item /\ "none" \notin Sale
       /\ req'[r].x \in {x, "none"} /\ req'[r].then # "mark" /\ req'[r].c \in {0, req[r].c} /\ x \notin Sale
    BY <1>0, <1>1, <1>2, <1>3, GoBack DEF Item
<1>13. hist.excused \subseteq hist'.excused /\ OnlyExcuses
    BY <1>0, <1>1, SameHist
<1>14. Alone(x) => Alone(x)' /\ \A q \in Req : req[q].x = x \/ req'[q].x = x => q = r
    BY <1>3, <1>12 DEF Alone, Moves
<1>15. MadeOnce(x)'
    <2>1. CASE <<x, "copy">> \in hist.excused
        BY <1>13, <2>1 DEF MadeOnce
    <2>2. CASE <<x, "copy">> \notin hist.excused
        <3>1. Alone(x) /\ Len(catalog[x]) <= 1
            BY <1>0, <2>2 DEF Shelved, MadeOnce
        <3> QED
            BY <1>1, <1>5, <1>10, <1>11, <1>12, <1>14, <3>1 DEF MadeOnce
    <2> QED
        BY <2>1, <2>2
<1>16. SameFields(x)'
    <2>1. CASE <<x, "fields">> \in hist.excused
        BY <1>13, <2>1 DEF SameFields
    <2>2. CASE <<x, "fields">> \notin hist.excused
        <3>1. Alone(x) /\ (local[x].st = "kept" => catalog[x][n] = local[x].active)
            BY <1>0, <1>1, <1>3, <1>4, <2>2 DEF Shelved, SameFields
        <3>2. m # 0 => catalog[x][m] = local[x].active
            BY <1>11, <3>1
        <3> QED
            BY <1>1, <1>10, <1>12, <1>14, <3>1, <3>2 DEF SameFields
    <2> QED
        BY <2>1, <2>2
<1>17. \A y \in Item : y # x => ItemCalm(y)
    BY <1>1, <1>3, <1>10, <1>12 DEF ItemCalm, Moves
<1>18. Shelved'
    <2>1. local'[x].id # 0 => local'[x].st = "kept" /\ local'[x].id \in DOMAIN catalog'[x]
        BY <1>1, <1>4, <1>10, <1>11
    <2>2. local'[x].st # "none" /\ req'[r].pc \notin {"stamp", "update"} /\ (req'[r].x \in Item => req'[r].x = x)
        BY <1>10, <1>11, <1>12
    <2> QED
        BY <1>0, <1>1, <1>10, <1>12, <1>13, <1>15, <1>16, <1>17, <2>1, <2>2, ShelvedAt
<1>19. /\ req[r].pc # "savecustomer" /\ req'[r].pc \in Shelving \cup {"idle", "prices"} /\ req'[r].x \notin Sale
    BY <1>1, <1>12
<1>20. Counted' /\ Sold' /\ Known'
    BY <1>1, <1>12, <1>13, <1>19, CatalogOnly
<1> QED
    BY <1>12, <1>13, <1>18, <1>20 DEF IInv, OnlyExcuses

\* A changed row is read back.
LEMMA RereadStep == ASSUME IInv, NEW r \in Req, Reread(r) PROVE IInv'
<1>0. Requests /\ hist \in History /\ Shelved /\ local \in [Item -> Kept] /\ catalog \in [Item -> Seq(BOOLEAN)]
    BY DEF IInv, Shelved
<1>1. /\ UNCHANGED <<local, catalog, cust, row, now, owner, sent, answered, log>> /\ req[r].pc = "reread"
    BY DEF Reread, mirror, sales, events
<1>2. req[r].pc \in Shelving
    BY <1>1 DEF Shelving
<1>3. PICK x \in Item : x = req[r].x
    BY <1>0, <1>2, ShelvingFields
<1>4. /\ local[x].id # 0 => local[x].st = "kept" /\ local[x].id \in DOMAIN catalog[x]
      /\ local[x].st # "none" /\ x \notin Sale /\ x \in Thing /\ "none" \notin Item /\ "none" \notin Sale
    BY <1>0, <1>3 DEF Shelved, Item, Thing
<1>5. CASE ready /\ local[x].id # 0
    <2>1. hist.excused \subseteq hist'.excused /\ OnlyExcuses
        BY <1>0, <1>3, <1>5, SameHist DEF Reread
    <2>2. PICK n \in Nat : n = local[x].id
        BY <1>0 DEF Kept
    <2>3. PICK v \in BOOLEAN : v = IF x = "product" THEN local[x].active ELSE req[r].v
        BY <1>0, LocalFields DEF Kept
    <2>4. /\ Requests' /\ Moves(r)
          /\ req'[r].pc = "update" /\ req'[r].x = x /\ req'[r].c = req[r].c /\ req'[r].n = n /\ req'[r].v = v
          /\ req'[r].then = req[r].then /\ req[r].then # "mark"
        <3>1. PICK y : y = [[[req[r] EXCEPT !.pc = "update"] EXCEPT !.n = n] EXCEPT !.v = v]
            OBVIOUS
        <3>2. req' = [req EXCEPT ![r] = y]
            BY <1>0, <1>3, <1>5, <2>2, <2>3, <3>1 DEF Reread
        <3>3. req[r] \in Local /\ req[r].then # "mark" /\ req[r].then \in Return
            BY <1>0, <1>2, ShelvingFields, LocalFields
        <3>4. /\ y \in Local /\ y.pc = "update" /\ y.x = x /\ y.c = req[r].c /\ y.n = n
              /\ y.v = v /\ y.then = req[r].then
            BY <1>3, <3>1, <3>3 DEF Local, Statement, Shelving
        <3>5. FitAt("update", x, req[r].then)
            BY <3>3 DEF FitAt, Shelving, Buying
        <3>6. Fit(y)
            BY <3>4, <3>5 DEF Fit
        <3> QED
            BY <1>0, <3>2, <3>3, <3>4, <3>6, ReqSet
    <2>5. Alone(x) => Alone(x)' /\ \A q \in Req : req[q].x = x \/ req'[q].x = x => q = r
        BY <1>3, <2>4 DEF Alone, Moves
    <2>6. MadeOnce(x) /\ SameFields(x)
        BY <1>0 DEF Shelved
    <2>7. MadeOnce(x)'
        BY <1>1, <1>3, <2>1, <2>4, <2>5, <2>6 DEF MadeOnce
    <2>8. SameFields(x)'
        BY <1>1, <1>3, <2>1, <2>2, <2>3, <2>4, <2>5, <2>6 DEF SameFields
    <2>9. \A y \in Item : y # x => ItemCalm(y)
        BY <1>1, <1>3, <2>4 DEF ItemCalm, Moves
    <2>10. req'[r].n \in DOMAIN catalog'[x] /\ req'[r].x = x
        BY <1>1, <1>4, <1>5, <2>2, <2>4
    <2>11. Shelved'
        BY <1>0, <1>1, <1>4, <2>1, <2>4, <2>7, <2>8, <2>9, <2>10, ShelvedAt
    <2>12. /\ req[r].pc # "savecustomer" /\ req'[r].pc \in Shelving \cup {"idle", "prices"}
           /\ req'[r].then # "mark" /\ req'[r].x \notin Sale /\ req'[r].c \in {0, req[r].c}
        BY <1>1, <1>4, <2>4 DEF Shelving
    <2>13. Counted' /\ Sold' /\ Known'
        BY <1>1, <2>1, <2>4, <2>12, CatalogOnly
    <2> QED
        BY <2>1, <2>4, <2>11, <2>13 DEF IInv, OnlyExcuses
<1>6. CASE ~(ready /\ local[x].id # 0)
    <2>1. PICK why : why = IF local[x].id = 0 THEN {} ELSE {<<x, "fields">>}
        OBVIOUS
    <2>2. Go(r, "idle") /\ Excuse(why) /\ why \in SUBSET (Thing \X {"copy", "fields"})
        BY <1>3, <1>4, <1>6, <2>1 DEF Reread
    <2>3. /\ OnlyExcuses /\ hist'.excused = hist.excused \cup why /\ hist.excused \subseteq hist'.excused
        BY <1>0, <2>2, ExcuseFields
    <2>4. /\ Requests' /\ Moves(r) /\ req'[r].pc = "idle" /\ req'[r].x = "none" /\ req'[r].then = "idle"
          /\ req'[r].c = 0
        BY <1>0, <2>2, GoIdle, IdleFields
    <2>5. Alone(x) => Alone(x)' /\ \A q \in Req : req'[q].x # x
        BY <1>3, <1>4, <2>4 DEF Alone, Moves
    <2>6. MadeOnce(x) /\ SameFields(x)
        BY <1>0 DEF Shelved
    <2>7. MadeOnce(x)'
        BY <1>1, <1>3, <1>4, <2>3, <2>4, <2>5, <2>6 DEF MadeOnce, Moves
    <2>8. SameFields(x)'
        BY <1>1, <2>1, <2>3, <2>5, <2>6 DEF SameFields
    <2>9. \A y \in Item : y # x => ItemCalm(y)
        BY <1>1, <1>3, <1>4, <2>4 DEF ItemCalm, Moves
    <2>10. req'[r].x \notin Item /\ req'[r].pc \notin {"stamp", "update"} /\ req'[r].x # x
        BY <1>4, <2>4
    <2>11. Shelved'
        BY <1>0, <1>1, <1>4, <2>3, <2>4, <2>7, <2>8, <2>9, <2>10, ShelvedAt
    <2>12. /\ req[r].pc # "savecustomer" /\ req'[r].pc \in Shelving \cup {"idle", "prices"}
           /\ req'[r].then # "mark" /\ req'[r].x \notin Sale /\ req'[r].c \in {0, req[r].c}
        BY <1>1, <1>4, <2>4
    <2>13. Counted' /\ Sold' /\ Known'
        BY <1>1, <2>3, <2>4, <2>12, CatalogOnly
    <2> QED
        BY <2>3, <2>4, <2>11, <2>13 DEF IInv, OnlyExcuses
<1> QED
    BY <1>5, <1>6

\* Client.UpdateProduct or UpdatePrice.
LEMMA UpdateAtStripeStep == ASSUME IInv, NEW r \in Req, UpdateAtStripe(r) PROVE IInv'
<1>0. Requests /\ hist \in History /\ Shelved /\ local \in [Item -> Kept] /\ catalog \in [Item -> Seq(BOOLEAN)]
    BY DEF IInv, Shelved
<1>1. /\ UNCHANGED <<local, cust, row, now, owner, sent, answered, log>>
      /\ req[r].pc = "update" /\ hist' = hist /\ Go(r, "idle")
    BY DEF UpdateAtStripe, mirror, sales, events
<1>2. req[r].pc \in Shelving
    BY <1>1 DEF Shelving
<1>3. PICK x \in Item : x = req[r].x
    BY <1>0, <1>2, ShelvingFields
<1>4. PICK v \in BOOLEAN : v = req[r].v
    BY <1>0, LocalFields
<1>5. PICK s \in Seq(BOOLEAN) : s = catalog[x]
    BY <1>0
<1>6. PICK n \in DOMAIN s : n = req[r].n
    BY <1>0, <1>1, <1>3, <1>5 DEF Shelved
<1>7. PICK t : t = [s EXCEPT ![n] = v]
    OBVIOUS
<1>8. catalog' = [catalog EXCEPT ![x] = t]
    BY <1>0, <1>3, <1>4, <1>5, <1>6, <1>7 DEF UpdateAtStripe
<1>9. t \in Seq(BOOLEAN) /\ Len(t) = Len(s) /\ DOMAIN t = DOMAIN s /\ t[n] = v
    BY <1>7, SeqSet
<1>10. /\ catalog' \in [Item -> Seq(BOOLEAN)] /\ catalog'[x] = t
       /\ \A y \in Item : y # x => catalog'[y] = catalog[y]
    BY <1>0, <1>8, <1>9
<1>11. /\ local[x].id # 0 => local[x].st = "kept" /\ local[x].id \in DOMAIN catalog[x]
       /\ local[x].st # "none" /\ "none" \notin Item /\ "none" \notin Sale
    BY <1>0, <1>3 DEF Shelved, Item
<1>12. /\ Requests' /\ Moves(r) /\ req'[r].pc = "idle" /\ req'[r].x = "none" /\ req'[r].then = "idle"
       /\ req'[r].c = 0
    BY <1>0, <1>1, GoIdle, IdleFields
<1>13. hist.excused \subseteq hist'.excused /\ OnlyExcuses
    BY <1>0, <1>1, SameHist
<1>14. Alone(x) => Alone(x)' /\ \A q \in Req : req'[q].x # x
    BY <1>3, <1>11, <1>12 DEF Alone, Moves
<1>15. MadeOnce(x)'
    <2>1. CASE <<x, "copy">> \in hist.excused
        BY <1>13, <2>1 DEF MadeOnce
    <2>2. CASE <<x, "copy">> \notin hist.excused
        <3>1. /\ Alone(x) /\ Len(s) <= 1 /\ (local[x].st = "none" => Len(s) = 0)
              /\ (local[x].st = "kept" /\ local[x].id = 0 =>
                    Len(s) = 0 \/ \E q \in Req : req[q].x = x /\ req[q].pc = "stamp")
            BY <1>0, <1>5, <2>2 DEF Shelved, MadeOnce
        <3>2. ~ \E q \in Req : req[q].x = x /\ req[q].pc = "stamp"
            BY <1>1, <1>3, <3>1 DEF Alone
        <3> QED
            BY <1>1, <1>9, <1>10, <1>14, <3>1, <3>2 DEF MadeOnce
    <2> QED
        BY <2>1, <2>2
<1>16. SameFields(x)'
    <2>1. CASE <<x, "fields">> \in hist.excused
        BY <1>13, <2>1 DEF SameFields
    <2>2. CASE <<x, "fields">> \notin hist.excused
        <3>1. Alone(x) /\ (local[x].st = "kept" => n = local[x].id /\ v = local[x].active)
            BY <1>0, <1>1, <1>3, <1>4, <1>6, <2>2 DEF Shelved, SameFields
        <3>2. local[x].id # 0 => t[local[x].id] = local[x].active
            BY <1>9, <1>11, <3>1
        <3> QED
            BY <1>1, <1>10, <1>14, <3>1, <3>2 DEF SameFields
    <2> QED
        BY <2>1, <2>2
<1>17. \A y \in Item : y # x => ItemCalm(y)
    BY <1>1, <1>3, <1>10, <1>11, <1>12 DEF ItemCalm, Moves
<1>18. Shelved'
    <2>1. local'[x].id # 0 => local'[x].st = "kept" /\ local'[x].id \in DOMAIN catalog'[x]
        BY <1>1, <1>5, <1>9, <1>10, <1>11
    <2>2. DOMAIN catalog[x] \subseteq DOMAIN catalog'[x]
        BY <1>5, <1>9, <1>10
    <2>3. req'[r].x \notin Item /\ req'[r].pc \notin {"stamp", "update"} /\ req'[r].x # x
        BY <1>11, <1>12
    <2> QED
        BY <1>0, <1>1, <1>10, <1>12, <1>13, <1>15, <1>16, <1>17, <2>1, <2>2, <2>3, ShelvedAt
<1>19. /\ req[r].pc # "savecustomer" /\ req'[r].pc \in Shelving \cup {"idle", "prices"}
       /\ req'[r].then # "mark" /\ req'[r].x \notin Sale /\ req'[r].c \in {0, req[r].c}
    BY <1>1, <1>11, <1>12
<1>20. Counted' /\ Sold' /\ Known'
    BY <1>1, <1>12, <1>13, <1>19, CatalogOnly
<1> QED
    BY <1>12, <1>13, <1>18, <1>20 DEF IInv, OnlyExcuses

\* A step that neither moves a request nor touches what the other parts are about.
LEMMA OthersStay ==
    ASSUME IInv, UNCHANGED <<cust, row, now, owner, sent, answered, log, req, hist>>
    PROVE  Requests' /\ hist' \in History /\ Counted' /\ Sold' /\ Known'
<1>1. Requests'
    BY DEF IInv, Requests
<1>2. CountedCalm
    BY DEF CountedCalm, Dispatching, IInv, Counted
<1>3. SoldCalm
    BY DEF SoldCalm
<1>4. KnownCalm
    BY DEF KnownCalm
<1> QED
    BY <1>1, <1>2, <1>3, <1>4, CountedStays, SoldStays, KnownStays DEF IInv

\* A product is deleted, with its prices.
LEMMA DeleteProductStep == ASSUME IInv, DeleteProduct PROVE IInv'
<1>0. Requests /\ hist \in History /\ Shelved /\ local \in [Item -> Kept] /\ catalog \in [Item -> Seq(BOOLEAN)]
    BY DEF IInv, Shelved
<1>1. UNCHANGED <<catalog, cust, row, now, owner, sent, answered, log, req, hist>>
    BY DEF DeleteProduct, mirror, sales, events
<1>2. PICK k : k = [st |-> "deleted", id |-> 0, active |-> FALSE]
    OBVIOUS
<1>3. k \in Kept /\ k.st = "deleted" /\ k.id = 0
    BY <1>2 DEF Kept
<1>4. local' = [x \in Item |-> k]
    BY <1>2 DEF DeleteProduct
<1>5. local' \in [Item -> Kept] /\ \A x \in Item : local'[x].st = "deleted" /\ local'[x].id = 0
    BY <1>3, <1>4
<1>6. ASSUME NEW x \in Item PROVE MadeOnce(x)' /\ SameFields(x)'
    <2>1. MadeOnce(x) /\ SameFields(x)
        BY <1>0 DEF Shelved
    <2>2. Alone(x) => Alone(x)'
        BY <1>1 DEF Alone
    <2>3. MadeOnce(x)'
        BY <1>1, <1>5, <2>1, <2>2 DEF MadeOnce
    <2>4. SameFields(x)'
        BY <1>1, <1>5, <2>1, <2>2 DEF SameFields
    <2> QED
        BY <2>3, <2>4
<1>7. Shelved'
    <2>1. \A r \in Req : req'[r].x \in Item => local'[req'[r].x].st # "none"
        BY <1>5
    <2>2. \A r \in Req : req'[r].pc \in {"stamp", "update"} => req'[r].n \in DOMAIN catalog'[req'[r].x]
        BY <1>0, <1>1 DEF Shelved
    <2>3. catalog' \in [Item -> Seq(BOOLEAN)]
        BY <1>0, <1>1
    <2> QED
        BY <1>5, <1>6, <2>1, <2>2, <2>3 DEF Shelved
<1> QED
    BY <1>1, <1>7, OthersStay DEF IInv

\* The settings, and a step that changes nothing.
LEMMA SettledStep ==
    ASSUME IInv, UNCHANGED <<local, catalog, cust, row, now, owner, sent, answered, log, req, hist>>
    PROVE  IInv'
<1>1. ShelvedCalm
    BY DEF ShelvedCalm
<1> QED
    BY <1>1, OthersStay, ShelvedStays DEF IInv

-----------------------------------------------------------------------------
(* Steps about sales *)

\* The columns of an event.
LEMMA EventFields ==
    ASSUME NEW x, NEW n PROVE EventOf(x, n).x = x /\ EventOf(x, n).n = n
BY DEF EventOf

\* An event is known by what it is about and which state it announces.
LEMMA EventIs ==
    ASSUME NEW e \in Event PROVE e = EventOf(e.x, e.n) /\ e.n \in Nat /\ e.x \in Sale \cup {"customer"}
BY DEF Event, EventOf

\* A sale moves on at Stripe, which announces it.
LEMMA SoldRaise ==
    ASSUME Sold, NEW s \in Sale, NEW n \in 1 .. Last, now[s] < n, now' = [now EXCEPT ![s] = n], row' = row,
           hist'.applied = hist.applied, hist'.late = hist.late, sent \subseteq sent',
           \A e \in sent' : e \in sent \/ e = EventOf(s, n) \/ e.x \notin Sale,
           EventOf(s, n) \in sent' \/ (s \in Payment /\ n = 1),
           \A q \in Req : req'[q].pc \in Applying => req'[q].n \in 1 .. now'[req'[q].x],
           \A q \in Req : req'[q].pc \in Buying => now'[req'[q].x] = 0,
           \A r, q \in Req : req'[r].pc \in Buying /\ req'[q].x = req'[r].x => q = r
    PROVE  Sold'
<1>1. now \in [Sale -> 0 .. Last] /\ row \in [Sale -> Nat] /\ Last \in Nat
    BY DEF Sold
<1>2. /\ now' \in [Sale -> 0 .. Last] /\ now'[s] = n /\ \A t \in Sale : t # s => now'[t] = now[t]
      /\ \A t \in Sale : now[t] \in Nat /\ now'[t] \in Nat /\ now[t] <= now'[t]
    BY <1>1
<1>3. \A t \in Sale : row[t] <= now'[t]
    <2> SUFFICES ASSUME NEW t \in Sale PROVE row[t] <= now'[t]
        OBVIOUS
    <2>1. row[t] <= now[t] /\ row[t] \in Nat
        BY <1>1 DEF Sold
    <2> QED
        BY <1>2, <2>1
<1>4. \A t \in Sale : now'[t] # 0 => EventOf(t, now'[t]) \in sent' \/ (t \in Payment /\ now'[t] = 1)
    <2> SUFFICES ASSUME NEW t \in Sale, now'[t] # 0
                 PROVE  EventOf(t, now'[t]) \in sent' \/ (t \in Payment /\ now'[t] = 1)
        OBVIOUS
    <2>1. CASE t = s
        BY <1>2, <2>1
    <2>2. CASE t # s
        BY <1>2, <2>2 DEF Sold
    <2> QED
        BY <2>1, <2>2
<1>5. \A e \in sent' : e.x \in Sale => e.n \in 1 .. now'[e.x]
    <2> SUFFICES ASSUME NEW e \in sent', e.x \in Sale PROVE e.n \in 1 .. now'[e.x]
        OBVIOUS
    <2>1. CASE e \in sent
        <3>1. e.n \in 1 .. now[e.x]
            BY <2>1 DEF Sold
        <3> QED
            BY <1>2, <3>1
    <2>2. CASE e = EventOf(s, n)
        <3>1. e.x = s /\ e.n = n
            BY <2>2, EventFields
        <3> QED
            BY <1>2, <3>1
    <2> QED
        BY <2>1, <2>2
<1>8. \A e \in hist'.applied : e.x \in Sale => e.n <= row[e.x] \/ e.x \in hist'.late
    BY DEF Sold
<1> QED
    BY <1>1, <1>2, <1>3, <1>4, <1>5, <1>8 DEF Sold

\* What applying requests are about.
LEMMA ApplyingFields ==
    ASSUME Requests, NEW r \in Req, req[r].pc \in Applying PROVE req[r].x \in Sale
<1>1. FitAt(req[r].pc, req[r].x, req[r].then)
    BY LocalFields
<1> QED
    BY <1>1 DEF FitAt, Applying, Sale

\* The requests at work on sales, when one sale has moved on.
LEMMA RaiseRequests ==
    ASSUME Sold, Requests, NEW s \in Sale, NEW n \in 1 .. Last, now[s] < n, now' = [now EXCEPT ![s] = n]
    PROVE  \A q \in Req : /\ req[q].pc \in Applying => req[q].n \in 1 .. now'[req[q].x]
                          /\ req[q].pc \in Buying /\ req[q].x # s => now'[req[q].x] = 0
<1>1. now \in [Sale -> 0 .. Last] /\ Last \in Nat
    BY DEF Sold
<1>2. /\ now'[s] = n /\ \A t \in Sale : t # s => now'[t] = now[t]
      /\ \A t \in Sale : now[t] \in Nat /\ now'[t] \in Nat /\ now[t] <= now'[t]
    BY <1>1
<1>3. ASSUME NEW q \in Req, req[q].pc \in Applying PROVE req[q].n \in 1 .. now'[req[q].x]
    <2>1. req[q].x \in Sale /\ req[q].n \in 1 .. now[req[q].x]
        BY <1>3, ApplyingFields DEF Sold
    <2> QED
        BY <1>2, <2>1
<1>4. ASSUME NEW q \in Req, req[q].pc \in Buying, req[q].x # s PROVE now'[req[q].x] = 0
    <2>1. req[q].x \in Sale /\ now[req[q].x] = 0
        BY <1>4, BuyingFields DEF Sold
    <2> QED
        BY <1>2, <1>4, <2>1
<1> QED
    BY <1>3, <1>4

\* A sale progresses.
LEMMA ProgressStep == ASSUME IInv, NEW s \in Sale, Progress(s) PROVE IInv'
<1>0. Requests /\ hist \in History /\ Counted /\ Sold /\ now \in [Sale -> 0 .. Last] /\ sent \subseteq Event
    BY DEF IInv, Sold, Counted
<1>1. UNCHANGED <<local, catalog, owner, cust, row, answered, log, req, hist>> /\ now[s] \in 1 .. (Last - 1)
    BY DEF Progress, mirror, events
<1>2. PICK n \in 1 .. Last : n = now[s] + 1 /\ n # 1
    BY <1>1
<1>3. now' = [now EXCEPT ![s] = n] /\ sent' = sent \cup {EventOf(s, n)} /\ now[s] < n /\ now[s] # 0
    BY <1>0, <1>1, <1>2 DEF Progress, Announce
<1>4. EventOf(s, n) \in Event
    BY DEF EventOf, Event
<1>5. \A q \in Req : req[q].pc \in Buying => req[q].x # s
    BY <1>0, <1>3 DEF Sold
<1>6. \A q \in Req : /\ req'[q].pc \in Applying => req'[q].n \in 1 .. now'[req'[q].x]
                     /\ req'[q].pc \in Buying => now'[req'[q].x] = 0
    BY <1>0, <1>1, <1>3, <1>5, RaiseRequests
<1>7. \A r, q \in Req : req[r].pc \in Buying /\ req[q].x = req[r].x => q = r
    BY <1>0 DEF Sold
<1>8. Sold'
    BY <1>0, <1>1, <1>3, <1>6, <1>7, SoldRaise
<1>9. Requests'
    BY <1>0, <1>1 DEF Requests
<1>10. CountedCalm
    BY <1>0, <1>1, <1>3, <1>4 DEF CountedCalm, Dispatching
<1>11. ShelvedCalm
    BY <1>1 DEF ShelvedCalm
<1>12. KnownCalm
    BY <1>1 DEF KnownCalm
<1> QED
    BY <1>0, <1>1, <1>8, <1>9, <1>10, <1>11, <1>12, CountedStays, ShelvedStays, KnownStays DEF IInv

\* CancelSubscription.
LEMMA CancelSubscriptionStep == ASSUME IInv, NEW r \in Req, NEW s \in Sale, CancelSubscription(r, s) PROVE IInv'
<1>0. /\ Requests /\ hist \in History /\ Counted /\ Sold /\ now \in [Sale -> 0 .. Last] /\ sent \subseteq Event
      /\ row \in [Sale -> Nat] /\ row[s] <= now[s]
    BY DEF IInv, Sold, Counted
<1>1. /\ UNCHANGED <<local, catalog, owner, cust, row, answered, log, hist>>
      /\ row[s] # 0 /\ now[s] < Last /\ s \in Subscription /\ req[r] = Idle /\ s \notin Item /\ s \in Thing
      /\ req' = [req EXCEPT ![r] = [Begin("owner", s) EXCEPT !.n = Last]]
    BY DEF CancelSubscription, mirror, events, Thing
<1>2. PICK n \in 1 .. Last : n = Last
    OBVIOUS
<1>3. now' = [now EXCEPT ![s] = n] /\ sent' = sent \cup {EventOf(s, n)} /\ now[s] < n /\ now[s] # 0
    BY <1>0, <1>1, <1>2 DEF CancelSubscription, Announce
<1>4. EventOf(s, n) \in Event
    BY DEF EventOf, Event
<1>5. /\ Requests' /\ Moves(r) /\ req'[r].pc = "owner" /\ req'[r].x = s /\ req'[r].n = n /\ req'[r].c = 0
      /\ req'[r].then = "idle"
    <2>1. PICK b \in BOOLEAN : Begin("owner", s) = Started("owner", s, 0, b, "idle")
        BY BeginPlain
    <2>2. PICK y : y = Started("owner", s, n, b, "idle")
        OBVIOUS
    <2>3. y = [Begin("owner", s) EXCEPT !.n = n]
        BY <2>1, <2>2 DEF Started
    <2>4. req' = [req EXCEPT ![r] = y]
        BY <1>1, <1>2, <2>3
    <2>5. "owner" \in Statement /\ "idle" \in Return /\ FitAt("owner", s, "idle") /\ n \in Nat /\ "owner" # "idle"
        BY <1>1 DEF Statement, Applying, Return, FitAt, Shelving, Buying
    <2>6. /\ y \in Local /\ Fit(y)
          /\ y.pc = "owner" /\ y.x = s /\ y.n = n /\ y.c = 0 /\ y.then = "idle"
        BY <1>1, <2>1, <2>2, <2>5, BeginFields
    <2> QED
        BY <1>0, <2>4, <2>6, ReqSet
<1>6. \A q \in Req : req[q].pc \in Buying => req[q].x # s
    BY <1>0, <1>3 DEF Sold
<1>7. \A q \in Req : req'[q].pc \in Buying => q # r
    BY <1>5 DEF Buying
<1>8. \A p, q \in Req : req'[p].pc \in Buying /\ req'[q].x = req'[p].x => q = p
    BY <1>0, <1>5, <1>6, <1>7 DEF Sold, Moves
<1>9. \A q \in Req : /\ req'[q].pc \in Applying => req'[q].n \in 1 .. now'[req'[q].x]
                     /\ req'[q].pc \in Buying => now'[req'[q].x] = 0
    <2>1. \A q \in Req : /\ req[q].pc \in Applying => req[q].n \in 1 .. now'[req[q].x]
                         /\ req[q].pc \in Buying /\ req[q].x # s => now'[req[q].x] = 0
        BY <1>0, <1>3, RaiseRequests
    <2>2. req'[r].n \in 1 .. now'[req'[r].x]
        BY <1>0, <1>3, <1>5
    <2> QED
        BY <1>5, <1>6, <1>7, <2>1, <2>2 DEF Moves
<1>10. Sold'
    <2>1. row' = row /\ hist'.applied = hist.applied /\ hist'.late = hist.late
        BY <1>1
    <2>2. /\ sent \subseteq sent' /\ EventOf(s, n) \in sent'
          /\ \A e \in sent' : e \in sent \/ e = EventOf(s, n) \/ e.x \notin Sale
        BY <1>3
    <2>3. now[s] < n /\ now' = [now EXCEPT ![s] = n]
        BY <1>3
    <2> QED
        BY <1>0, <1>7, <1>8, <1>9, <2>1, <2>2, <2>3, SoldRaise
<1>11. CountedCalm
    BY <1>0, <1>1, <1>3, <1>4, <1>5 DEF CountedCalm, Dispatching, Moves
<1>12. ShelvedCalm
    BY <1>1, <1>5, IdleFields DEF ShelvedCalm, Moves, Item
<1>13. KnownCalm
    BY <1>1, <1>5, IdleFields DEF KnownCalm, Moves
<1> QED
    BY <1>0, <1>1, <1>5, <1>10, <1>11, <1>12, <1>13, CountedStays, ShelvedStays, KnownStays DEF IInv

-----------------------------------------------------------------------------
(* Steps about customers *)

\* A customer that is steady stays so, and keeps its email.
SteadyKept ==
    \A c \in DOMAIN cust : Steady(c) =>
        Steady(c)' /\ c \in DOMAIN cust' /\ (cust[c] = "named" => cust'[c] = "named")

\* No customer is made, and none about to be mirrored is forgotten.
LEMMA OneCustomerStays ==
    ASSUME OneCustomer, SteadyKept, hist'.made = hist.made, hist.excused \subseteq hist'.excused,
           \A q \in Req : req'[q].pc \in {"newcustomer", "savecustomer"} => req[q].pc = req'[q].pc,
           \A q \in Req : req[q].pc = "savecustomer" => req'[q].pc = "savecustomer"
    PROVE  OneCustomer'
<1>1. CASE <<"customer", "copy">> \in hist.excused
    BY <1>1 DEF OneCustomer
<1>2. CASE <<"customer", "copy">> \notin hist.excused
    <2>1. /\ hist.made <= 1
          /\ \A r, q \in Making : q = r
          /\ \A r \in Req : req[r].pc = "newcustomer" => hist.made = 0
          /\ hist.made # 0 => \/ \E r \in Req : req[r].pc = "savecustomer"
                              \/ \E c \in DOMAIN cust : cust[c] = "named" /\ Steady(c)
        BY <1>2 DEF OneCustomer
    <2>2. \A r, q \in Making' : q = r
        BY <2>1 DEF Making
    <2>3. \A r \in Req : req'[r].pc = "newcustomer" => hist.made = 0
        BY <2>1
    <2>4. (\E c \in DOMAIN cust : cust[c] = "named" /\ Steady(c))
            => \E c \in DOMAIN cust' : cust'[c] = "named" /\ Steady(c)'
        BY DEF SteadyKept
    <2> QED
        BY <2>1, <2>2, <2>3, <2>4 DEF OneCustomer
<1> QED
    BY <1>1, <1>2

\* The customers after a step that makes none.
LEMMA KnownAt ==
    ASSUME Known, SteadyKept, cust' \in Seq({"none", "blank", "named"}),
           owner' \in [Sale -> 0 .. Len(cust')], \A q \in Req : req'[q].c \in 0 .. Len(cust'),
           \A q \in Req : req'[q].pc = "savecustomer" => req[q].pc = "savecustomer" /\ req'[q].c = req[q].c,
           OneCustomer'
    PROVE  Known'
<1>1. ASSUME NEW r \in Req, req'[r].pc = "savecustomer"
      PROVE  req'[r].c \in DOMAIN cust' /\ Steady(req[r].c)' /\ req'[r].c = req[r].c
    <2>1. req[r].pc = "savecustomer" /\ req'[r].c = req[r].c
        BY <1>1
    <2>2. PICK c : c = req[r].c
        OBVIOUS
    <2>3. c \in DOMAIN cust /\ Steady(c)
        BY <2>1, <2>2 DEF Known
    <2>4. Steady(c)' /\ c \in DOMAIN cust'
        BY <2>3 DEF SteadyKept
    <2> QED
        BY <2>1, <2>2, <2>4
<1> QED
    BY <1>1 DEF Known

\* Writing the row of a customer, if there is one.
LEMMA CustWrite ==
    ASSUME cust \in Seq({"none", "blank", "named"}), NEW i, NEW v \in {"none", "blank", "named"},
           cust' = [cust EXCEPT ![i] = v]
    PROVE  /\ cust' \in Seq({"none", "blank", "named"}) /\ Len(cust') = Len(cust) /\ DOMAIN cust' = DOMAIN cust
           /\ \A c \in DOMAIN cust : cust'[c] = IF c = i THEN v ELSE cust[c]
<1>1. PICK S : S = {"none", "blank", "named"}
    OBVIOUS
<1>2. PICK t : t = [cust EXCEPT ![i] = v]
    OBVIOUS
<1>3. cust \in Seq(S) /\ v \in S
    BY <1>1
<1>4. /\ t \in Seq(S) /\ Len(t) = Len(cust) /\ DOMAIN t = DOMAIN cust
      /\ \A c \in DOMAIN cust : t[c] = IF c = i THEN v ELSE cust[c]
    <2>1. CASE i \in DOMAIN cust
        BY <1>2, <1>3, <2>1, SeqSet
    <2>2. CASE i \notin DOMAIN cust
        <3>1. DOMAIN cust = 1 .. Len(cust) /\ cust \in [1 .. Len(cust) -> S]
            BY <1>3, LenProperties
        <3>2. t = cust
            BY <1>2, <2>2, <3>1
        <3> QED
            BY <1>3, <2>2, <3>2
    <2> QED
        BY <2>1, <2>2
<1>5. cust' = t
    BY <1>2
<1> QED
    BY <1>1, <1>4, <1>5

\* A checkout begins.
LEMMA CheckoutStep ==
    ASSUME IInv, NEW r \in Req, NEW s \in Sale, NEW email \in BOOLEAN, Checkout(r, s, email) PROVE IInv'
<1>0. /\ Requests /\ hist \in History /\ Counted /\ Sold /\ Shelved /\ Known
      /\ now \in [Sale -> 0 .. Last] /\ sent \subseteq Event
      /\ cust \in Seq({"none", "blank", "named"}) /\ owner \in [Sale -> 0 .. Len(cust)]
    BY DEF IInv, Sold, Counted, Known
<1>1. /\ UNCHANGED <<local, catalog, owner, cust, row, now, sent, answered, log, hist>>
      /\ req[r] = Idle /\ now[s] = 0 /\ \A q \in Req : req[q].x # s
    BY DEF Checkout, mirror, sales, events
<1>2. s \notin Item /\ s \in Thing /\ s # "none"
    BY DEF Thing
<1>3. PICK pc \in {"customer", "create"} : req' = [req EXCEPT ![r] = Begin(pc, s)]
    BY DEF Checkout
<1>4. /\ Requests' /\ Moves(r) /\ req'[r].pc = pc /\ req'[r].x = s /\ req'[r].n = 0 /\ req'[r].c = 0
      /\ req'[r].then = "idle"
    <2>1. PICK b \in BOOLEAN : Begin(pc, s) = Started(pc, s, 0, b, "idle")
        BY BeginPlain
    <2>2. PICK y : y = Started(pc, s, 0, b, "idle")
        OBVIOUS
    <2>4. req' = [req EXCEPT ![r] = y]
        BY <1>3, <2>1, <2>2
    <2>5. pc \in Statement /\ "idle" \in Return /\ FitAt(pc, s, "idle") /\ 0 \in Nat /\ pc # "idle"
        BY <1>1 DEF Statement, Return, FitAt, Shelving, Buying
    <2>6. /\ y \in Local /\ Fit(y)
          /\ y.pc = pc /\ y.x = s /\ y.n = 0 /\ y.c = 0 /\ y.then = "idle"
        BY <1>2, <2>1, <2>2, <2>5, BeginFields
    <2> QED
        BY <1>0, <2>4, <2>6, ReqSet
<1>5. Sold'
    <2>1. \A q \in Req : req'[q].pc \in Applying => req'[q].n \in 1 .. now[req'[q].x]
        BY <1>0, <1>3, <1>4 DEF Sold, Moves, Applying
    <2>2. \A q \in Req : req'[q].pc \in Buying => now[req'[q].x] = 0
        BY <1>0, <1>1, <1>4 DEF Sold, Moves
    <2>3. \A p, q \in Req : req'[p].pc \in Buying /\ req'[q].x = req'[p].x => q = p
        <3>1. \A p, q \in Req : req[p].pc \in Buying /\ req[q].x = req[p].x => q = p
            BY <1>0 DEF Sold
        <3>2. \A q \in Req : req'[q].x = s => q = r
            BY <1>1, <1>4 DEF Moves
        <3>3. \A p \in Req : p # r => req'[p] = req[p]
            BY <1>4 DEF Moves
        <3> QED
            BY <1>4, <3>1, <3>2, <3>3
    <2> QED
        BY <1>0, <1>1, <2>1, <2>2, <2>3 DEF Sold
<1>6. CountedCalm
    BY <1>0, <1>1, <1>4 DEF CountedCalm, Dispatching, Moves
<1>7. ShelvedCalm
    BY <1>1, <1>2, <1>4, IdleFields DEF ShelvedCalm, Moves, Item
<1>8. Known'
    <2>0. DOMAIN cust = 1 .. Len(cust) /\ Len(cust) \in Nat /\ req[r].pc = "idle"
        BY <1>0, <1>1, LenProperties, IdleFields
    <2>1. ASSUME NEW c \in DOMAIN cust, Steady(c) PROVE Steady(c)'
        <3>1. c # 0
            BY <2>0
        <3> QED
            BY <1>1, <1>3, <1>4, <2>1, <3>1 DEF Steady, Moves
    <2>2. SteadyKept
        BY <1>1, <2>1 DEF SteadyKept
    <2>3. \A q \in Req : req'[q].pc \in {"newcustomer", "savecustomer"} => q # r
        BY <1>3, <1>4
    <2>4. OneCustomer'
        BY <1>0, <1>1, <1>4, <2>0, <2>2, <2>3, OneCustomerStays DEF Known, Moves
    <2>5. \A q \in Req : req'[q].c \in 0 .. Len(cust)
        <3>1. \A q \in Req : req[q].c \in 0 .. Len(cust)
            BY <1>0 DEF Known
        <3>2. 0 \in 0 .. Len(cust)
            BY <2>0
        <3> QED
            BY <1>4, <3>1, <3>2 DEF Moves
    <2>6. \A q \in Req : req'[q].pc = "savecustomer" => req[q].pc = "savecustomer" /\ req'[q].c = req[q].c
        BY <1>4, <2>3 DEF Moves
    <2> QED
        BY <1>0, <1>1, <2>2, <2>4, <2>5, <2>6, KnownAt
<1> QED
    BY <1>0, <1>1, <1>4, <1>5, <1>6, <1>7, <1>8, CountedStays, ShelvedStays DEF IInv

\* A subscription is made in Stripe's dashboard, with its customer.
LEMMA SubscribeAtStripeStep == ASSUME IInv, NEW s \in Sale, SubscribeAtStripe(s) PROVE IInv'
<1>0. /\ Requests /\ hist \in History /\ Counted /\ Sold /\ Shelved /\ Known
      /\ now \in [Sale -> 0 .. Last] /\ sent \subseteq Event
      /\ cust \in Seq({"none", "blank", "named"}) /\ owner \in [Sale -> 0 .. Len(cust)]
    BY DEF IInv, Sold, Counted, Known
<1>1. /\ UNCHANGED <<local, catalog, row, answered, log, req, hist>>
      /\ now[s] = 0 /\ \A r \in Req : req[r].x # s
    BY DEF SubscribeAtStripe, mirror, sales, events
<1>2. PICK m \in Nat : m = Len(cust) + 1
    BY <1>0, LenProperties
<1>3. PICK n \in 1 .. Last : n = 1
    OBVIOUS
<1>4. /\ now' = [now EXCEPT ![s] = n] /\ owner' = [owner EXCEPT ![s] = m] /\ cust' = Append(cust, "none")
      /\ sent' = sent \cup {EventOf(s, n), EventOf("customer", m)} /\ now[s] < n
    BY <1>0, <1>1, <1>2, <1>3 DEF SubscribeAtStripe
<1>5. EventOf(s, n) \in Event /\ EventOf("customer", m) \in Event /\ EventOf("customer", m).x \notin Sale
    BY DEF EventOf, Event
<1>6. Sold'
    <2>1. \A q \in Req : /\ req'[q].pc \in Applying => req'[q].n \in 1 .. now'[req'[q].x]
                         /\ req'[q].pc \in Buying => now'[req'[q].x] = 0
        BY <1>0, <1>1, <1>4, RaiseRequests
    <2>2. \A r, q \in Req : req'[r].pc \in Buying /\ req'[q].x = req'[r].x => q = r
        BY <1>0, <1>1 DEF Sold
    <2>3. /\ sent \subseteq sent' /\ EventOf(s, n) \in sent'
          /\ \A e \in sent' : e \in sent \/ e = EventOf(s, n) \/ e.x \notin Sale
        BY <1>4, <1>5
    <2>4. row' = row /\ hist'.applied = hist.applied /\ hist'.late = hist.late
        BY <1>1
    <2> QED
        BY <1>0, <1>4, <2>1, <2>2, <2>3, <2>4, SoldRaise
<1>7. Requests'
    BY <1>0, <1>1 DEF Requests
<1>8. CountedCalm
    BY <1>0, <1>1, <1>4, <1>5 DEF CountedCalm, Dispatching
<1>9. ShelvedCalm
    BY <1>1 DEF ShelvedCalm
<1>10. Known'
    <2>0. /\ cust' \in Seq({"none", "blank", "named"}) /\ Len(cust') = m /\ Len(cust) \in Nat
          /\ DOMAIN cust = 1 .. Len(cust) /\ DOMAIN cust' = 1 .. m /\ \A c \in DOMAIN cust : cust'[c] = cust[c]
        BY <1>0, <1>2, <1>4, SeqAdd
    <2>1. owner' \in [Sale -> 0 .. m] /\ owner'[s] = m /\ \A t \in Sale : t # s => owner'[t] = owner[t]
        BY <1>0, <1>2, <1>4, <2>0
    <2>2. ASSUME NEW c \in DOMAIN cust, Steady(c) PROVE Steady(c)' /\ c \in DOMAIN cust' /\ cust'[c] = cust[c]
        <3>1. c # m /\ c \in DOMAIN cust' /\ cust'[c] = cust[c]
            BY <1>2, <2>0
        <3>2. ASSUME NEW q \in Req, req[q].pc = "mirror" PROVE owner'[req[q].x] # c
            <4>1. req[q].x \in Sale
                BY <1>0, <3>2, ApplyingFields DEF Applying
            <4>2. owner[req[q].x] # c
                BY <2>2, <3>2 DEF Steady
            <4> QED
                BY <2>1, <3>1, <4>1, <4>2
        <3>3. (\A t \in Sale : owner[t] # c) => \A t \in Sale : owner'[t] # c
            BY <2>1, <3>1
        <3>4. Steady(c)'
            BY <1>1, <2>2, <3>1, <3>2, <3>3 DEF Steady
        <3> QED
            BY <3>1, <3>4
    <2>3. SteadyKept
        BY <2>2 DEF SteadyKept
    <2>4. OneCustomer'
        BY <1>0, <1>1, <2>3, OneCustomerStays DEF Known
    <2>5. \A q \in Req : req'[q].c \in 0 .. Len(cust')
        BY <1>0, <1>1, <1>2, <2>0 DEF Known
    <2> QED
        BY <1>0, <1>1, <2>0, <2>1, <2>3, <2>4, <2>5, KnownAt
<1> QED
    BY <1>0, <1>1, <1>6, <1>7, <1>8, <1>9, <1>10, CountedStays, ShelvedStays DEF IInv

\* A request goes on with a sale: the catalog and the events are left alone.
LEMMA SaleOnly ==
    ASSUME IInv, Requests', NEW r \in Req, Moves(r), UNCHANGED <<local, catalog, answered, log>>,
           sent' \subseteq Event, hist'.applied = hist.applied, hist'.again = hist.again,
           hist'.missed = hist.missed, hist.excused \subseteq hist'.excused,
           req[r].x \in Sale, req'[r].x = req[r].x, req[r].pc # "mark", req'[r].pc # "mark",
           req'[r].then = "mark" => req[r].then = "mark" /\ req'[r].n = req[r].n
    PROVE  Counted' /\ Shelved'
<1>1. CountedCalm
    BY DEF CountedCalm, Dispatching, Moves
<1>2. ShelvedCalm
    BY DEF ShelvedCalm, Moves
<1> QED
    BY <1>1, <1>2, CountedStays, ShelvedStays DEF IInv

\* ensureCustomer.
LEMMA EnsureCustomerStep == ASSUME IInv, NEW r \in Req, EnsureCustomer(r) PROVE IInv'
<1>0. /\ Requests /\ hist \in History /\ Sold /\ Known /\ sent \subseteq Event
      /\ cust \in Seq({"none", "blank", "named"}) /\ owner \in [Sale -> 0 .. Len(cust)]
    BY DEF IInv, Counted, Known
<1>1. UNCHANGED <<local, catalog, owner, cust, row, now, sent, answered, log>> /\ req[r].pc = "customer"
    BY DEF EnsureCustomer, mirror, sales, events
<1>2. req[r].x \in Sale /\ req[r].then = "idle" /\ req[r] \in Local
    BY <1>0, <1>1, BuyingFields, LocalFields DEF Buying
<1>3. DOMAIN cust = 1 .. Len(cust) /\ Len(cust) \in Nat
    BY <1>0, LenProperties
<1>4. CASE (\E c \in Named : req' = [req EXCEPT ![r].pc = "create", ![r].c = c]) /\ hist' = hist
    <2>1. PICK c \in Named : req' = [req EXCEPT ![r].pc = "create", ![r].c = c]
        BY <1>4
    <2>2. c \in DOMAIN cust /\ cust[c] = "named" /\ c \in Nat /\ c \in 0 .. Len(cust)
        BY <1>3, <2>1 DEF Named
    <2>3. PICK y : y = [[req[r] EXCEPT !.pc = "create"] EXCEPT !.c = c]
        OBVIOUS
    <2>4. req' = [req EXCEPT ![r] = y]
        BY <1>0, <2>1, <2>3 DEF Requests
    <2>5. /\ y \in Local /\ y.pc = "create" /\ y.x = req[r].x /\ y.c = c /\ y.n = req[r].n /\ y.then = "idle"
        BY <1>2, <2>2, <2>3 DEF Local, Statement, Buying
    <2>6. Fit(y)
        BY <1>2, <2>5 DEF Fit, FitAt, Shelving, Buying
    <2>7. /\ Requests' /\ Moves(r) /\ req'[r].pc = "create" /\ req'[r].x = req[r].x /\ req'[r].c = c
          /\ req'[r].n = req[r].n /\ req'[r].then = "idle"
        BY <1>0, <2>4, <2>5, <2>6, ReqSet
    <2>8. SoldCalm
        BY <1>1, <1>4, <2>7 DEF SoldCalm, Moves, Applying, Buying
    <2>9. Counted' /\ Shelved'
        BY <1>0, <1>1, <1>2, <1>4, <2>7, SaleOnly
    <2>10. Known'
        <3>1. ASSUME NEW d \in DOMAIN cust, Steady(d) PROVE Steady(d)'
            BY <1>1, <2>2, <2>7, <3>1 DEF Steady, Moves
        <3>2. SteadyKept
            BY <1>1, <3>1 DEF SteadyKept
        <3>3. \A q \in Req : req'[q].pc \in {"newcustomer", "savecustomer"} => q # r
            BY <2>7
        <3>4. OneCustomer'
            BY <1>0, <1>1, <1>4, <2>7, <3>2, <3>3, OneCustomerStays DEF Known, Moves
        <3>5. \A q \in Req : req'[q].c \in 0 .. Len(cust)
            BY <1>0, <2>2, <2>7 DEF Known, Moves
        <3>6. \A q \in Req : req'[q].pc = "savecustomer" => req[q].pc = "savecustomer" /\ req'[q].c = req[q].c
            BY <2>7, <3>3 DEF Moves
        <3> QED
            BY <1>0, <1>1, <3>2, <3>4, <3>5, <3>6, KnownAt
    <2> QED
        BY <1>0, <1>4, <2>7, <2>8, <2>9, <2>10, SoldStays DEF IInv
<1>5. CASE Named = {} /\ Go(r, "newcustomer") /\ Excuse(IF Making = {} THEN {} ELSE {<<"customer", "copy">>})
    <2>1. PICK why : why = IF Making = {} THEN {} ELSE {<<"customer", "copy">>}
        OBVIOUS
    <2>2. Excuse(why) /\ why \in SUBSET (Thing \X {"copy", "fields"})
        BY <1>5, <2>1 DEF Thing
    <2>3. OnlyExcuses /\ hist'.excused = hist.excused \cup why
        BY <1>0, <2>2, ExcuseFields
    <2>4. "newcustomer" \in Statement /\ FitAt("newcustomer", req[r].x, req[r].then) /\ Go(r, "newcustomer")
        BY <1>2, <1>5 DEF Statement, Buying, FitAt, Shelving
    <2>5. /\ Requests' /\ Moves(r) /\ req'[r].pc = "newcustomer" /\ req'[r].x = req[r].x /\ req'[r].c = req[r].c
          /\ req'[r].n = req[r].n /\ req'[r].then = "idle"
        BY <1>0, <1>2, <2>4, GoOn
    <2>6. SoldCalm
        BY <1>1, <2>3, <2>5 DEF SoldCalm, Moves, Applying, Buying, OnlyExcuses
    <2>7. Counted' /\ Shelved'
        BY <1>0, <1>1, <1>2, <2>3, <2>5, SaleOnly DEF OnlyExcuses
    <2>8. Known'
        <3>1. ASSUME NEW d \in DOMAIN cust, Steady(d) PROVE Steady(d)'
            BY <1>1, <2>5, <3>1 DEF Steady, Moves
        <3>2. SteadyKept
            BY <1>1, <3>1 DEF SteadyKept
        <3>4. OneCustomer'
            <4>1. CASE <<"customer", "copy">> \in hist'.excused
                BY <4>1 DEF OneCustomer
            <4>2. CASE <<"customer", "copy">> \notin hist'.excused
                <5>1. Making = {} /\ <<"customer", "copy">> \notin hist.excused
                    BY <2>1, <2>3, <4>2
                <5>2. hist.made = 0
                    BY <1>0, <1>5, <5>1 DEF Known, OneCustomer, Making, Named
                <5>3. \A q \in Making' : q = r
                    BY <2>5, <5>1 DEF Making, Moves
                <5>4. hist'.made = 0
                    BY <2>3, <5>2 DEF OnlyExcuses
                <5> QED
                    BY <5>3, <5>4 DEF OneCustomer
            <4> QED
                BY <4>1, <4>2
        <3>5. \A q \in Req : req'[q].c \in 0 .. Len(cust)
            BY <1>0, <2>5 DEF Known, Moves
        <3>6. \A q \in Req : req'[q].pc = "savecustomer" => req[q].pc = "savecustomer" /\ req'[q].c = req[q].c
            BY <2>5 DEF Moves
        <3> QED
            BY <1>0, <1>1, <3>2, <3>4, <3>5, <3>6, KnownAt
    <2> QED
        BY <1>0, <2>3, <2>5, <2>6, <2>7, <2>8, SoldStays DEF IInv, OnlyExcuses
<1> QED
    BY <1>4, <1>5 DEF EnsureCustomer

\* A customer is made at Stripe ...
LEMMA CreateCustomerStep == ASSUME IInv, NEW r \in Req, CreateCustomer(r) PROVE IInv'
<1>0. /\ Requests /\ hist \in History /\ Sold /\ Known /\ sent \subseteq Event
      /\ cust \in Seq({"none", "blank", "named"}) /\ owner \in [Sale -> 0 .. Len(cust)]
    BY DEF IInv, Counted, Known
<1>1. UNCHANGED <<local, catalog, owner, row, now, answered, log>> /\ req[r].pc = "newcustomer"
    BY DEF CreateCustomer, events
<1>2. req[r].x \in Sale /\ req[r].then = "idle" /\ req[r] \in Local
    BY <1>0, <1>1, BuyingFields, LocalFields DEF Buying
<1>3. PICK m \in Nat : m = Len(cust) + 1
    BY <1>0, LenProperties
<1>4. cust' = Append(cust, "none") /\ sent' = sent \cup {EventOf("customer", m)}
    BY <1>3 DEF CreateCustomer
<1>5. /\ cust' \in Seq({"none", "blank", "named"}) /\ Len(cust') = m /\ Len(cust) \in Nat
      /\ DOMAIN cust = 1 .. Len(cust) /\ DOMAIN cust' = 1 .. m /\ cust'[m] = "none"
      /\ \A c \in DOMAIN cust : cust'[c] = cust[c]
    BY <1>0, <1>3, <1>4, SeqAdd
<1>6. EventOf("customer", m) \in Event /\ EventOf("customer", m).x \notin Sale
    BY DEF EventOf, Event
<1>7. /\ Requests' /\ Moves(r) /\ req'[r].pc = "savecustomer" /\ req'[r].x = req[r].x /\ req'[r].c = m
      /\ req'[r].n = req[r].n /\ req'[r].then = "idle"
    <2>1. PICK y : y = [[req[r] EXCEPT !.pc = "savecustomer"] EXCEPT !.c = m]
        OBVIOUS
    <2>2. req' = [req EXCEPT ![r] = y]
        BY <1>0, <1>3, <2>1 DEF Requests, CreateCustomer
    <2>3. y \in Local /\ y.pc = "savecustomer" /\ y.x = req[r].x /\ y.c = m /\ y.n = req[r].n /\ y.then = "idle"
        BY <1>2, <2>1 DEF Local, Statement, Buying
    <2>4. Fit(y)
        BY <1>2, <2>3 DEF Fit, FitAt, Shelving, Buying
    <2> QED
        BY <1>0, <2>2, <2>3, <2>4, ReqSet
<1>8. /\ hist' \in History /\ hist'.made = hist.made + 1 /\ hist'.applied = hist.applied /\ hist'.again = hist.again
      /\ hist'.late = hist.late /\ hist'.missed = hist.missed /\ hist'.excused = hist.excused
    <2>1. PICK k \in Nat : k = hist.made + 1
        BY <1>0, HistFields
    <2>2. hist' = [hist EXCEPT !.made = k]
        BY <2>1 DEF CreateCustomer
    <2>3. /\ hist' \in History /\ hist'.made = k /\ hist'.applied = hist.applied /\ hist'.again = hist.again
          /\ hist'.late = hist.late /\ hist'.missed = hist.missed /\ hist'.excused = hist.excused
        BY <1>0, <2>2 DEF History
    <2> QED
        BY <2>1, <2>3
<1>9. SoldCalm
    BY <1>1, <1>4, <1>6, <1>7, <1>8 DEF SoldCalm, Moves, Applying, Buying
<1>10. Counted' /\ Shelved'
    <2>1. sent' \subseteq Event
        BY <1>0, <1>4, <1>6
    <2> QED
        BY <1>1, <1>2, <1>7, <1>8, <2>1, SaleOnly
<1>11. Known'
    <2>1. ASSUME NEW c \in DOMAIN cust, Steady(c) PROVE Steady(c)'
        BY <1>1, <1>5, <1>7, <2>1 DEF Steady, Moves
    <2>2. owner \in [Sale -> 0 .. m] /\ \A s \in Sale : owner[s] # m
        BY <1>0, <1>3, <1>5
    <2>3. \A q \in Req : req[q].c \in 0 .. m /\ req[q].c # m
        <3>1. \A q \in Req : req[q].c \in 0 .. Len(cust)
            BY <1>0 DEF Known
        <3> QED
            BY <1>3, <1>5, <3>1
    <2>4. Steady(m)'
        <3>1. \A q \in Req : req'[q].pc = "mirror" => req'[q].x \in Sale
            BY <1>7 DEF Requests, Fit, FitAt, Sale
        <3> QED
            BY <1>1, <1>5, <1>7, <2>2, <2>3, <3>1 DEF Steady, Moves
    <2>5. ASSUME NEW q \in Req, req'[q].pc = "savecustomer"
          PROVE  req'[q].c \in DOMAIN cust' /\ Steady(req[q].c)'
        <3>1. CASE q = r
            <4>1. req'[q].c = m /\ m \in DOMAIN cust'
                BY <1>3, <1>5, <1>7, <3>1
            <4> QED
                BY <2>4, <4>1
        <3>2. CASE q # r
            <4>1. req'[q] = req[q] /\ req[q].pc = "savecustomer"
                BY <1>7, <2>5, <3>2 DEF Moves
            <4>2. PICK c : c = req[q].c
                OBVIOUS
            <4>3. c \in DOMAIN cust /\ Steady(c)
                BY <1>0, <4>1, <4>2 DEF Known
            <4>4. Steady(c)' /\ c \in DOMAIN cust'
                BY <1>3, <1>5, <2>1, <4>3
            <4> QED
                BY <4>1, <4>2, <4>4
        <3> QED
            BY <3>1, <3>2
    <2>6. OneCustomer'
        <3>1. CASE <<"customer", "copy">> \in hist.excused
            BY <1>8, <3>1 DEF OneCustomer
        <3>2. CASE <<"customer", "copy">> \notin hist.excused
            <4>1. hist.made = 0 /\ \A p, q \in Making : q = p
                BY <1>0, <1>1, <3>2 DEF Known, OneCustomer
            <4>2. \A q \in Req : req[q].pc \in {"newcustomer", "savecustomer"} => q = r
                BY <1>1, <4>1 DEF Making
            <4>3. \A q \in Making' : q = r
                BY <1>7, <4>2 DEF Making, Moves
            <4>4. \A q \in Req : req'[q].pc # "newcustomer"
                BY <1>7, <4>2 DEF Moves
            <4>5. hist'.made = 1
                BY <1>8, <4>1
            <4> QED
                BY <1>7, <4>3, <4>4, <4>5 DEF OneCustomer
        <3> QED
            BY <3>1, <3>2
    <2>7. \A q \in Req : req'[q].c \in 0 .. Len(cust')
        BY <1>5, <1>7, <2>3 DEF Moves
    <2> QED
        BY <1>1, <1>5, <2>2, <2>5, <2>6, <2>7 DEF Known
<1> QED
    BY <1>7, <1>8, <1>9, <1>10, <1>11, SoldStays DEF IInv

\* ... and mirrored.
LEMMA SaveCustomerStep == ASSUME IInv, NEW r \in Req, SaveCustomer(r) PROVE IInv'
<1>0. /\ Requests /\ hist \in History /\ Sold /\ Known /\ sent \subseteq Event
      /\ cust \in Seq({"none", "blank", "named"}) /\ owner \in [Sale -> 0 .. Len(cust)]
    BY DEF IInv, Counted, Known
<1>1. /\ UNCHANGED <<local, catalog, owner, row, now, sent, answered, log, hist>> /\ req[r].pc = "savecustomer"
      /\ Go(r, "create")
    BY DEF SaveCustomer, events, sales
<1>2. req[r].x \in Sale /\ req[r].then = "idle" /\ req[r] \in Local
    BY <1>0, <1>1, BuyingFields, LocalFields DEF Buying
<1>3. PICK m : m = req[r].c
    OBVIOUS
<1>4. m \in DOMAIN cust /\ Steady(m)
    BY <1>0, <1>1, <1>3 DEF Known
<1>5. cust' = [cust EXCEPT ![m] = "named"]
    BY <1>3 DEF SaveCustomer
<1>6. /\ cust' \in Seq({"none", "blank", "named"}) /\ Len(cust') = Len(cust) /\ DOMAIN cust' = DOMAIN cust
      /\ \A c \in DOMAIN cust : cust'[c] = IF c = m THEN "named" ELSE cust[c]
    BY <1>0, <1>5, CustWrite
<1>7. /\ Requests' /\ Moves(r) /\ req'[r].pc = "create" /\ req'[r].x = req[r].x /\ req'[r].c = m
      /\ req'[r].n = req[r].n /\ req'[r].then = "idle"
    <2>1. "create" \in Statement /\ FitAt("create", req[r].x, req[r].then)
        BY <1>2 DEF Statement, Buying, FitAt, Shelving
    <2> QED
        BY <1>0, <1>1, <1>2, <1>3, <2>1, GoOn
<1>8. SoldCalm
    BY <1>1, <1>7 DEF SoldCalm, Moves, Applying, Buying
<1>9. Counted' /\ Shelved'
    BY <1>0, <1>1, <1>2, <1>7, SaleOnly
<1>10. Known'
    <2>1. ASSUME NEW c \in DOMAIN cust, Steady(c) PROVE Steady(c)' /\ (cust[c] = "named" => cust'[c] = "named")
        <3>1. \A q \in Req : req'[q].pc = "mirror" => owner'[req'[q].x] # c
            BY <1>1, <1>7, <2>1 DEF Steady, Moves
        <3>2. CASE c = m
            BY <1>6, <3>1, <3>2 DEF Steady
        <3>3. CASE c # m
            BY <1>1, <1>6, <1>7, <2>1, <3>1, <3>3 DEF Steady, Moves
        <3> QED
            BY <3>2, <3>3
    <2>2. SteadyKept
        BY <1>6, <2>1 DEF SteadyKept
    <2>3. OneCustomer'
        <3>1. CASE <<"customer", "copy">> \in hist.excused
            BY <1>1, <3>1 DEF OneCustomer
        <3>2. CASE <<"customer", "copy">> \notin hist.excused
            <4>1. /\ hist.made <= 1 /\ \A p, q \in Making : q = p
                  /\ \A q \in Req : req[q].pc = "newcustomer" => hist.made = 0
                BY <1>0, <3>2 DEF Known, OneCustomer
            <4>2. \A p, q \in Making' : q = p
                BY <1>7, <4>1 DEF Making, Moves
            <4>3. \A q \in Req : req'[q].pc = "newcustomer" => hist.made = 0
                BY <1>7, <4>1 DEF Moves
            <4>4. m \in DOMAIN cust' /\ cust'[m] = "named" /\ Steady(m)'
                BY <1>4, <1>6, <2>1
            <4> QED
                BY <1>1, <4>1, <4>2, <4>3, <4>4 DEF OneCustomer
        <3> QED
            BY <3>1, <3>2
    <2>4. \A q \in Req : req'[q].c \in 0 .. Len(cust')
        BY <1>0, <1>3, <1>6, <1>7 DEF Known, Moves
    <2>5. \A q \in Req : req'[q].pc = "savecustomer" => req[q].pc = "savecustomer" /\ req'[q].c = req[q].c
        BY <1>7 DEF Moves
    <2>6. owner' \in [Sale -> 0 .. Len(cust')]
        BY <1>0, <1>1, <1>6
    <2> QED
        BY <1>0, <1>6, <2>2, <2>3, <2>4, <2>5, <2>6, KnownAt
<1> QED
    BY <1>0, <1>1, <1>7, <1>8, <1>9, <1>10, SoldStays DEF IInv

\* CreatePaymentIntent or CreateSubscription at Stripe.
LEMMA CreateSaleStep == ASSUME IInv, NEW r \in Req, CreateSale(r) PROVE IInv'
<1>0. /\ Requests /\ hist \in History /\ Sold /\ Known /\ sent \subseteq Event
      /\ now \in [Sale -> 0 .. Last]
      /\ cust \in Seq({"none", "blank", "named"}) /\ owner \in [Sale -> 0 .. Len(cust)]
    BY DEF IInv, Counted, Known, Sold
<1>1. UNCHANGED <<local, catalog, cust, row, answered, log, hist>> /\ req[r].pc = "create"
    BY DEF CreateSale, events, mirror
<1>2. req[r].x \in Sale /\ req[r].then = "idle" /\ req[r] \in Local /\ now[req[r].x] = 0
    BY <1>0, <1>1, BuyingFields, LocalFields DEF Buying, Sold
<1>3. PICK s \in Sale : s = req[r].x
    BY <1>2
<1>4. PICK m \in 0 .. Len(cust) : m = req[r].c
    BY <1>0 DEF Known
<1>5. PICK n \in 1 .. Last : n = 1
    OBVIOUS
<1>6. PICK pc \in {"save", "owner"} : pc = IF s \in Payment THEN "save" ELSE "owner"
    OBVIOUS
<1>7. /\ now' = [now EXCEPT ![s] = n] /\ owner' = [owner EXCEPT ![s] = m] /\ Announce(s, n) /\ now[s] < n
    BY <1>2, <1>3, <1>4, <1>5 DEF CreateSale
<1>8. /\ sent \subseteq sent' /\ (EventOf(s, n) \in sent' \/ (s \in Payment /\ n = 1))
      /\ (\A e \in sent' : e \in sent \/ e = EventOf(s, n) \/ e.x \notin Sale) /\ sent' \subseteq Event
    <2>1. EventOf(s, n) \in Event
        BY DEF EventOf, Event
    <2> QED
        BY <1>0, <1>7, <2>1 DEF Announce
<1>9. /\ Requests' /\ Moves(r) /\ req'[r].pc = pc /\ req'[r].x = s /\ req'[r].c = m
      /\ req'[r].n = n /\ req'[r].then = "idle"
    <2>1. PICK y : y = [[req[r] EXCEPT !.n = n] EXCEPT !.pc = pc]
        OBVIOUS
    <2>2. req' = [req EXCEPT ![r] = y]
        BY <1>0, <1>3, <1>5, <1>6, <2>1 DEF Requests, CreateSale
    <2>3. y \in Local /\ y.pc = pc /\ y.x = s /\ y.c = m /\ y.n = n /\ y.then = "idle"
        <3>1. n \in Nat /\ pc \in Statement
            BY DEF Statement, Applying
        <3>2. y \in Local /\ y.pc = pc /\ y.x = req[r].x /\ y.c = req[r].c /\ y.n = n /\ y.then = "idle"
            BY <1>2, <2>1, <3>1 DEF Local
        <3> QED
            BY <1>3, <1>4, <3>2
    <2>4. FitAt(pc, s, "idle")
        BY <1>6 DEF FitAt, Shelving, Buying, Sale
    <2>5. Fit(y)
        BY <2>3, <2>4 DEF Fit
    <2> QED
        BY <1>0, <2>2, <2>3, <2>5, ReqSet
<1>10. \A q \in Req : q # r => req[q].x # s
    BY <1>0, <1>1, <1>3 DEF Sold, Buying
<1>11. Sold'
    <2>1. \A q \in Req : /\ req[q].pc \in Applying => req[q].n \in 1 .. now'[req[q].x]
                         /\ req[q].pc \in Buying /\ req[q].x # s => now'[req[q].x] = 0
        BY <1>0, <1>7, RaiseRequests
    <2>2. req'[r].n \in 1 .. now'[req'[r].x]
        BY <1>0, <1>7, <1>9
    <2>3. \A q \in Req : req'[q].pc \in Buying => q # r
        BY <1>9 DEF Buying
    <2>4. \A q \in Req : /\ req'[q].pc \in Applying => req'[q].n \in 1 .. now'[req'[q].x]
                         /\ req'[q].pc \in Buying => now'[req'[q].x] = 0
        BY <1>9, <1>10, <2>1, <2>2, <2>3 DEF Moves
    <2>5. \A p, q \in Req : req'[p].pc \in Buying /\ req'[q].x = req'[p].x => q = p
        <3>1. \A p, q \in Req : req[p].pc \in Buying /\ req[q].x = req[p].x => q = p
            BY <1>0 DEF Sold
        <3>2. \A q \in Req : req'[q].x = s => q = r
            BY <1>9, <1>10 DEF Moves
        <3>3. \A p \in Req : p # r => req'[p] = req[p]
            BY <1>9 DEF Moves
        <3> QED
            BY <1>9, <2>3, <3>1, <3>2, <3>3
    <2>6. row' = row /\ hist'.applied = hist.applied /\ hist'.late = hist.late
        BY <1>1
    <2>7. now[s] < n /\ now' = [now EXCEPT ![s] = n]
        BY <1>7
    <2> QED
        BY <1>0, <1>8, <2>4, <2>5, <2>6, <2>7, SoldRaise
<1>12. Counted' /\ Shelved'
    BY <1>1, <1>2, <1>3, <1>8, <1>9, SaleOnly
<1>13. Known'
    <2>1. owner' \in [Sale -> 0 .. Len(cust)] /\ owner'[s] = m /\ \A t \in Sale : t # s => owner'[t] = owner[t]
        BY <1>0, <1>7
    <2>2. ASSUME NEW c \in DOMAIN cust, Steady(c) PROVE Steady(c)'
        <3>1. ASSUME NEW q \in Req, req'[q].pc = "mirror" PROVE owner'[req'[q].x] # c
            <4>1. q # r /\ req'[q] = req[q] /\ req[q].x # s
                BY <1>9, <1>10, <3>1 DEF Moves
            <4>2. req[q].x \in Sale
                BY <1>0, <3>1, <4>1, ApplyingFields DEF Applying
            <4>3. owner[req[q].x] # c
                BY <2>2, <3>1, <4>1 DEF Steady
            <4> QED
                BY <2>1, <4>1, <4>2, <4>3
        <3>2. CASE cust[c] = "named"
            BY <1>1, <3>1, <3>2 DEF Steady
        <3>3. CASE cust[c] # "named"
            <4>1. /\ cust[c] = "none" /\ \A t \in Sale : owner[t] # c
                  /\ \A q \in Req : req[q].pc = "create" => req[q].c # c
                BY <2>2, <3>3 DEF Steady
            <4>2. m # c
                BY <1>1, <1>4, <4>1
            <4>3. \A t \in Sale : owner'[t] # c
                BY <2>1, <4>1, <4>2
            <4>4. \A q \in Req : req'[q].pc = "create" => req'[q].c # c
                BY <1>9, <4>1 DEF Moves
            <4> QED
                BY <1>1, <3>1, <4>1, <4>3, <4>4 DEF Steady
        <3> QED
            BY <3>2, <3>3
    <2>3. SteadyKept
        BY <1>1, <2>2 DEF SteadyKept
    <2>4. \A q \in Req : req'[q].pc \in {"newcustomer", "savecustomer"} => req[q].pc = req'[q].pc
        BY <1>9 DEF Moves
    <2>5. \A q \in Req : req[q].pc = "savecustomer" => req'[q].pc = "savecustomer"
        BY <1>1, <1>9 DEF Moves
    <2>6. OneCustomer'
        BY <1>0, <1>1, <2>3, <2>4, <2>5, OneCustomerStays DEF Known
    <2>7. \A q \in Req : req'[q].c \in 0 .. Len(cust')
        BY <1>0, <1>1, <1>9 DEF Known, Moves
    <2>8. \A q \in Req : req'[q].pc = "savecustomer" => req[q].pc = "savecustomer" /\ req'[q].c = req[q].c
        BY <1>9 DEF Moves
    <2> QED
        BY <1>0, <1>1, <2>1, <2>3, <2>6, <2>7, <2>8, KnownAt
<1> QED
    BY <1>0, <1>1, <1>9, <1>11, <1>12, <1>13 DEF IInv

\* localSubFromStripe looks the customer up ...
LEMMA ResolveOwnerStep == ASSUME IInv, NEW r \in Req, ResolveOwner(r) PROVE IInv'
<1>0. /\ Requests /\ hist \in History /\ Sold /\ Known /\ sent \subseteq Event
      /\ cust \in Seq({"none", "blank", "named"}) /\ owner \in [Sale -> 0 .. Len(cust)]
    BY DEF IInv, Counted, Known
<1>1. UNCHANGED <<local, catalog, cust, owner, row, now, sent, answered, log, hist>> /\ req[r].pc = "owner"
    BY DEF ResolveOwner, events, mirror, sales
<1>2. req[r].x \in Subscription /\ req[r].x \in Sale /\ req[r].then # "prices"
    BY <1>0, <1>1, LocalFields DEF FitAt, Sale
<1>3. PICK pc \in {"mirror", "save"} : Go(r, pc) /\ (pc = "mirror" => cust[owner[req[r].x]] = "none")
    BY DEF ResolveOwner
<1>4. /\ Requests' /\ Moves(r) /\ req'[r].pc = pc /\ req'[r].x = req[r].x /\ req'[r].c = req[r].c
      /\ req'[r].n = req[r].n /\ req'[r].then = req[r].then
    <2>1. pc \in Statement /\ pc # "idle" /\ FitAt(pc, req[r].x, req[r].then)
        BY <1>2 DEF Statement, Applying, FitAt, Shelving, Buying
    <2> QED
        BY <1>0, <1>3, <2>1, GoOn
<1>5. SoldCalm
    BY <1>1, <1>4 DEF SoldCalm, Moves, Applying, Buying
<1>6. Counted' /\ Shelved'
    BY <1>0, <1>1, <1>2, <1>4, SaleOnly
<1>7. Known'
    <2>1. ASSUME NEW c \in DOMAIN cust, Steady(c) PROVE Steady(c)'
        <3>1. ASSUME NEW q \in Req, req'[q].pc = "mirror" PROVE owner'[req'[q].x] # c
            <4>1. CASE q = r
                BY <1>1, <1>2, <1>3, <1>4, <2>1, <3>1, <4>1 DEF Steady
            <4>2. CASE q # r
                BY <1>1, <1>4, <2>1, <3>1, <4>2 DEF Steady, Moves
            <4> QED
                BY <4>1, <4>2
        <3> QED
            BY <1>1, <1>4, <2>1, <3>1 DEF Steady, Moves
    <2>2. SteadyKept
        BY <1>1, <2>1 DEF SteadyKept
    <2>3. \A q \in Req : req'[q].pc \in {"newcustomer", "savecustomer"} => req[q].pc = req'[q].pc
        BY <1>4 DEF Moves
    <2>4. \A q \in Req : req[q].pc = "savecustomer" => req'[q].pc = "savecustomer"
        BY <1>1, <1>4 DEF Moves
    <2>5. OneCustomer'
        BY <1>0, <1>1, <2>2, <2>3, <2>4, OneCustomerStays DEF Known
    <2>6. \A q \in Req : req'[q].c \in 0 .. Len(cust')
        BY <1>0, <1>1, <1>4 DEF Known, Moves
    <2>7. \A q \in Req : req'[q].pc = "savecustomer" => req[q].pc = "savecustomer" /\ req'[q].c = req[q].c
        BY <1>4 DEF Moves
    <2> QED
        BY <1>0, <1>1, <2>2, <2>5, <2>6, <2>7, KnownAt
<1> QED
    BY <1>0, <1>1, <1>4, <1>5, <1>6, <1>7, SoldStays DEF IInv

\* ... and mirrors one that has no row.
LEMMA MirrorOwnerStep == ASSUME IInv, NEW r \in Req, MirrorOwner(r) PROVE IInv'
<1>0. /\ Requests /\ hist \in History /\ Sold /\ Known /\ sent \subseteq Event
      /\ cust \in Seq({"none", "blank", "named"}) /\ owner \in [Sale -> 0 .. Len(cust)]
    BY DEF IInv, Counted, Known
<1>1. /\ UNCHANGED <<local, catalog, owner, row, now, sent, answered, log, hist>> /\ req[r].pc = "mirror"
      /\ Go(r, "save")
    BY DEF MirrorOwner, events, sales
<1>2. req[r].x \in Sale /\ req[r].then # "prices"
    BY <1>0, <1>1, LocalFields DEF FitAt, Sale
<1>3. PICK i : i = owner[req[r].x]
    OBVIOUS
<1>4. cust' = [cust EXCEPT ![i] = "blank"]
    BY <1>3 DEF MirrorOwner
<1>5. PICK v \in {"none", "blank", "named"} : v = "blank"
    OBVIOUS
<1>6. /\ cust' \in Seq({"none", "blank", "named"}) /\ Len(cust') = Len(cust) /\ DOMAIN cust' = DOMAIN cust
      /\ \A c \in DOMAIN cust : cust'[c] = IF c = i THEN v ELSE cust[c]
    BY <1>0, <1>4, <1>5, CustWrite
<1>7. /\ Requests' /\ Moves(r) /\ req'[r].pc = "save" /\ req'[r].x = req[r].x /\ req'[r].c = req[r].c
      /\ req'[r].n = req[r].n /\ req'[r].then = req[r].then
    <2>1. "save" \in Statement /\ FitAt("save", req[r].x, req[r].then)
        BY <1>2 DEF Statement, Applying, FitAt, Shelving, Buying
    <2> QED
        BY <1>0, <1>1, <2>1, GoOn
<1>8. SoldCalm
    BY <1>1, <1>7 DEF SoldCalm, Moves, Applying, Buying
<1>9. Counted' /\ Shelved'
    BY <1>0, <1>1, <1>2, <1>7, SaleOnly
<1>10. Known'
    <2>1. ASSUME NEW c \in DOMAIN cust, Steady(c) PROVE Steady(c)' /\ cust'[c] = cust[c]
        <3>1. c # i
            BY <1>1, <1>3, <2>1 DEF Steady
        <3>2. cust'[c] = cust[c]
            BY <1>6, <3>1
        <3> QED
            BY <1>1, <1>7, <2>1, <3>2 DEF Steady, Moves
    <2>2. SteadyKept
        BY <1>6, <2>1 DEF SteadyKept
    <2>3. \A q \in Req : req'[q].pc \in {"newcustomer", "savecustomer"} => req[q].pc = req'[q].pc
        BY <1>7 DEF Moves
    <2>4. \A q \in Req : req[q].pc = "savecustomer" => req'[q].pc = "savecustomer"
        BY <1>1, <1>7 DEF Moves
    <2>5. OneCustomer'
        BY <1>0, <1>1, <2>2, <2>3, <2>4, OneCustomerStays DEF Known
    <2>6. \A q \in Req : req'[q].c \in 0 .. Len(cust')
        BY <1>0, <1>6, <1>7 DEF Known, Moves
    <2>7. \A q \in Req : req'[q].pc = "savecustomer" => req[q].pc = "savecustomer" /\ req'[q].c = req[q].c
        BY <1>7 DEF Moves
    <2>8. owner' \in [Sale -> 0 .. Len(cust')]
        BY <1>0, <1>1, <1>6
    <2> QED
        BY <1>0, <1>6, <2>2, <2>5, <2>6, <2>7, <2>8, KnownAt
<1> QED
    BY <1>0, <1>1, <1>7, <1>8, <1>9, <1>10, SoldStays DEF IInv

-----------------------------------------------------------------------------
(* Steps about events *)

\* What an event projected on a row leaves behind.
LEMMA ProjectedFields ==
    ASSUME hist \in History, NEW e \in Event
    PROVE  /\ Projected(e) \in History /\ Projected(e).made = hist.made
           /\ Projected(e).applied = hist.applied \cup {e} /\ (e \notin hist.applied => Projected(e).again = hist.again)
           /\ Projected(e).late = hist.late /\ Projected(e).missed = hist.missed
           /\ Projected(e).excused = hist.excused
<1>1. PICK a \in SUBSET Event : a = hist.applied \cup {e}
    BY HistFields
<1>2. PICK g \in SUBSET Event : g = IF e \in hist.applied THEN hist.again \cup {e} ELSE hist.again
    BY HistFields
<1>3. Projected(e) = [[hist EXCEPT !.applied = a] EXCEPT !.again = g]
    BY <1>1, <1>2 DEF Projected, History
<1>4. PICK h : h = Projected(e)
    OBVIOUS
<1>5. /\ h \in History /\ h.made = hist.made /\ h.applied = a /\ h.again = g
      /\ h.late = hist.late /\ h.missed = hist.missed /\ h.excused = hist.excused
    BY <1>3, <1>4 DEF History
<1> QED
    BY <1>1, <1>2, <1>4, <1>5

\* The events that the other requests are handling stay the same.
LEMMA OthersHandle ==
    ASSUME NEW r \in Req, Moves(r)
    PROVE  \A q \in Req : q # r =>
             (Dispatching(q)' <=> Dispatching(q)) /\ Handled(q)' = Handled(q) /\ req'[q] = req[q]
BY DEF Moves, Dispatching, Handled, EventOf

\* An event has been projected, or has nothing to be projected on.
LEMMA CountedProject ==
    ASSUME Counted, Requests, NEW r \in Req, Moves(r), Dispatching(r), req[r].pc # "mark", NEW e, e = Handled(r),
           req'[r].pc = "mark", req'[r].x = req[r].x, req'[r].n = req[r].n, req'[r].then = req[r].then,
           UNCHANGED <<log, answered, sent>>,
           hist.applied \subseteq hist'.applied, hist'.applied \subseteq hist.applied \cup {e},
           hist'.again = hist.again, hist.missed \subseteq hist'.missed,
           e \in hist'.applied \/ req[r].x \in hist'.missed
    PROVE  Counted'
<1>1. \A q \in Req : q # r =>
        (Dispatching(q)' <=> Dispatching(q)) /\ Handled(q)' = Handled(q) /\ req'[q] = req[q]
    BY OthersHandle
<1>2. Dispatching(r)' /\ Handled(r)' = e
    BY DEF Dispatching, Handled, EventOf
<1>3. \A q \in Req : (Dispatching(q)' <=> Dispatching(q)) /\ Handled(q)' = Handled(q)
    BY <1>1, <1>2
<1>4. e \in DOMAIN log /\ hist.applied \subseteq DOMAIN log
    BY DEF Counted
<1>5. EventCountsOnce'
    BY DEF Counted, EventCountsOnce
<1>6. \A q \in Req : Dispatching(q)' => Handled(q)' \in DOMAIN log
    BY <1>3 DEF Counted
<1>7. \A p, q \in Req : Dispatching(p)' /\ Dispatching(q)' /\ Handled(q)' = Handled(p)' => q = p
    BY <1>3 DEF Counted
<1>8. \A q \in Req : Dispatching(q)' /\ req'[q].pc # "mark" => Handled(q)' \notin hist'.applied
    <2> SUFFICES ASSUME NEW q \in Req, Dispatching(q)', req'[q].pc # "mark" PROVE Handled(q)' \notin hist'.applied
        OBVIOUS
    <2>1. q # r /\ Dispatching(q) /\ Handled(q)' = Handled(q) /\ req[q].pc # "mark"
        BY <1>1
    <2>2. Handled(q) \notin hist.applied /\ Handled(q) # e
        BY <2>1 DEF Counted
    <2> QED
        BY <2>1, <2>2
<1>9. \A q \in Req : req'[q].pc = "mark" => Handled(q)' \in hist'.applied \/ req'[q].x \in hist'.missed
    <2> SUFFICES ASSUME NEW q \in Req, req'[q].pc = "mark"
                 PROVE  Handled(q)' \in hist'.applied \/ req'[q].x \in hist'.missed
        OBVIOUS
    <2>1. CASE q = r
        BY <1>2, <2>1
    <2>2. CASE q # r
        BY <1>1, <2>2 DEF Counted
    <2> QED
        BY <2>1, <2>2
<1>10. sent' \subseteq Event /\ hist'.applied \subseteq DOMAIN log'
    BY <1>4 DEF Counted
<1> QED
    BY <1>5, <1>6, <1>7, <1>8, <1>9, <1>10 DEF Counted

\* An event is through: processed, recorded as an error, or left in the log.
LEMMA CountedEnds ==
    ASSUME Counted, Requests, NEW r \in Req, Moves(r), req'[r] = Idle, NEW e \in DOMAIN log, UNCHANGED <<hist, sent>>,
           answered' = answered \cup {e}, DOMAIN log' = DOMAIN log,
           \A d \in DOMAIN log : log'[d] = "processed" => log[d] = "processed" \/ d \in hist.applied \/ d.x \in hist.missed
    PROVE  Counted'
<1>1. \A q \in Req : q # r =>
        (Dispatching(q)' <=> Dispatching(q)) /\ Handled(q)' = Handled(q) /\ req'[q] = req[q]
    BY OthersHandle
<1>2. ~Dispatching(r)' /\ req'[r].pc = "idle"
    BY IdleFields DEF Dispatching
<1>3. \A q \in Req : Dispatching(q)' => q # r /\ Dispatching(q) /\ Handled(q)' = Handled(q) /\ req'[q] = req[q]
    BY <1>1, <1>2
<1>4. EventCountsOnce'
    BY DEF Counted, EventCountsOnce
<1>5. \A q \in Req : Dispatching(q)' => Handled(q)' \in DOMAIN log'
    BY <1>3 DEF Counted
<1>6. \A p, q \in Req : Dispatching(p)' /\ Dispatching(q)' /\ Handled(q)' = Handled(p)' => q = p
    BY <1>3 DEF Counted
<1>7. \A q \in Req : Dispatching(q)' /\ req'[q].pc # "mark" => Handled(q)' \notin hist'.applied
    BY <1>3 DEF Counted
<1>8. \A q \in Req : req'[q].pc = "mark" => Handled(q)' \in hist'.applied \/ req'[q].x \in hist'.missed
    BY <1>1, <1>2 DEF Counted
<1>9. sent' \subseteq Event /\ hist'.applied \subseteq DOMAIN log'
    BY DEF Counted
<1> QED
    BY <1>4, <1>5, <1>6, <1>7, <1>8, <1>9 DEF Counted

\* A step about events: the catalog is left alone, and so are the customers.
LEMMA EventOnly ==
    ASSUME IInv, Requests', NEW r \in Req, Moves(r), UNCHANGED <<local, catalog, cust, owner>>,
           hist'.made = hist.made, hist.excused \subseteq hist'.excused, req[r].pc # "savecustomer",
           req[r].x \notin Item, req'[r].x \notin Item, req'[r].c \in {0, req[r].c},
           req'[r].pc \notin {"newcustomer", "savecustomer", "create", "mirror"}
    PROVE  Shelved' /\ Known'
<1>1. ShelvedCalm
    BY DEF ShelvedCalm, Moves
<1>2. KnownCalm
    BY DEF KnownCalm, Moves
<1> QED
    BY <1>1, <1>2, ShelvedStays, KnownStays DEF IInv

\* UpsertPayment or UpsertSubscription.
LEMMA SaveStep == ASSUME IInv, NEW r \in Req, Save(r) PROVE IInv'
<1>0. /\ Requests /\ hist \in History /\ Counted /\ Sold /\ sent \subseteq Event
      /\ now \in [Sale -> 0 .. Last] /\ row \in [Sale -> Nat]
    BY DEF IInv, Counted, Sold
<1>1. UNCHANGED <<local, catalog, cust, owner, now, sent, answered, log>> /\ req[r].pc = "save" /\ Go(r, req[r].then)
    BY DEF Save, events, sales
<1>2. req[r].x \in Sale /\ req[r].then \in {"idle", "mark"} /\ req[r].n \in Nat
    BY <1>0, <1>1, LocalFields DEF FitAt, Return
<1>3. PICK s \in Sale : s = req[r].x
    BY <1>2
<1>4. PICK n \in Nat : n = req[r].n
    BY <1>2
<1>5. n \in 1 .. now[s] /\ now[s] \in Nat
    BY <1>0, <1>1, <1>3, <1>4 DEF Sold, Applying
<1>6. PICK e \in Event : e = EventOf(s, n)
    BY DEF EventOf, Event
<1>7. e.x = s /\ e.n = n /\ Handled(r) = e
    BY <1>3, <1>4, <1>6, EventFields DEF Handled
<1>8. row' = [row EXCEPT ![s] = n]
    BY <1>3, <1>4 DEF Save
<1>9. row' \in [Sale -> Nat] /\ row'[s] = n /\ \A t \in Sale : t # s => row'[t] = row[t]
    BY <1>0, <1>8
<1>10. PICK h \in History : h = IF req[r].then = "mark" THEN Projected(e) ELSE hist
    BY <1>0, ProjectedFields
<1>11. /\ h.made = hist.made /\ h.late = hist.late /\ h.missed = hist.missed /\ h.excused = hist.excused
       /\ hist.applied \subseteq h.applied /\ h.applied \subseteq hist.applied \cup {e}
       /\ req[r].then # "mark" => h = hist
       /\ req[r].then = "mark" => e \in h.applied /\ (e \notin hist.applied => h.again = hist.again)
    <2>1. CASE req[r].then = "mark"
        BY <1>0, <1>10, <2>1, ProjectedFields
    <2>2. CASE req[r].then # "mark"
        BY <1>10, <2>2
    <2> QED
        BY <2>1, <2>2
<1>12. /\ hist' \in History /\ hist'.made = h.made /\ hist'.applied = h.applied /\ hist'.again = h.again
       /\ hist'.missed = h.missed /\ hist'.excused = h.excused
       /\ hist.late \subseteq hist'.late /\ (n < row[s] => s \in hist'.late)
    <2>1. PICK l \in SUBSET Sale : l = IF n < row[s] THEN hist.late \cup {s} ELSE hist.late
        BY <1>0, HistFields
    <2>2. hist' = [h EXCEPT !.late = l]
        BY <1>3, <1>4, <1>6, <1>10, <1>11, <2>1 DEF Save
    <2>3. /\ hist' \in History /\ hist'.made = h.made /\ hist'.applied = h.applied /\ hist'.again = h.again
          /\ hist'.missed = h.missed /\ hist'.excused = h.excused /\ hist'.late = l
        BY <2>2 DEF History
    <2> QED
        BY <2>1, <2>3
<1>13. /\ Requests' /\ Moves(r) /\ (req[r].then = "idle" => req'[r] = Idle)
       /\ (req[r].then = "mark" => /\ req'[r].pc = "mark" /\ req'[r].x = s /\ req'[r].c = req[r].c
                                   /\ req'[r].n = n /\ req'[r].then = "mark")
    <2>1. CASE req[r].then = "idle"
        BY <1>0, <1>1, <2>1, GoIdle
    <2>2. CASE req[r].then = "mark"
        <3>1. "mark" \in Statement /\ FitAt("mark", req[r].x, req[r].then) /\ Go(r, "mark")
            BY <1>1, <1>2, <2>2 DEF Statement, FitAt, Shelving, Buying
        <3> QED
            BY <1>0, <1>3, <1>4, <2>2, <3>1, GoOn
    <2> QED
        BY <1>2, <2>1, <2>2
<1>14. Counted'
    <2>1. CASE req[r].then = "idle"
        <3>1. ~Dispatching(r)'
            BY <1>13, <2>1, IdleFields DEF Dispatching
        <3>2. hist'.applied = hist.applied /\ hist'.again = hist.again /\ hist'.missed = hist.missed
            BY <1>11, <1>12, <2>1
        <3>3. CountedCalm
            BY <1>0, <1>1, <1>13, <3>1, <3>2 DEF CountedCalm, Dispatching, Moves
        <3> QED
            BY <1>0, <1>13, <3>3, CountedStays
    <2>2. CASE req[r].then = "mark"
        <3>1. Dispatching(r)
            BY <2>2 DEF Dispatching
        <3>2. e \notin hist.applied
            BY <1>0, <1>1, <1>7, <3>1 DEF Counted
        <3>3. /\ hist.applied \subseteq hist'.applied /\ hist'.applied \subseteq hist.applied \cup {e}
              /\ hist'.again = hist.again /\ hist.missed \subseteq hist'.missed /\ e \in hist'.applied
            BY <1>11, <1>12, <2>2, <3>2
        <3>4. /\ req'[r].pc = "mark" /\ req'[r].x = req[r].x /\ req'[r].n = req[r].n
              /\ req'[r].then = req[r].then /\ req[r].pc # "mark" /\ e = Handled(r)
            BY <1>1, <1>3, <1>4, <1>7, <1>13, <2>2
        <3> QED
            BY <1>0, <1>1, <1>13, <3>1, <3>3, <3>4, CountedProject
    <2> QED
        BY <1>2, <2>1, <2>2
<1>15. req'[r].x \in {s, "none"} /\ req'[r].pc \in {"idle", "mark"} /\ req'[r].c \in {0, req[r].c}
    BY <1>2, <1>13, IdleFields
<1>16. Sold'
    <2>1. \A t \in Sale : row'[t] <= now[t]
        BY <1>0, <1>5, <1>9 DEF Sold
    <2>2. ASSUME NEW d \in hist'.applied, d.x \in Sale PROVE d.n <= row'[d.x] \/ d.x \in hist'.late
        <3>1. CASE d = e
            BY <1>7, <1>9, <3>1
        <3>2. CASE d # e
            <4>1. d \in hist.applied
                BY <1>11, <1>12, <3>2
            <4>2. d.n <= row[d.x] \/ d.x \in hist.late
                BY <1>0, <2>2, <4>1 DEF Sold
            <4>3. CASE d.x # s
                BY <1>9, <1>12, <2>2, <4>2, <4>3
            <4>4. CASE d.x = s
                <5>1. d \in Event /\ d.n \in Nat /\ row[s] \in Nat
                    BY <1>0, <4>1, HistFields, EventIs
                <5> QED
                    BY <1>9, <1>12, <4>2, <4>4, <5>1
            <4> QED
                BY <4>3, <4>4
        <3> QED
            BY <3>1, <3>2
    <2>3. \A q \in Req : req'[q].pc \in Applying => req'[q].n \in 1 .. now[req'[q].x]
        BY <1>0, <1>13, <1>15 DEF Sold, Moves, Applying
    <2>4. \A q \in Req : req'[q].pc \in Buying => now[req'[q].x] = 0
        BY <1>0, <1>13, <1>15 DEF Sold, Moves, Buying
    <2>5. \A p, q \in Req : req'[p].pc \in Buying /\ req'[q].x = req'[p].x => q = p
        <3>1. \A p, q \in Req : req[p].pc \in Buying /\ req[q].x = req[p].x => q = p
            BY <1>0 DEF Sold
        <3>2. \A q \in Req : req'[q].pc \in Buying => q # r /\ req'[q].x \in Sale
            BY <1>13, <1>15 DEF Buying, Requests, Fit, FitAt
        <3>3. \A p \in Req : p # r => req'[p] = req[p]
            BY <1>13 DEF Moves
        <3> QED
            BY <1>3, <1>15, <3>1, <3>2, <3>3
    <2>6. \A t \in Sale : now[t] # 0 => EventOf(t, now[t]) \in sent \/ (t \in Payment /\ now[t] = 1)
        BY <1>0 DEF Sold
    <2>7. \A d \in sent : d.x \in Sale => d.n \in 1 .. now[d.x]
        BY <1>0 DEF Sold
    <2> QED
        BY <1>0, <1>1, <1>9, <2>1, <2>2, <2>3, <2>4, <2>5, <2>6, <2>7 DEF Sold
<1>17. Shelved' /\ Known'
    <2>1. /\ hist'.made = hist.made /\ hist.excused \subseteq hist'.excused /\ req[r].pc # "savecustomer"
          /\ req[r].x \notin Item /\ req'[r].x \notin Item
          /\ req'[r].pc \notin {"newcustomer", "savecustomer", "create", "mirror"}
        BY <1>1, <1>2, <1>11, <1>12, <1>15 DEF Item
    <2> QED
        BY <1>1, <1>13, <1>15, <2>1, EventOnly
<1> QED
    BY <1>12, <1>13, <1>14, <1>16, <1>17 DEF IInv

\* An event enters the log.
LEMMA WithEventFields ==
    ASSUME NEW e
    PROVE  /\ DOMAIN WithEvent(e) = DOMAIN log \cup {e} /\ WithEvent(e)[e] = "new"
           /\ \A d \in DOMAIN log : d # e => WithEvent(e)[d] = log[d]
BY DEF WithEvent

\* HandleWebhook.
LEMMA HandleWebhookStep == ASSUME IInv, NEW r \in Req, NEW e \in sent, HandleWebhook(r, e) PROVE IInv'
<1>0. /\ Requests /\ hist \in History /\ Counted /\ Sold /\ sent \subseteq Event
      /\ now \in [Sale -> 0 .. Last] /\ row \in [Sale -> Nat]
    BY DEF IInv, Counted, Sold
<1>1. UNCHANGED <<local, catalog, cust, owner, now, row, sent, hist>> /\ req[r] = Idle
    BY DEF HandleWebhook, mirror, sales
<1>2. e \in Event /\ e = EventOf(e.x, e.n) /\ e.n \in Nat /\ e.x \in Sale \cup {"customer"}
    BY <1>0, EventIs
<1>3. CASE e \in DOMAIN log
    <2>1. answered' = answered \cup {e} /\ log' = log /\ req' = req
        BY <1>3 DEF HandleWebhook, Answer
    <2>2. Requests'
        BY <1>0, <2>1 DEF Requests
    <2>3. Moves(r) /\ req'[r] = Idle
        BY <1>1, <2>1 DEF Moves
    <2>4. Counted'
        BY <1>0, <1>1, <1>3, <2>1, <2>3, CountedEnds
    <2>5. SoldCalm
        BY <1>1, <2>1 DEF SoldCalm
    <2>6. ShelvedCalm
        BY <1>1, <2>1 DEF ShelvedCalm
    <2>7. KnownCalm
        BY <1>1, <2>1 DEF KnownCalm
    <2> QED
        BY <1>0, <1>1, <2>2, <2>4, <2>5, <2>6, <2>7, SoldStays, ShelvedStays, KnownStays DEF IInv
<1>4. CASE e \notin DOMAIN log
    <2>1. log' = WithEvent(e) /\ answered' = answered
        BY <1>4 DEF HandleWebhook
    <2>2. PICK x \in Thing : x = e.x
        BY <1>2 DEF Thing
    <2>3. PICK n \in Nat : n = e.n
        BY <1>2
    <2>4. PICK pc \in {"payment", "owner", "profile"} : pc = Handler(x)
        BY DEF Handler
    <2>5. req' = [req EXCEPT ![r] = [Begin(pc, x) EXCEPT !.n = n, !.then = "mark"]]
        BY <1>4, <2>2, <2>3, <2>4 DEF HandleWebhook
    <2>6. /\ Requests' /\ Moves(r) /\ req'[r].pc = pc /\ req'[r].x = x /\ req'[r].n = n /\ req'[r].c = 0
          /\ req'[r].then = "mark"
        <3>1. PICK b \in BOOLEAN : Begin(pc, x) = Started(pc, x, 0, b, "idle")
            BY BeginPlain
        <3>2. PICK y : y = Started(pc, x, n, b, "mark")
            OBVIOUS
        <3>3. y = [Begin(pc, x) EXCEPT !.n = n, !.then = "mark"]
            <4>1. [Begin(pc, x) EXCEPT !.n = n] = Started(pc, x, n, b, "idle")
                BY <3>1 DEF Started
            <4>2. [Started(pc, x, n, b, "idle") EXCEPT !.then = "mark"] = Started(pc, x, n, b, "mark")
                BY DEF Started
            <4>3. [Begin(pc, x) EXCEPT !.n = n, !.then = "mark"] = [[Begin(pc, x) EXCEPT !.n = n] EXCEPT !.then = "mark"]
                OBVIOUS
            <4> QED
                BY <3>2, <4>1, <4>2, <4>3
        <3>4. req' = [req EXCEPT ![r] = y]
            BY <2>5, <3>3
        <3>5. pc \in Statement /\ "mark" \in Return /\ pc # "idle"
            BY DEF Statement, Return, Applying
        <3>6. FitAt(pc, x, "mark")
            BY <1>2, <2>2, <2>4 DEF Handler, FitAt, Sale, Shelving, Buying
        <3>7. /\ y \in Local /\ Fit(y) /\ y.pc = pc /\ y.x = x /\ y.n = n /\ y.c = 0 /\ y.then = "mark"
            BY <3>1, <3>2, <3>5, <3>6, BeginFields
        <3> QED
            BY <1>0, <3>4, <3>7, ReqSet
    <2>7. Counted'
        <3>1. DOMAIN log' = DOMAIN log \cup {e} /\ log'[e] = "new" /\ \A d \in DOMAIN log : log'[d] = log[d]
            BY <1>4, <2>1, WithEventFields
        <3>2. \A q \in Req : q # r =>
                (Dispatching(q)' <=> Dispatching(q)) /\ Handled(q)' = Handled(q) /\ req'[q] = req[q]
            BY <2>6, OthersHandle
        <3>3. Handled(r)' = e
            BY <1>2, <2>2, <2>3, <2>6 DEF Handled
        <3>4. e \notin hist.applied /\ hist.applied \subseteq DOMAIN log
            BY <1>0, <1>4 DEF Counted
        <3>5. EventCountsOnce'
            BY <1>0, <1>1, <2>1, <3>1 DEF Counted, EventCountsOnce
        <3>6. \A q \in Req : Dispatching(q)' => Handled(q)' \in DOMAIN log'
            BY <1>0, <3>1, <3>2, <3>3 DEF Counted
        <3>7. \A q \in Req : q # r /\ Dispatching(q)' => Handled(q)' # e
            BY <1>0, <1>4, <3>2 DEF Counted
        <3>8. \A p, q \in Req : Dispatching(p)' /\ Dispatching(q)' /\ Handled(q)' = Handled(p)' => q = p
            BY <1>0, <3>2, <3>3, <3>7 DEF Counted
        <3>9. \A q \in Req : Dispatching(q)' /\ req'[q].pc # "mark" => Handled(q)' \notin hist'.applied
            BY <1>0, <1>1, <3>2, <3>3, <3>4 DEF Counted
        <3>10. \A q \in Req : req'[q].pc = "mark" => Handled(q)' \in hist'.applied \/ req'[q].x \in hist'.missed
            BY <1>0, <1>1, <2>6, <3>2 DEF Counted
        <3>11. sent' \subseteq Event /\ hist'.applied \subseteq DOMAIN log'
            BY <1>0, <1>1, <3>1, <3>4
        <3> QED
            BY <3>5, <3>6, <3>8, <3>9, <3>10, <3>11 DEF Counted
    <2>8. x \in Sale => n \in 1 .. now[x]
        BY <1>0, <2>2, <2>3 DEF Sold
    <2>9. Sold'
        <3>1. \A q \in Req : req'[q].pc \in Applying => req'[q].n \in 1 .. now[req'[q].x]
            <4>1. pc \in Applying => x \in Sale
                BY <1>2, <2>2, <2>4 DEF Handler, Sale, Applying
            <4> QED
                BY <1>0, <2>6, <2>8, <4>1 DEF Sold, Moves
        <3>2. \A q \in Req : req'[q].pc \in Buying => q # r
            BY <2>6 DEF Buying
        <3>3. \A p \in Req : p # r => req'[p] = req[p]
            BY <2>6 DEF Moves
        <3>4. \A q \in Req : req[q].pc \in Buying => now[req[q].x] = 0 /\ req[q].x # x
            <4>1. \A q \in Req : req[q].pc \in Buying => now[req[q].x] = 0 /\ req[q].x \in Sale
                BY <1>0, BuyingFields DEF Sold
            <4> QED
                BY <2>8, <4>1
        <3>5. \A p, q \in Req : req[p].pc \in Buying /\ req[q].x = req[p].x => q = p
            BY <1>0 DEF Sold
        <3>6. \A p, q \in Req : req'[p].pc \in Buying /\ req'[q].x = req'[p].x => q = p
            BY <2>6, <3>2, <3>3, <3>4, <3>5
        <3>7. \A q \in Req : req'[q].pc \in Buying => now[req'[q].x] = 0
            BY <3>2, <3>3, <3>4
        <3> QED
            BY <1>0, <1>1, <3>1, <3>6, <3>7 DEF Sold
    <2>10. Shelved' /\ Known'
        <3>1. /\ hist'.made = hist.made /\ hist.excused \subseteq hist'.excused /\ req[r].pc # "savecustomer"
              /\ req[r].x \notin Item /\ req'[r].x \notin Item /\ req'[r].c \in {0, req[r].c}
              /\ req'[r].pc \notin {"newcustomer", "savecustomer", "create", "mirror"}
            BY <1>1, <1>2, <2>2, <2>6, IdleFields DEF Item
        <3> QED
            BY <1>1, <2>6, <3>1, EventOnly
    <2> QED
        BY <1>0, <1>1, <2>6, <2>7, <2>9, <2>10 DEF IInv
<1> QED
    BY <1>3, <1>4

\* A request goes on to mark its event.
LEMMA GoMark ==
    ASSUME Requests, NEW r \in Req, req[r].pc \in {"payment", "profile"}, Go(r, "mark")
    PROVE  /\ Requests' /\ Moves(r) /\ Dispatching(r) /\ req[r].x \in Sale \cup {"customer"} /\ req[r].pc # "mark"
           /\ req'[r].pc = "mark" /\ req'[r].x = req[r].x /\ req'[r].n = req[r].n /\ req'[r].c = req[r].c
           /\ req'[r].then = req[r].then
<1>1. req[r].x \in Sale \cup {"customer"} /\ req[r].then = "mark"
    BY LocalFields DEF FitAt, Sale
<1>2. "mark" \in Statement /\ FitAt("mark", req[r].x, req[r].then)
    BY <1>1 DEF Statement, FitAt, Shelving, Buying
<1> QED
    BY <1>1, <1>2, GoOn DEF Dispatching

\* applyPaymentIntent.
LEMMA ApplyPaymentIntentStep == ASSUME IInv, NEW r \in Req, ApplyPaymentIntent(r) PROVE IInv'
<1>0. Requests /\ hist \in History /\ Counted /\ Sold /\ sent \subseteq Event
    BY DEF IInv, Counted
<1>1. UNCHANGED <<local, catalog, cust, owner, now, row, sent, answered, log>> /\ req[r].pc = "payment"
    BY DEF ApplyPaymentIntent, mirror, sales, events
<1>2. req[r].x \in Payment /\ req[r].x \in Sale /\ req[r].then = "mark"
    BY <1>0, <1>1, LocalFields DEF FitAt, Sale
<1>3. CASE row[req[r].x] = 0
    <2>1. Go(r, "mark")
        BY <1>3 DEF ApplyPaymentIntent
    <2>2. /\ Requests' /\ Moves(r) /\ Dispatching(r) /\ req[r].pc # "mark"
          /\ req'[r].pc = "mark" /\ req'[r].x = req[r].x /\ req'[r].n = req[r].n /\ req'[r].c = req[r].c
          /\ req'[r].then = req[r].then
        BY <1>0, <1>1, <2>1, GoMark
    <2>3. PICK m \in SUBSET Sale : m = hist.missed \cup {req[r].x}
        BY <1>0, <1>2, HistFields
    <2>4. hist' = [hist EXCEPT !.missed = m]
        BY <1>3, <2>3 DEF ApplyPaymentIntent
    <2>5. /\ hist' \in History /\ hist'.made = hist.made /\ hist'.applied = hist.applied
          /\ hist'.again = hist.again /\ hist'.late = hist.late /\ hist'.missed = m
          /\ hist'.excused = hist.excused
        BY <1>0, <2>4 DEF History
    <2>6. PICK e : e = Handled(r)
        OBVIOUS
    <2>7. /\ hist.applied \subseteq hist'.applied /\ hist'.applied \subseteq hist.applied \cup {e}
          /\ hist'.again = hist.again /\ hist.missed \subseteq hist'.missed /\ req[r].x \in hist'.missed
        BY <2>3, <2>5
    <2>8. Counted'
        BY <1>0, <1>1, <2>2, <2>6, <2>7, CountedProject
    <2>9. SoldCalm
        BY <1>1, <2>2, <2>5 DEF SoldCalm, Moves, Applying, Buying
    <2>10. Shelved' /\ Known'
        <3>1. /\ hist'.made = hist.made /\ hist.excused \subseteq hist'.excused /\ req[r].pc # "savecustomer"
              /\ req[r].x \notin Item /\ req'[r].x \notin Item /\ req'[r].c \in {0, req[r].c}
              /\ req'[r].pc \notin {"newcustomer", "savecustomer", "create", "mirror"}
            BY <1>1, <1>2, <2>2, <2>5
        <3> QED
            BY <1>1, <2>2, <3>1, EventOnly
    <2> QED
        BY <1>0, <2>2, <2>5, <2>8, <2>9, <2>10, SoldStays DEF IInv
<1>4. CASE row[req[r].x] # 0
    <2>1. Go(r, "save") /\ hist' = hist
        BY <1>4 DEF ApplyPaymentIntent
    <2>2. /\ Requests' /\ Moves(r) /\ req'[r].pc = "save" /\ req'[r].x = req[r].x /\ req'[r].n = req[r].n
          /\ req'[r].c = req[r].c /\ req'[r].then = req[r].then
        <3>1. "save" \in Statement /\ FitAt("save", req[r].x, req[r].then)
            BY <1>2 DEF Statement, Applying, FitAt, Shelving, Buying
        <3> QED
            BY <1>0, <2>1, <3>1, GoOn
    <2>3. Counted' /\ Shelved'
        BY <1>0, <1>1, <1>2, <2>1, <2>2, SaleOnly
    <2>4. SoldCalm
        BY <1>1, <2>1, <2>2 DEF SoldCalm, Moves, Applying, Buying
    <2>5. KnownCalm
        BY <1>1, <2>1, <2>2 DEF KnownCalm, Moves
    <2> QED
        BY <1>0, <2>1, <2>2, <2>3, <2>4, <2>5, SoldStays, KnownStays DEF IInv
<1> QED
    BY <1>3, <1>4

\* customer.created, customer.updated.
LEMMA ApplyCustomerStep == ASSUME IInv, NEW r \in Req, ApplyCustomer(r) PROVE IInv'
<1>0. /\ Requests /\ hist \in History /\ Counted /\ Sold /\ Shelved /\ Known /\ sent \subseteq Event
      /\ cust \in Seq({"none", "blank", "named"}) /\ owner \in [Sale -> 0 .. Len(cust)]
    BY DEF IInv, Counted, Known
<1>1. UNCHANGED <<local, catalog, owner, now, row, sent, answered, log>> /\ req[r].pc = "profile" /\ Go(r, "mark")
    BY DEF ApplyCustomer, mirror, sales, events
<1>2. req[r].x = "customer" /\ req[r].then = "mark" /\ req[r].n \in Nat
    BY <1>0, <1>1, LocalFields DEF FitAt
<1>3. /\ Requests' /\ Moves(r) /\ Dispatching(r) /\ req[r].pc # "mark"
      /\ req'[r].pc = "mark" /\ req'[r].x = req[r].x /\ req'[r].n = req[r].n /\ req'[r].c = req[r].c
      /\ req'[r].then = req[r].then
    BY <1>0, <1>1, GoMark
<1>4. PICK i \in Nat : i = req[r].n
    BY <1>2
<1>5. PICK e \in Event : e = EventOf("customer", i)
    BY DEF EventOf, Event
<1>6. e = Handled(r) /\ e.x = "customer" /\ e.x \notin Sale
    BY <1>2, <1>4, <1>5, EventFields DEF Handled
<1>7. hist' = Projected(e) /\ cust' = [cust EXCEPT ![i] = "named"]
    BY <1>4, <1>5 DEF ApplyCustomer
<1>8. e \notin hist.applied
    BY <1>0, <1>3, <1>6 DEF Counted
<1>9. /\ hist' \in History /\ hist'.made = hist.made /\ hist'.applied = hist.applied \cup {e}
      /\ hist'.again = hist.again /\ hist'.late = hist.late /\ hist'.missed = hist.missed
      /\ hist'.excused = hist.excused
    BY <1>0, <1>7, <1>8, ProjectedFields
<1>10. Counted'
    <2>1. /\ hist.applied \subseteq hist'.applied /\ hist'.applied \subseteq hist.applied \cup {e}
          /\ hist'.again = hist.again /\ hist.missed \subseteq hist'.missed /\ e \in hist'.applied
        BY <1>9
    <2> QED
        BY <1>0, <1>1, <1>3, <1>6, <2>1, CountedProject
<1>11. SoldCalm
    BY <1>1, <1>3, <1>6, <1>9 DEF SoldCalm, Moves, Applying, Buying
<1>12. ShelvedCalm
    BY <1>1, <1>2, <1>3, <1>9 DEF ShelvedCalm, Moves, Item
<1>13. PICK v \in {"none", "blank", "named"} : v = "named"
    OBVIOUS
<1>14. /\ cust' \in Seq({"none", "blank", "named"}) /\ Len(cust') = Len(cust) /\ DOMAIN cust' = DOMAIN cust
       /\ \A c \in DOMAIN cust : cust'[c] = IF c = i THEN v ELSE cust[c]
    BY <1>0, <1>7, <1>13, CustWrite
<1>15. Known'
    <2>1. ASSUME NEW c \in DOMAIN cust, Steady(c) PROVE Steady(c)' /\ (cust[c] = "named" => cust'[c] = "named")
        <3>1. cust'[c] = "named" \/ cust'[c] = cust[c]
            BY <1>13, <1>14
        <3>2. \A q \in Req : req'[q].pc \in {"mirror", "create"} => req'[q] = req[q]
            BY <1>3 DEF Moves
        <3> QED
            BY <1>1, <2>1, <3>1, <3>2 DEF Steady
    <2>2. SteadyKept
        BY <1>14, <2>1 DEF SteadyKept
    <2>3. \A q \in Req : req'[q].pc \in {"newcustomer", "savecustomer"} => req[q].pc = req'[q].pc
        BY <1>3 DEF Moves
    <2>4. \A q \in Req : req[q].pc = "savecustomer" => req'[q].pc = "savecustomer"
        BY <1>1, <1>3 DEF Moves
    <2>5. hist.excused \subseteq hist'.excused /\ OneCustomer
        BY <1>0, <1>9 DEF Known
    <2>6. OneCustomer'
        BY <1>9, <2>2, <2>3, <2>4, <2>5, OneCustomerStays
    <2>7. \A q \in Req : req'[q].c \in 0 .. Len(cust')
        BY <1>0, <1>3, <1>14 DEF Known, Moves
    <2>8. \A q \in Req : req'[q].pc = "savecustomer" => req[q].pc = "savecustomer" /\ req'[q].c = req[q].c
        BY <1>3 DEF Moves
    <2>9. owner' \in [Sale -> 0 .. Len(cust')]
        BY <1>0, <1>1, <1>14
    <2> QED
        BY <1>0, <1>14, <2>2, <2>6, <2>7, <2>8, <2>9, KnownAt
<1> QED
    BY <1>0, <1>3, <1>9, <1>10, <1>11, <1>12, <1>15, SoldStays, ShelvedStays DEF IInv

\* A request that ends leaves no sale behind, and neither an item nor a customer
\* unless it was at work on one.
LEMMA Ends ==
    ASSUME IInv, NEW r \in Req, Go(r, "idle"), UNCHANGED <<local, catalog, cust, owner, now, row, sent>>, OnlyExcuses
    PROVE  /\ Requests' /\ Moves(r) /\ req'[r] = Idle /\ Sold'
           /\ req[r].pc \notin {"stamp", "reread", "update"} => Shelved'
           /\ req[r].pc # "savecustomer" => Known'
<1>0. Requests /\ hist \in History /\ Sold /\ Shelved /\ Known
    BY DEF IInv
<1>1. Requests' /\ Moves(r) /\ req'[r] = Idle
    BY <1>0, GoIdle
<1>2. /\ req'[r].pc = "idle" /\ req'[r].x = "none" /\ req'[r].c = 0 /\ "none" \notin Item /\ "none" \notin Sale
      /\ hist.excused \subseteq hist'.excused
    BY <1>1, IdleFields DEF Item, OnlyExcuses
<1>3. SoldCalm
    BY <1>1, <1>2 DEF SoldCalm, Moves, Applying, Buying, OnlyExcuses
<1>4. ASSUME req[r].pc \notin {"stamp", "reread", "update"} PROVE Shelved'
    BY <1>0, <1>1, <1>2, <1>4, LeaveShelf
<1>5. ASSUME req[r].pc # "savecustomer" PROVE Known'
    <2>1. KnownCalm
        BY <1>1, <1>2, <1>5 DEF KnownCalm, Moves, OnlyExcuses
    <2> QED
        BY <1>0, <2>1, KnownStays
<1> QED
    BY <1>0, <1>1, <1>3, <1>4, <1>5, SoldStays

\* MarkEventProcessed.
LEMMA MarkEventProcessedStep == ASSUME IInv, NEW r \in Req, MarkEventProcessed(r) PROVE IInv'
<1>0. Requests /\ hist \in History /\ Counted
    BY DEF IInv
<1>1. /\ UNCHANGED <<local, catalog, cust, owner, now, row, sent, hist>> /\ req[r].pc = "mark" /\ Go(r, "idle")
      /\ log' = [log EXCEPT ![Handled(r)] = "processed"] /\ answered' = answered \cup {Handled(r)}
    BY DEF MarkEventProcessed, mirror, sales, Handled, Answer
<1>2. OnlyExcuses
    BY <1>0, <1>1, SameHist
<1>3. Requests' /\ Moves(r) /\ req'[r] = Idle /\ Sold' /\ Shelved' /\ Known'
    BY <1>1, <1>2, Ends
<1>4. Dispatching(r)
    BY <1>0, <1>1, MarkDispatches
<1>5. PICK e : e = Handled(r)
    OBVIOUS
<1>6. e \in DOMAIN log /\ e.x = req[r].x /\ (e \in hist.applied \/ req[r].x \in hist.missed)
    BY <1>0, <1>1, <1>4, <1>5, EventFields DEF Counted, Handled
<1>7. /\ answered' = answered \cup {e} /\ DOMAIN log' = DOMAIN log
      /\ \A d \in DOMAIN log : log'[d] = "processed" => log[d] = "processed" \/ d \in hist.applied \/ d.x \in hist.missed
    BY <1>1, <1>5, <1>6
<1>8. Counted'
    BY <1>0, <1>1, <1>3, <1>6, <1>7, CountedEnds
<1> QED
    BY <1>0, <1>1, <1>3, <1>8 DEF IInv

\* A statement of the dispatch fails.
LEMMA DispatchFailsStep == ASSUME IInv, NEW r \in Req, DispatchFails(r) PROVE IInv'
<1>0. Requests /\ hist \in History /\ Counted
    BY DEF IInv
<1>1. /\ UNCHANGED <<local, catalog, cust, owner, now, row, sent, hist>> /\ Go(r, "idle")
      /\ req[r].pc \in {"payment", "owner", "mirror", "save", "profile"} /\ Dispatching(r)
      /\ log' = [log EXCEPT ![Handled(r)] = "error"] \/ log' = log
      /\ answered' = answered \cup {Handled(r)}
    BY DEF DispatchFails, mirror, sales, Handled, Answer, Dispatching
<1>2. OnlyExcuses
    BY <1>0, <1>1, SameHist
<1>3. Requests' /\ Moves(r) /\ req'[r] = Idle /\ Sold' /\ Shelved' /\ Known'
    BY <1>1, <1>2, Ends
<1>5. PICK e : e = Handled(r)
    OBVIOUS
<1>6. e \in DOMAIN log
    BY <1>0, <1>1, <1>5 DEF Counted
<1>7. /\ answered' = answered \cup {e} /\ DOMAIN log' = DOMAIN log
      /\ \A d \in DOMAIN log : log'[d] = "processed" => log[d] = "processed" \/ d \in hist.applied \/ d.x \in hist.missed
    BY <1>1, <1>5, <1>6
<1>8. Counted'
    BY <1>0, <1>1, <1>3, <1>6, <1>7, CountedEnds
<1> QED
    BY <1>0, <1>1, <1>3, <1>8 DEF IInv

\* A request ends early.
LEMMA FailStep == ASSUME IInv, NEW r \in Req, Fail(r) PROVE IInv'
<1>0. /\ Requests /\ hist \in History /\ Counted /\ Sold /\ Shelved /\ Known /\ sent \subseteq Event
      /\ local \in [Item -> Kept] /\ catalog \in [Item -> Seq(BOOLEAN)]
    BY DEF IInv, Counted, Shelved
<1>1. UNCHANGED <<local, catalog, cust, owner, now, row, sent, answered, log>> /\ Go(r, "idle")
    BY DEF Fail, mirror, sales, events
<1>2. PICK x \in Thing : x = IF req[r].pc = "savecustomer" THEN "customer" ELSE req[r].x
    BY <1>0, LocalFields DEF Thing
<1>3. PICK why : /\ why \in SUBSET (Thing \X {"copy", "fields"}) /\ Excuse(why)
                 /\ req[r].pc \in {"stamp", "savecustomer"} => <<x, "copy">> \in why
                 /\ req[r].pc \in {"reread", "update"} => <<x, "fields">> \in why
    <2>1. PICK why : why = CASE req[r].pc \in {"stamp", "savecustomer"} -> {<<x, "copy">>}
                             [] req[r].pc \in {"reread", "update"} -> {<<x, "fields">>}
                             [] OTHER -> {}
        OBVIOUS
    <2>2. Excuse(why)
        BY <1>2, <2>1 DEF Fail
    <2>3. CASE req[r].pc \in {"stamp", "savecustomer"}
        BY <2>1, <2>2, <2>3
    <2>4. CASE req[r].pc \in {"reread", "update"}
        BY <2>1, <2>2, <2>4
    <2>5. CASE req[r].pc \notin {"stamp", "savecustomer", "reread", "update"}
        BY <2>1, <2>2, <2>5
    <2> QED
        BY <2>3, <2>4, <2>5
<1>4. OnlyExcuses /\ hist'.excused = hist.excused \cup why
    BY <1>0, <1>3, ExcuseFields
<1>5. /\ Requests' /\ Moves(r) /\ req'[r] = Idle /\ Sold'
      /\ req[r].pc \notin {"stamp", "reread", "update"} => Shelved'
      /\ req[r].pc # "savecustomer" => Known'
    BY <1>1, <1>4, Ends
<1>6. /\ req'[r].pc = "idle" /\ req'[r].x = "none" /\ req'[r].c = 0 /\ req'[r].then = "idle"
      /\ "none" \notin Item /\ hist.excused \subseteq hist'.excused
    BY <1>4, <1>5, IdleFields DEF Item
<1>7. CountedCalm
    BY <1>0, <1>1, <1>4, <1>5, <1>6 DEF CountedCalm, Dispatching, Moves, OnlyExcuses
<1>8. ASSUME req[r].pc \in {"stamp", "reread", "update"} PROVE Shelved'
    <2>1. x = req[r].x /\ x \in Item
        BY <1>0, <1>2, <1>8, ShelvingFields DEF Shelving
    <2>2. MadeOnce(x) /\ SameFields(x)
        BY <1>0, <2>1 DEF Shelved
    <2>3. Alone(x) => Alone(x)'
        BY <1>5, <1>6, <2>1 DEF Alone, Moves
    <2>4. \A q \in Req : req'[q].x = x => q # r /\ req'[q] = req[q]
        BY <1>5, <1>6, <2>1 DEF Moves
    <2>5. \A q \in Req : q # r => req'[q] = req[q]
        BY <1>5 DEF Moves
    <2>6. MadeOnce(x)'
        <3>1. CASE req[r].pc = "stamp"
            BY <1>3, <1>4, <3>1 DEF MadeOnce
        <3>2. CASE req[r].pc # "stamp"
            BY <1>1, <1>6, <2>2, <2>3, <2>4, <2>5, <3>2 DEF MadeOnce
        <3> QED
            BY <3>1, <3>2
    <2>7. SameFields(x)'
        <3>1. CASE req[r].pc \in {"reread", "update"}
            BY <1>3, <1>4, <3>1 DEF SameFields
        <3>2. CASE req[r].pc \notin {"reread", "update"}
            BY <1>1, <1>6, <2>2, <2>3, <2>4, <2>5, <3>2 DEF SameFields
        <3> QED
            BY <3>1, <3>2
    <2>8. \A y \in Item : y # x => ItemCalm(y)
        BY <1>1, <1>5, <1>6, <2>1 DEF ItemCalm, Moves
    <2>9. local[x].id # 0 => local[x].st = "kept" /\ local[x].id \in DOMAIN catalog[x]
        BY <1>0, <2>1 DEF Shelved
    <2>10. req'[r].x \notin Item /\ req'[r].pc \notin {"stamp", "update"} /\ req'[r].x # x
        BY <1>6, <2>1
    <2> QED
        BY <1>0, <1>1, <1>5, <1>6, <2>1, <2>6, <2>7, <2>8, <2>9, <2>10, ShelvedAt
<1>9. ASSUME req[r].pc = "savecustomer" PROVE Known'
    <2>1. <<"customer", "copy">> \in hist'.excused
        BY <1>2, <1>3, <1>4, <1>9
    <2>2. OneCustomer'
        BY <2>1 DEF OneCustomer
    <2>3. ASSUME NEW c \in DOMAIN cust, Steady(c) PROVE Steady(c)'
        BY <1>1, <1>5, <1>6, <2>3 DEF Steady, Moves
    <2>4. SteadyKept
        BY <1>1, <2>3 DEF SteadyKept
    <2>5. /\ cust \in Seq({"none", "blank", "named"}) /\ owner \in [Sale -> 0 .. Len(cust)]
          /\ Len(cust) \in Nat /\ \A q \in Req : req[q].c \in 0 .. Len(cust)
        BY <1>0, LenProperties DEF Known
    <2>6. \A q \in Req : req'[q].c \in 0 .. Len(cust')
        <3>1. 0 \in 0 .. Len(cust)
            BY <2>5
        <3> QED
            BY <1>1, <1>5, <1>6, <2>5, <3>1 DEF Moves
    <2>7. \A q \in Req : req'[q].pc = "savecustomer" => req[q].pc = "savecustomer" /\ req'[q].c = req[q].c
        BY <1>5, <1>6 DEF Moves
    <2> QED
        BY <1>0, <1>1, <2>2, <2>4, <2>5, <2>6, <2>7, KnownAt
<1> QED
    BY <1>0, <1>4, <1>5, <1>7, <1>8, <1>9, CountedStays DEF IInv, OnlyExcuses

-----------------------------------------------------------------------------
(* The invariant *)

\* Nothing has happened, and the catalog is in place or empty.
LEMMA InitIInv == Init => IInv
<1> SUFFICES ASSUME Init PROVE IInv
    OBVIOUS
<1>1. /\ cust = << >> /\ now = [s \in Sale |-> 0] /\ owner = now /\ row = now /\ sent = {} /\ answered = {}
      /\ log = << >> /\ req = [r \in Req |-> Idle] /\ hist = Past
    BY DEF Init
<1>2. \A r \in Req : req[r] = Idle /\ req[r].pc = "idle" /\ req[r].x = "none" /\ req[r].c = 0 /\ req[r].then = "idle"
    BY <1>1, IdleFields
<1>3. Requests
    BY <1>1, IdleFields DEF Requests
<1>4. /\ hist \in History /\ hist.made = 0 /\ hist.applied = {} /\ hist.again = {} /\ hist.late = {}
      /\ hist.missed = {} /\ hist.excused = {}
    BY <1>1 DEF Past, History
<1>5. DOMAIN log = {}
    BY <1>1
<1>6. Counted
    BY <1>1, <1>2, <1>4, <1>5 DEF Counted, EventCountsOnce, Dispatching
<1>7. Sold
    BY <1>1, <1>2, <1>4 DEF Sold, Applying, Buying
<1>8. cust \in Seq({"none", "blank", "named"}) /\ Len(cust) = 0
    BY <1>1, EmptySeq
<1>9. Known
    <2>1. OneCustomer
        BY <1>2, <1>4 DEF OneCustomer, Making
    <2> QED
        BY <1>1, <1>2, <1>8, <2>1 DEF Known
<1>10. Shelved
    <2>1. PICK full \in BOOLEAN : full = bound.stocked
        BY DEF Init, Instance
    <2>2. PICK k : k = IF full THEN [st |-> "kept", id |-> 1, active |-> full]
                               ELSE [st |-> "none", id |-> 0, active |-> full]
        OBVIOUS
    <2>3. PICK c : c = IF full THEN <<full>> ELSE << >>
        OBVIOUS
    <2>4. local = [x \in Item |-> k] /\ catalog = [x \in Item |-> c]
        <3>1. CASE full = TRUE
            BY <2>1, <2>2, <2>3, <3>1 DEF Init
        <3>2. CASE full = FALSE
            BY <2>1, <2>2, <2>3, <3>2 DEF Init
        <3> QED
            BY <3>1, <3>2
    <2>5. /\ k \in Kept /\ c \in Seq(BOOLEAN)
          /\ Len(c) <= 1 /\ (k.st = "none" => Len(c) = 0) /\ ~(k.st = "kept" /\ k.id = 0)
          /\ k.id # 0 => k.st = "kept" /\ k.id \in DOMAIN c /\ c[k.id] = k.active
        <3>1. CASE full = TRUE
            <4>1. k = [st |-> "kept", id |-> 1, active |-> full] /\ c = <<full>>
                BY <2>2, <2>3, <3>1
            <4>2. k \in Kept /\ k.st = "kept" /\ k.id = 1 /\ k.active = full
                BY <4>1 DEF Kept
            <4>3. c \in Seq(BOOLEAN) /\ Len(c) = 1 /\ c[1] = full /\ 1 \in DOMAIN c
                BY <4>1
            <4> QED
                BY <4>2, <4>3
        <3>2. CASE full = FALSE
            <4>1. k = [st |-> "none", id |-> 0, active |-> full] /\ c = << >>
                BY <2>2, <2>3, <3>2
            <4>2. k \in Kept /\ k.st = "none" /\ k.id = 0
                BY <4>1 DEF Kept
            <4>3. c \in Seq(BOOLEAN) /\ Len(c) = 0
                BY <4>1
            <4> QED
                BY <4>2, <4>3
        <3> QED
            BY <3>1, <3>2
    <2>8. \A r \in Req : req[r].x \notin Item
        BY <1>2 DEF Item
    <2>9. \A x \in Item : Alone(x)
        BY <2>8 DEF Alone
    <2>10. \A x \in Item : local[x] = k /\ catalog[x] = c
        BY <2>4
    <2>11. \A x \in Item : MadeOnce(x)
        BY <2>5, <2>8, <2>9, <2>10 DEF MadeOnce
    <2>12. \A x \in Item : SameFields(x)
        BY <2>5, <2>8, <2>9, <2>10 DEF SameFields
    <2>13. \A x \in Item : local[x].id # 0 => local[x].st = "kept" /\ local[x].id \in DOMAIN catalog[x]
        BY <2>5, <2>10
    <2> QED
        BY <1>2, <2>4, <2>5, <2>8, <2>11, <2>12, <2>13 DEF Shelved
<1> QED
    BY <1>3, <1>4, <1>6, <1>7, <1>9, <1>10 DEF IInv

\* Every step keeps the invariant.
LEMMA Inductive == IInv /\ [Next]_vars => IInv'
<1> SUFFICES ASSUME IInv, [Next]_vars PROVE IInv'
    OBVIOUS
<1>1. CASE SaveConfig
    BY <1>1, SettledStep DEF SaveConfig, mirror, sales, events
<1>2. CASE DeleteProduct
    BY <1>2, DeleteProductStep
<1>3. ASSUME NEW s \in Sale, Progress(s) \/ SubscribeAtStripe(s) PROVE IInv'
    BY <1>3, ProgressStep, SubscribeAtStripeStep
<1>4. ASSUME NEW r \in Req, Catalog(r) PROVE IInv'
    BY <1>4, CreateRowStep, UpdateRowStep, PushCatalogStep, ListPricesStep, ReadParentStep, PushStep,
       StampStep, RereadStep, UpdateAtStripeStep DEF Catalog
<1>5. ASSUME NEW r \in Req, Selling(r) PROVE IInv'
    BY <1>5, CancelSubscriptionStep, CheckoutStep, EnsureCustomerStep, CreateCustomerStep, SaveCustomerStep,
       CreateSaleStep, ResolveOwnerStep, MirrorOwnerStep, SaveStep DEF Selling
<1>6. ASSUME NEW r \in Req, Webhook(r) PROVE IInv'
    BY <1>6, HandleWebhookStep, ApplyPaymentIntentStep, ApplyCustomerStep, MarkEventProcessedStep,
       DispatchFailsStep DEF Webhook
<1>7. ASSUME NEW r \in Req, Fail(r) PROVE IInv'
    BY <1>7, FailStep
<1>8. CASE UNCHANGED vars
    BY <1>8, SettledStep DEF vars
<1> QED
    BY <1>1, <1>2, <1>3, <1>4, <1>5, <1>6, <1>7, <1>8 DEF Next

\* Counted is what EventCountsOnce needs.
LEMMA CountsEvents == IInv => EventCountsOnce
BY DEF IInv, Counted

\* A state that was announced and answered is in the row: it was projected, and
\* nothing older was written over it.
LEMMA ExplainsRows == IInv => StaleIsExplained
<1> SUFFICES ASSUME IInv, NEW s \in Sale, now[s] # 0, \A e \in sent : e.x = s => e \in answered
             PROVE  \/ row[s] = now[s]
                    \/ s \in hist.late \cup hist.missed
                    \/ s \in Payment /\ row[s] = 0
                    \/ EventOf(s, now[s]) \in DOMAIN log /\ log[EventOf(s, now[s])] # "processed"
    BY DEF StaleIsExplained
<1>1. Counted /\ Sold /\ row[s] \in Nat /\ now[s] \in Nat /\ row[s] <= now[s]
    BY DEF IInv, Sold
<1>2. PICK e : e = EventOf(s, now[s])
    OBVIOUS
<1>3. e.x = s /\ e.n = now[s]
    BY <1>2, EventFields
<1>4. CASE e \in sent
    <2>1. e \in DOMAIN log
        BY <1>1, <1>3, <1>4 DEF Counted, EventCountsOnce
    <2>2. CASE log[e] = "processed"
        <3>1. e \in hist.applied \/ s \in hist.missed
            BY <1>1, <1>3, <2>1, <2>2 DEF Counted, EventCountsOnce
        <3>2. e \in hist.applied => now[s] <= row[s] \/ s \in hist.late
            BY <1>1, <1>3 DEF Sold
        <3> QED
            BY <1>1, <3>1, <3>2
    <2> QED
        BY <1>2, <2>1, <2>2
<1>5. CASE s \in Payment /\ now[s] = 1
    BY <1>1, <1>5
<1> QED
    BY <1>1, <1>2, <1>4, <1>5 DEF Sold

\* Shelved and Known are what CatalogExplained needs.
LEMMA ExplainsCatalog == IInv => CatalogExplained
<1> SUFFICES ASSUME IInv PROVE CatalogExplained
    OBVIOUS
<1>1. hist.made > 1 => <<"customer", "copy">> \in hist.excused
    BY HistFields DEF IInv, Known, OneCustomer
<1>2. ASSUME NEW x \in Item
      PROVE  /\ Len(catalog[x]) > 1 => <<x, "copy">> \in hist.excused
             /\ local[x].id # 0 /\ Quiet(x) =>
                  catalog[x][local[x].id] = local[x].active \/ <<x, "fields">> \in hist.excused
    <2>1. MadeOnce(x) /\ SameFields(x) /\ Len(catalog[x]) \in Nat
        BY LenProperties DEF IInv, Shelved
    <2> QED
        BY <2>1 DEF MadeOnce, SameFields, Quiet
<1> QED
    BY <1>1, <1>2 DEF CatalogExplained

-----------------------------------------------------------------------------
(* Theorems *)

\* The invariant holds of internal/stripe and its handlers, for any number of
\* requests, sales, edits and mishaps.
THEOREM Invariant == Spec => []IInv
<1>1. IInv /\ [Next]_vars => IInv'
    BY Inductive
<1>2. Init => IInv
    BY InitIInv
<1> QED
    BY <1>1, <1>2, PTL DEF Spec

\* HandleWebhook projects an event at most once, is asked for it until it is in
\* the log, and marks it processed only when it was projected or was about no row.
THEOREM CountsOnce == Spec => []EventCountsOnce
BY Invariant, CountsEvents, PTL

\* A row that differs from Stripe when every event of the sale was answered was
\* written over late, missed its event, was never made, or is owed an event that
\* failed.
THEOREM RowsExplained == Spec => []StaleIsExplained
BY Invariant, ExplainsRows, PTL

\* A second object or customer at Stripe, or other fields than the row's, come
\* from an overlap, from an id lost between Stripe and the row, or from an edit
\* that was not sent.
THEOREM CopiesExplained == Spec => []CatalogExplained
BY Invariant, ExplainsCatalog, PTL

=============================================================================
