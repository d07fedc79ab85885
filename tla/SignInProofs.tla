---------------------------- MODULE SignInProofs ----------------------------
(***************************************************************************)
(* Proofs about SignIn, for any number of requests at the same time, calls *)
(* and failures, and any lockout threshold.                                *)
(*                                                                         *)
(* The invariant has a part for each promise of the handlers: what ends    *)
(* sessions (Ended), what makes an account verified (Proven), and what may *)
(* be redeemed how often: tokens (Redeemed), challenges (Answered) and     *)
(* recovery codes (Recovered); and the lockout (Locking).  A part ties     *)
(* rows to the requests that have read them and have yet to write.  Most   *)
(* steps leave most parts alone: each has a "calm" frame that says so.     *)
(***************************************************************************)
EXTENDS SignIn, FiniteSetTheorems, SequenceTheorems, TLAPS

Stage == {"idle", "session", "refresh", "verify", "factor", "issue", "password", "verified",
          "email", "code", "revoke", "confirm", "disable", "mark", "solve", "bind",
          "provision", "link"}

Flow == Op \cup {"none", "totp", "confirm", "disable"}

Handling == [stage : Stage, flow : Flow,
             asof : Nat, open : SUBSET Nat, end : Nat, on : Nat, seen : Nat]

Session == [live : BOOLEAN, asof : Nat, escaped : SUBSET Nat, line : SUBSET Nat]
End == [st : {"pending", "done", "failed"}, keep : SUBSET Nat]
Account == [email : Email \cup {NoEmail}, verified : BOOLEAN, pw : Nat, link : BOOLEAN,
            passkey : BOOLEAN]
TokenRow == [purpose : {"verify", "otp", "reset", "email"}, to : Email \cup {NoEmail},
             new : Email \cup {NoEmail}, used : BOOLEAN, redeemed : Nat]
Challenge == [asof : Nat, done : BOOLEAN, sessions : Nat]
Enrollment == [st : {"none", "pending", "active"}, used : BOOLEAN, gen : Nat, id : Nat]
Lock == [fails : 0 .. Threshold, locked : BOOLEAN, late : Nat]

\* The stages of handlers that are not about a second factor.
Lone == {"verify", "factor", "bind", "provision", "verified", "code", "link"}

\* The handlers; only a second factor signs in as flow "totp".
Handlers ==
    /\ req \in [Req -> Handling]
    /\ \A r \in Req : req[r].stage \in Lone
                        => req[r].flow # "totp"

\* What excuses session s for outliving the end v.
Outlives(s, v) ==
    \/ v \in sessions[s].escaped
    \/ ({s} \cup sessions[s].line) \cap ends[v].keep # {}

\* A refresh knows of every end before it, whether it was still open or excuses
\* the session that is refreshed.
RefreshKnows ==
    \A r \in Req : req[r].stage = "refresh" =>
        /\ req[r].on \in DOMAIN sessions
        /\ req[r].asof <= Len(ends)
        /\ \A v \in (sessions[req[r].on].asof + 1) .. req[r].asof :
             Outlives(req[r].on, v) \/ v \in req[r].open

Ended ==
    /\ sessions \in Seq(Session)
    /\ ends \in Seq(End)
    /\ EndedStaysEnded
    /\ RefreshKnows

\* Mailed to the address of the row, or the row has a proven address by now.
TokensFit ==
    \A t \in DOMAIN tokens :
        /\ tokens[t].purpose = "verify" => Exists /\ (tokens[t].to = row.email \/ row.email \in proven)
        /\ tokens[t].purpose = "email" => tokens[t].new \in Email /\ tokens[t].to = tokens[t].new

FlowsFit ==
    \A r \in Req :
        /\ req[r].stage = "verified" => Exists /\ row.email \in proven
        /\ req[r].stage = "email" => /\ req[r].on \in DOMAIN tokens
                                     /\ tokens[req[r].on].new \in Email \cap proven

Proven ==
    /\ row \in Account
    /\ VerifiedIsProven
    /\ TokensFit
    /\ FlowsFit

\* The requests that have checked a typed code of t and have yet to mark it.
Coding(t) == {r \in Req : req[r].stage = "code" /\ req[r].on = t}

Redeemed ==
    /\ tokens \in Seq(TokenRow)
    /\ \A r \in Req : req[r].stage = "code" =>
         req[r].on \in DOMAIN tokens /\ tokens[req[r].on].purpose = "otp"
    /\ \A t \in DOMAIN tokens :
         /\ ~tokens[t].used => tokens[t].redeemed = 0
         /\ tokens[t].purpose # "otp" => tokens[t].redeemed <= 1
         /\ tokens[t].purpose = "otp" => tokens[t].redeemed + Cardinality(Coding(t)) <= Cardinality(Req)

\* Request r has solved challenge c and has yet to make its session.
Solved(r, c) == req[r].stage = "session" /\ req[r].flow = "totp" /\ req[r].on = c

\* Request r is about a challenge.
Facing(r) == \/ req[r].stage \in {"mark", "solve"}
             \/ req[r].stage = "session" /\ req[r].flow = "totp"

OneSession(c) ==
    /\ challenges[c].sessions <= 1
    /\ ~challenges[c].done => challenges[c].sessions = 0
    /\ \A r \in Req : Solved(r, c) => challenges[c].done /\ challenges[c].sessions = 0
    /\ \A r, q \in Req : Solved(r, c) /\ Solved(q, c) => q = r

Answered ==
    /\ challenges \in Seq(Challenge)
    /\ \A r \in Req : Facing(r) => req[r].on \in DOMAIN challenges
    /\ \A c \in DOMAIN challenges : OneSession(c)

\* The requests that have checked a recovery code of generation g.
Marking(g) == {r \in Req : req[r].stage = "mark" /\ req[r].seen = g}

Recovered ==
    /\ uses \in Seq(Nat)
    /\ enrollment \in Enrollment
    /\ enrollment.st # "none" => enrollment.gen \in DOMAIN uses
    /\ enrollment.st # "none" /\ ~enrollment.used => uses[enrollment.gen] = 0
    /\ \A r \in Req : req[r].stage = "mark" => req[r].seen \in DOMAIN uses
    /\ \A g \in DOMAIN uses : uses[g] + Cardinality(Marking(g)) <= Cardinality(Req)

\* The requests whose password is still to be compared.
Comparing == {r \in Req : req[r].stage \in {"verify", "bind"}}

Locking ==
    /\ lock \in Lock
    /\ ~lock.locked => lock.late = 0
    /\ lock.locked => lock.fails = Threshold /\ lock.late + Cardinality(Comparing) < Cardinality(Req)

IInv == Handlers /\ Ended /\ Proven /\ Redeemed /\ Answered /\ Recovered /\ Locking

USE SignInAssumption

-----------------------------------------------------------------------------
(* Sequences, sets and counts *)

\* Writing one row of a table.
LEMMA SeqSet ==
    ASSUME NEW S, NEW s \in Seq(S), NEW i \in DOMAIN s, NEW x \in S
    PROVE  /\ [s EXCEPT ![i] = x] \in Seq(S)
           /\ Len([s EXCEPT ![i] = x]) = Len(s)
           /\ DOMAIN [s EXCEPT ![i] = x] = DOMAIN s
           /\ [s EXCEPT ![i] = x][i] = x
           /\ \A j \in DOMAIN s : j # i => [s EXCEPT ![i] = x][j] = s[j]
<1>1. i \in 1 .. Len(s) /\ DOMAIN s = 1 .. Len(s)
    BY LenProperties
<1> QED
    BY <1>1, ExceptSeq

\* Inserting a row.
LEMMA SeqAdd ==
    ASSUME NEW S, NEW s \in Seq(S), NEW x \in S
    PROVE  /\ Append(s, x) \in Seq(S)
           /\ Len(Append(s, x)) = Len(s) + 1 /\ Len(s) \in Nat
           /\ DOMAIN Append(s, x) = DOMAIN s \cup {Len(s) + 1}
           /\ DOMAIN s = 1 .. Len(s) /\ DOMAIN Append(s, x) = 1 .. (Len(s) + 1)
           /\ Append(s, x)[Len(s) + 1] = x
           /\ \A j \in DOMAIN s : Append(s, x)[j] = s[j]
<1>1. Len(s) \in Nat /\ DOMAIN s = 1 .. Len(s)
    BY LenProperties
<1>2. Append(s, x) \in Seq(S) /\ Len(Append(s, x)) = Len(s) + 1
    BY AppendProperties
<1>3. DOMAIN Append(s, x) = 1 .. (Len(s) + 1)
    BY <1>2, LenProperties
<1> QED
    BY <1>1, <1>2, <1>3, AppendProperties

\* Writing all rows.
LEMMA SeqMap ==
    ASSUME NEW S, NEW n \in Nat, NEW f \in [1 .. n -> S]
    PROVE  f \in Seq(S) /\ DOMAIN f = 1 .. n
<1>1. f \in Seq(S)
    BY SeqDef
<1> QED
    BY <1>1

\* ORDER BY ... LIMIT 1 returns a row of the table.
LEMMA MaxIsMember ==
    ASSUME NEW n \in Nat, NEW T \in SUBSET (1 .. n), T # {}
    PROVE  Max(T) \in T
<1> DEFINE D == {n - x : x \in T}
<1>1. D \subseteq Nat /\ D # {}
    <2>1. \A x \in T : n - x \in Nat
        OBVIOUS
    <2>2. D \subseteq Nat
        BY <2>1
    <2>3. PICK x : x \in T
        OBVIOUS
    <2>4. n - x \in D
        BY <2>3
    <2> QED
        BY <2>2, <2>4
<1>2. PICK d \in D : \A y \in D : ~(<<y, d>> \in OpToRel(<, Nat))
    BY <1>1, WFMin, NatLessThanWellFounded
<1>3. PICK x \in T : d = n - x
    BY <1>2
<1>4. ASSUME NEW y \in T PROVE x >= y
    <2>1. ~(<<n - y, d>> \in OpToRel(<, Nat))
        BY <1>2
    <2>2. n - y \in Nat /\ d \in Nat
        BY <1>1, <1>2
    <2>3. ~(n - y < d)
        BY <2>1, <2>2 DEF OpToRel
    <2> QED
        BY <1>3, <2>3
<1> QED
    BY <1>4 DEF Max

\* Requests are counted with natural numbers, and fewer are no more.
LEMMA CountFew ==
    ASSUME NEW A \in SUBSET Req, NEW B \in SUBSET A
    PROVE  Cardinality(A) \in Nat /\ Cardinality(B) \in Nat /\ Cardinality(B) <= Cardinality(A)
<1>1. IsFiniteSet(A)
    BY FS_Subset
<1> QED
    BY <1>1, FS_Subset, FS_CardinalityType

\* One of them less is one less.
LEMMA CountOneLess ==
    ASSUME NEW A \in SUBSET Req, NEW r \in A, NEW B \in SUBSET (A \ {r})
    PROVE  Cardinality(A) \in Nat /\ Cardinality(B) \in Nat /\ Cardinality(B) + 1 <= Cardinality(A)
<1>1. IsFiniteSet(A)
    BY FS_Subset
<1>2. IsFiniteSet(A \ {r}) /\ Cardinality(A \ {r}) = Cardinality(A) - 1
    BY <1>1, FS_RemoveElement
<1> QED
    BY <1>1, <1>2, FS_Subset, FS_CardinalityType

\* There is a request.
LEMMA SomeRequest == Cardinality(Req) \in Nat /\ Cardinality(Req) >= 1
<1>1. Cardinality(Req) \in Nat /\ Cardinality(Req) # 0
    BY FS_CardinalityType, FS_EmptySet
<1> QED
    BY <1>1

-----------------------------------------------------------------------------
(* What a request keeps *)

\* A request that begins, and one that has ended.
LEMMA BegunFields ==
    ASSUME ends \in Seq(End), NEW stage \in Stage,
           NEW flow \in Flow, NEW on \in Nat, NEW seen \in Nat
    PROVE  /\ Begun(stage, flow, on, seen) \in Handling
           /\ Begun(stage, flow, on, seen).stage = stage
           /\ Begun(stage, flow, on, seen).flow = flow
           /\ Begun(stage, flow, on, seen).on = on
           /\ Begun(stage, flow, on, seen).seen = seen
           /\ Begun(stage, flow, on, seen).asof = Len(ends)
           /\ Begun(stage, flow, on, seen).open = {v \in DOMAIN ends : ends[v].st # "done"}
<1> DEFINE n == Len(ends)
           o == {v \in DOMAIN ends : ends[v].st # "done"}
<1>1. n \in Nat /\ DOMAIN ends = 1 .. n
    BY LenProperties
<1>2. o \in SUBSET Nat
    BY <1>1
<1>3. Begun(stage, flow, on, seen) = [Idle EXCEPT !.stage = stage, !.flow = flow, !.on = on,
                                                  !.seen = seen, !.asof = n, !.open = o]
    BY DEF Begun
<1> HIDE DEF n, o
<1>4. Idle \in Handling
    BY DEF Idle, Handling, Stage, Flow
<1> DEFINE x == [Idle EXCEPT !.stage = stage, !.flow = flow, !.on = on,
                             !.seen = seen, !.asof = n, !.open = o]
<1>5. /\ x \in Handling /\ x.stage = stage /\ x.flow = flow /\ x.on = on /\ x.seen = seen
      /\ x.asof = n /\ x.open = o
    BY <1>1, <1>2, <1>4 DEF Handling
<1> QED
    BY <1>3, <1>5 DEF n, o

\* A request that has not begun.
LEMMA IdleFields == Idle \in Handling /\ Idle.stage = "idle" /\ Idle.flow = "none"
BY DEF Idle, Handling, Stage, Flow

\* One request moves and the others stay where they are.
Moves(r) == \A q \in Req : q # r => req'[q] = req[q]

\* The handlers after one of them has moved.
LEMMA ReqSet ==
    ASSUME Handlers, NEW r \in Req, NEW x \in Handling, req' = [req EXCEPT ![r] = x],
           x.stage \in Lone => x.flow # "totp"
    PROVE  Handlers' /\ req'[r] = x /\ Moves(r)
<1>1. req \in [Req -> Handling]
    BY DEF Handlers
<1>2. req' \in [Req -> Handling] /\ req'[r] = x /\ \A q \in Req : q # r => req'[q] = req[q]
    BY <1>1
<1> QED
    BY <1>2 DEF Handlers, Moves

\* A request that ends.
LEMMA DoneFields ==
    ASSUME Handlers, NEW r \in Req, Done(r)
    PROVE  Handlers' /\ req'[r].stage = "idle" /\ Moves(r)
BY ReqSet, IdleFields DEF Done

\* A request that goes on to another statement.
LEMMA GotoFields ==
    ASSUME Handlers, NEW r \in Req, NEW stage \in Stage, Goto(r, stage),
           stage \in Lone => req[r].flow # "totp"
    PROVE  /\ Handlers' /\ Moves(r)
           /\ req'[r].stage = stage /\ req'[r].flow = req[r].flow /\ req'[r].on = req[r].on
           /\ req'[r].seen = req[r].seen /\ req'[r].asof = req[r].asof /\ req'[r].end = req[r].end
           /\ req'[r].open = req[r].open
<1> DEFINE x == [req[r] EXCEPT !.stage = stage]
<1>0. req \in [Req -> Handling] /\ req[r] \in Handling
    BY DEF Handlers
<1>1. req' = [req EXCEPT ![r] = x]
    BY <1>0 DEF Goto
<1>2. /\ x \in Handling /\ x.stage = stage /\ x.flow = req[r].flow /\ x.on = req[r].on
      /\ x.seen = req[r].seen /\ x.asof = req[r].asof /\ x.end = req[r].end /\ x.open = req[r].open
    BY <1>0 DEF Handling
<1> HIDE DEF x
<1> QED
    BY <1>1, <1>2, ReqSet

\* A client's call on a free goroutine.
LEMMA CallFields ==
    ASSUME Handlers, ends \in Seq(End), NEW r \in Req, NEW stage \in Stage,
           NEW flow \in Flow, NEW on \in Nat, NEW seen \in Nat,
           stage \in Lone => flow # "totp",
           req' = [req EXCEPT ![r] = Begun(stage, flow, on, seen)]
    PROVE  /\ Handlers' /\ Moves(r)
           /\ req'[r].stage = stage /\ req'[r].flow = flow /\ req'[r].on = on /\ req'[r].seen = seen
           /\ req'[r].asof = Len(ends) /\ req'[r].open = {v \in DOMAIN ends : ends[v].st # "done"}
<1>1. PICK x : x = Begun(stage, flow, on, seen)
    OBVIOUS
<1>2. /\ x \in Handling /\ x.stage = stage /\ x.flow = flow /\ x.on = on /\ x.seen = seen
      /\ x.asof = Len(ends)
    BY <1>1, BegunFields
<1>3. x.open = {v \in DOMAIN ends : ends[v].st # "done"}
    <2>1. Begun(stage, flow, on, seen).open = {v \in DOMAIN ends : ends[v].st # "done"}
        BY DEF Begun, Idle
    <2> QED
        BY <1>1, <2>1
<1>4. req' = [req EXCEPT ![r] = x]
    BY <1>1
<1>5. Handlers' /\ req'[r] = x /\ Moves(r)
    BY <1>2, <1>4, ReqSet
<1> QED
    BY <1>2, <1>3, <1>5

-----------------------------------------------------------------------------
(* Calm steps *)

\* A part of the invariant is about a table and the requests that are about to
\* write to it.  A step that leaves the table alone and sends nobody there keeps it.
EndedCalm ==
    /\ UNCHANGED <<sessions, ends>>
    /\ \A q \in Req : req'[q].stage = "refresh" => req'[q] = req[q]
ProvenCalm ==
    /\ UNCHANGED <<row, proven, tokens>>
    /\ \A q \in Req : req'[q].stage \in {"verified", "email"} => req'[q] = req[q]
RedeemedCalm ==
    /\ UNCHANGED tokens
    /\ \A q \in Req : req'[q].stage = "code" => req'[q] = req[q]
AnsweredCalm ==
    /\ UNCHANGED challenges
    /\ \A q \in Req : Facing(q)' => req'[q] = req[q]
RecoveredCalm ==
    /\ UNCHANGED <<enrollment, uses>>
    /\ \A q \in Req : req'[q].stage = "mark" => req'[q] = req[q]
LockingCalm ==
    /\ UNCHANGED lock
    /\ \A q \in Req : req'[q].stage \in {"verify", "bind"} => req'[q] = req[q]

\* No session and no end of sessions.
LEMMA EndedStays == ASSUME Ended, EndedCalm PROVE Ended'
BY DEF Ended, EndedCalm, EndedStaysEnded, Live, RefreshKnows, Outlives

\* No new address, no new token.
LEMMA ProvenStays == ASSUME Proven, ProvenCalm PROVE Proven'
BY DEF Proven, ProvenCalm, VerifiedIsProven, TokensFit, FlowsFit, Exists

\* The columns of a token.
LEMMA TokenFields ==
    ASSUME Redeemed, NEW t \in DOMAIN tokens
    PROVE  /\ tokens[t] \in TokenRow /\ tokens[t].redeemed \in Nat
           /\ tokens[t].purpose \in {"verify", "otp", "reset", "email"}
           /\ t \in Nat /\ DOMAIN tokens = 1 .. Len(tokens) /\ Len(tokens) \in Nat
<1>1. tokens \in Seq(TokenRow)
    BY DEF Redeemed
<1>2. DOMAIN tokens = 1 .. Len(tokens) /\ Len(tokens) \in Nat
    BY <1>1, LenProperties
<1>3. tokens[t] \in TokenRow
    BY <1>1, <1>2, ElementOfSeq
<1> QED
    BY <1>2, <1>3 DEF TokenRow

\* No token redeemed.
LEMMA RedeemedStays == ASSUME Redeemed, RedeemedCalm PROVE Redeemed'
<1>1. \A t : Coding(t)' \in SUBSET Coding(t) /\ Coding(t) \in SUBSET Req
    BY DEF Coding, RedeemedCalm
<1>2. \A t : /\ Cardinality(Coding(t)) \in Nat /\ Cardinality(Coding(t)') \in Nat
             /\ Cardinality(Coding(t)') <= Cardinality(Coding(t))
    BY <1>1, CountFew
<1>3. \A t \in DOMAIN tokens : tokens[t].redeemed \in Nat
    BY TokenFields
<1>4. tokens' = tokens /\ tokens \in Seq(TokenRow)
    BY DEF RedeemedCalm, Redeemed
<1>5. \A t \in DOMAIN tokens : tokens[t].purpose = "otp" =>
        tokens[t].redeemed + Cardinality(Coding(t)') <= Cardinality(Req)
    BY <1>2, <1>3, SomeRequest DEF Redeemed
<1>6. \A r \in Req : req'[r].stage = "code" => req'[r].on \in DOMAIN tokens /\ tokens[req'[r].on].purpose = "otp"
    BY DEF Redeemed, RedeemedCalm
<1> QED
    BY <1>4, <1>5, <1>6 DEF Redeemed

\* No challenge solved.
LEMMA AnsweredStays == ASSUME Answered, AnsweredCalm PROVE Answered'
<1>1. challenges' = challenges /\ \A q \in Req : Facing(q)' => req'[q] = req[q]
    BY DEF AnsweredCalm
<1>2. \A r \in Req : \A c : Solved(r, c)' => Solved(r, c)
    BY <1>1 DEF Solved, Facing
<1>3. \A r \in Req : Facing(r)' => req'[r].on \in DOMAIN challenges
    BY <1>1 DEF Answered, Facing
<1>4. ASSUME NEW c \in DOMAIN challenges PROVE OneSession(c)'
    <2>1. OneSession(c)
        BY DEF Answered
    <2> QED
        BY <1>1, <1>2, <2>1 DEF OneSession
<1>5. challenges \in Seq(Challenge)
    BY DEF Answered
<1> QED
    BY <1>1, <1>3, <1>4, <1>5 DEF Answered

\* No recovery code used.
LEMMA RecoveredStays == ASSUME Recovered, RecoveredCalm PROVE Recovered'
<1>1. \A g : Marking(g)' \in SUBSET Marking(g) /\ Marking(g) \in SUBSET Req
    BY DEF Marking, RecoveredCalm
<1>2. \A g : /\ Cardinality(Marking(g)) \in Nat /\ Cardinality(Marking(g)') \in Nat
             /\ Cardinality(Marking(g)') <= Cardinality(Marking(g))
    BY <1>1, CountFew
<1>3. \A g \in DOMAIN uses : uses[g] \in Nat
    BY DEF Recovered
<1>4. uses' = uses /\ enrollment' = enrollment
    BY DEF RecoveredCalm
<1>5. \A g \in DOMAIN uses : uses[g] + Cardinality(Marking(g)') <= Cardinality(Req)
    BY <1>2, <1>3, SomeRequest DEF Recovered
<1>6. \A r \in Req : req'[r].stage = "mark" => req'[r].seen \in DOMAIN uses
    BY DEF Recovered, RecoveredCalm
<1> QED
    BY <1>4, <1>5, <1>6 DEF Recovered

\* No password compared.
LEMMA LockingStays == ASSUME Locking, LockingCalm PROVE Locking'
<1>1. Comparing' \in SUBSET Comparing /\ Comparing \in SUBSET Req
    BY DEF Comparing, LockingCalm
<1>2. /\ Cardinality(Comparing) \in Nat /\ Cardinality(Comparing') \in Nat
      /\ Cardinality(Comparing') <= Cardinality(Comparing)
    BY <1>1, CountFew
<1>3. lock' = lock /\ lock.late \in Nat
    BY DEF LockingCalm, Locking, Lock
<1> QED
    BY <1>2, <1>3, SomeRequest DEF Locking

-----------------------------------------------------------------------------
(* Sessions and what ends them *)

\* The columns of sessions and ends.
LEMMA EndedFields ==
    ASSUME Ended
    PROVE  /\ sessions \in Seq(Session) /\ DOMAIN sessions = 1 .. Len(sessions) /\ Len(sessions) \in Nat
           /\ ends \in Seq(End) /\ DOMAIN ends = 1 .. Len(ends) /\ Len(ends) \in Nat
           /\ \A s \in DOMAIN sessions :
                /\ sessions[s] \in Session /\ sessions[s].asof \in Nat
                /\ sessions[s].escaped \in SUBSET Nat /\ sessions[s].line \in SUBSET Nat
                /\ sessions[s].live \in BOOLEAN
           /\ \A v \in DOMAIN ends : ends[v] \in End /\ ends[v].keep \in SUBSET Nat
           /\ Live \subseteq DOMAIN sessions
<1>1. sessions \in Seq(Session) /\ ends \in Seq(End)
    BY DEF Ended
<1>2. /\ DOMAIN sessions = 1 .. Len(sessions) /\ Len(sessions) \in Nat
      /\ DOMAIN ends = 1 .. Len(ends) /\ Len(ends) \in Nat
    BY <1>1, LenProperties
<1>3. (\A s \in DOMAIN sessions : sessions[s] \in Session) /\ (\A v \in DOMAIN ends : ends[v] \in End)
    BY <1>1, <1>2, ElementOfSeq
<1>4. \A s \in DOMAIN sessions :
        /\ sessions[s].asof \in Nat /\ sessions[s].live \in BOOLEAN
        /\ sessions[s].escaped \in SUBSET Nat /\ sessions[s].line \in SUBSET Nat
    BY <1>3 DEF Session
<1>5. \A v \in DOMAIN ends : ends[v].keep \in SUBSET Nat
    BY <1>3 DEF End
<1> QED
    BY <1>1, <1>2, <1>3, <1>4, <1>5 DEF Live

\* Rows and ends are added, and of those that are there only live and st change.
Grows ==
    /\ sessions' \in Seq(Session) /\ DOMAIN sessions \subseteq DOMAIN sessions'
    /\ ends' \in Seq(End) /\ Len(ends) <= Len(ends') /\ Len(ends') \in Nat
    /\ \A s \in DOMAIN sessions : /\ sessions'[s].asof = sessions[s].asof
                                  /\ sessions'[s].escaped = sessions[s].escaped
                                  /\ sessions'[s].line = sessions[s].line
    /\ \A v \in DOMAIN ends : ends'[v].keep = ends[v].keep

\* Then the requests under way still know what they knew.
LEMMA KnowsStays ==
    ASSUME Handlers, Ended, Grows,
           \A q \in Req : req'[q].stage = "refresh" => req'[q] = req[q]
    PROVE  /\ RefreshKnows'
           /\ \A s \in DOMAIN sessions, v \in DOMAIN ends : Outlives(s, v)' <=> Outlives(s, v)
<1>0. /\ DOMAIN ends = 1 .. Len(ends) /\ Len(ends) \in Nat /\ Len(ends') \in Nat /\ Len(ends) <= Len(ends')
      /\ \A s \in DOMAIN sessions : sessions[s].asof \in Nat
    BY EndedFields DEF Grows
<1>1. \A s \in DOMAIN sessions, v \in DOMAIN ends : Outlives(s, v)' <=> Outlives(s, v)
    BY DEF Outlives, Grows
<1>2. ASSUME NEW r \in Req, req'[r].stage = "refresh", req[r].asof \in Nat
      PROVE  /\ req'[r].on \in DOMAIN sessions'
             /\ req'[r].asof <= Len(ends')
             /\ \A v \in (sessions'[req'[r].on].asof + 1) .. req'[r].asof :
                  Outlives(req[r].on, v)' \/ v \in req'[r].open
    <2>1. req'[r] = req[r]
        BY <1>2
    <2> DEFINE o == req[r].on
    <2>2. /\ o \in DOMAIN sessions /\ req[r].asof <= Len(ends)
          /\ \A v \in (sessions[o].asof + 1) .. req[r].asof : Outlives(o, v) \/ v \in req[r].open
        BY <1>2, <2>1 DEF Ended, RefreshKnows
    <2>3. o \in DOMAIN sessions' /\ sessions'[o].asof = sessions[o].asof
        BY <2>2 DEF Grows
    <2>4. \A v \in (sessions[o].asof + 1) .. req[r].asof : v \in DOMAIN ends
        BY <1>0, <1>2, <2>2
    <2>5. \A v \in (sessions[o].asof + 1) .. req[r].asof : Outlives(o, v)' \/ v \in req[r].open
        <3>1. PICK p : p = o
            OBVIOUS
        <3>2. \A v \in (sessions[p].asof + 1) .. req[r].asof : Outlives(p, v)' \/ v \in req[r].open
            BY <1>1, <2>2, <2>4, <3>1
        <3> QED
            BY <2>1, <3>1, <3>2 DEF Outlives
    <2> QED
        BY <1>0, <1>2, <2>1, <2>2, <2>3, <2>5
<1>3. \A r \in Req : req[r].asof \in Nat
    BY DEF Handlers, Handling
<1> QED
    BY <1>1, <1>2, <1>3 DEF RefreshKnows

\* The columns of a request, for use with arithmetic.
LEMMA HandlingFields ==
    ASSUME Handlers, NEW r \in Req
    PROVE  /\ req[r] \in Handling /\ req[r].asof \in Nat /\ req[r].open \in SUBSET Nat
           /\ req[r].end \in Nat /\ req[r].on \in Nat /\ req[r].seen \in Nat /\ req[r].stage \in Stage
<1>1. req[r] \in Handling
    BY DEF Handlers
<1> QED
    BY <1>1 DEF Handling

\* A new session on evidence from before ends that the session then escapes.
LEMMA AddSession ==
    ASSUME Handlers, Ended, NEW x \in Session, NEW old \in Seq(Session),
           DOMAIN old = DOMAIN sessions, Len(old) = Len(sessions),
           \A s \in DOMAIN sessions :
             /\ old[s].asof = sessions[s].asof /\ old[s].escaped = sessions[s].escaped
             /\ old[s].line = sessions[s].line /\ (old[s].live => sessions[s].live),
           sessions' = Append(old, x), ends' = ends,
           \A v \in (x.asof + 1) .. Len(ends) :
             v \in x.escaped \/ x.line \cap ends[v].keep # {} \/ ends[v].st # "done",
           \A q \in Req : req'[q].stage = "refresh" => req'[q] = req[q]
    PROVE  Ended'
<1>0. /\ ends \in Seq(End) /\ DOMAIN ends = 1 .. Len(ends) /\ Len(ends) \in Nat
      /\ \A s \in DOMAIN sessions : sessions[s].asof \in Nat
    BY EndedFields
<1> DEFINE n == Len(sessions) + 1
<1>1. /\ sessions' \in Seq(Session) /\ DOMAIN sessions' = DOMAIN sessions \cup {n}
      /\ sessions'[n] = x /\ n \notin DOMAIN sessions
      /\ \A s \in DOMAIN sessions : sessions'[s] = old[s]
    BY SeqAdd
<1>2. Grows
    BY <1>0, <1>1 DEF Grows
<1>3. RefreshKnows'
    BY <1>2, KnowsStays
<1>4. ASSUME NEW s \in DOMAIN sessions', sessions'[s].live, NEW v \in (sessions'[s].asof + 1) .. Len(ends)
      PROVE  \/ v \in sessions'[s].escaped
             \/ ({s} \cup sessions'[s].line) \cap ends[v].keep # {}
             \/ ends[v].st # "done"
    <2>1. CASE s = n
        BY <1>1, <1>4, <2>1
    <2>2. CASE s # n
        <3>1. s \in DOMAIN sessions /\ sessions'[s] = old[s]
            BY <1>1, <2>2
        <3>2. s \in Live /\ v \in (sessions[s].asof + 1) .. Len(ends)
            BY <1>4, <3>1 DEF Live
        <3>3. \/ v \in sessions[s].escaped
              \/ ({s} \cup sessions[s].line) \cap ends[v].keep # {}
              \/ ends[v].st # "done"
            BY <3>2 DEF Ended, EndedStaysEnded
        <3> QED
            BY <3>1, <3>3
    <2> QED
        BY <2>1, <2>2
<1>5. EndedStaysEnded'
    BY <1>4 DEF EndedStaysEnded, Live
<1> QED
    BY <1>0, <1>1, <1>3, <1>5 DEF Ended

\* Sessions.Create.
LEMMA CreateSessionEnds ==
    ASSUME Handlers, Ended, NEW r \in Req, CreateSession(r)
    PROVE  Ended'
<1>1. /\ sessions' = Append(sessions, NewSession(req[r].asof, (req[r].asof + 1) .. Len(ends), {}))
      /\ Done(r) /\ ends' = ends
    BY DEF CreateSession, account
<1> DEFINE x == NewSession(req[r].asof, (req[r].asof + 1) .. Len(ends), {})
<1>2. req[r].asof \in Nat /\ Len(ends) \in Nat /\ sessions \in Seq(Session)
    BY HandlingFields, EndedFields
<1>3. (req[r].asof + 1) .. Len(ends) \in SUBSET Nat
    BY <1>2
<1>4. /\ x \in Session /\ x.asof = req[r].asof /\ x.escaped = (req[r].asof + 1) .. Len(ends)
    BY <1>2, <1>3 DEF NewSession, Session
<1> HIDE DEF x
<1>5. \A q \in Req : req'[q].stage = "refresh" => req'[q] = req[q]
    BY <1>1, DoneFields DEF Moves
<1>6. \A v \in (x.asof + 1) .. Len(ends) : v \in x.escaped
    BY <1>4
<1>7. sessions' = Append(sessions, x)
    BY <1>1 DEF x
<1> QED
    BY <1>1, <1>2, <1>4, <1>5, <1>6, <1>7, AddSession

\* Refresh up to its commit.
LEMMA RefreshBeginEnds ==
    ASSUME Handlers, Ended, NEW r \in Req, NEW s \in DOMAIN sessions, RefreshBegin(r, s)
    PROVE  Ended' /\ Handlers' /\ Moves(r) /\ req'[r].stage = "refresh"
<1>1. /\ s \in Live /\ req' = [req EXCEPT ![r] = Begun("refresh", "refresh", s, 0)]
      /\ sessions' = sessions /\ ends' = ends
    BY DEF RefreshBegin, account
<1>2. /\ ends \in Seq(End) /\ DOMAIN ends = 1 .. Len(ends) /\ Len(ends) \in Nat /\ s \in Nat
      /\ sessions[s].asof \in Nat /\ sessions \in Seq(Session)
    BY EndedFields
<1>3. "refresh" \in Stage /\ "refresh" \in Flow
    BY DEF Stage, Op, Flow
<1>4. /\ Handlers' /\ Moves(r)
      /\ req'[r].stage = "refresh" /\ req'[r].on = s /\ req'[r].asof = Len(ends)
      /\ req'[r].open = {v \in DOMAIN ends : ends[v].st # "done"}
    BY <1>1, <1>2, <1>3, CallFields DEF Lone
<1>5. \A v \in (sessions[s].asof + 1) .. Len(ends) : Outlives(s, v) \/ v \in req'[r].open
    <2>1. \A v \in (sessions[s].asof + 1) .. Len(ends) : Outlives(s, v) \/ ends[v].st # "done"
        BY <1>1 DEF Ended, EndedStaysEnded, Outlives
    <2>2. \A v \in (sessions[s].asof + 1) .. Len(ends) : v \in DOMAIN ends
        BY <1>2
    <2> QED
        BY <1>4, <2>1, <2>2
<1>6. \A p \in DOMAIN sessions : \A v : Outlives(p, v)' <=> Outlives(p, v)
    BY <1>1 DEF Outlives
<1>7. ASSUME NEW q \in Req, req'[q].stage = "refresh"
      PROVE  /\ req'[q].on \in DOMAIN sessions
             /\ req'[q].asof <= Len(ends)
             /\ \A v \in (sessions[req'[q].on].asof + 1) .. req'[q].asof :
                  Outlives(req[q].on, v)' \/ v \in req'[q].open
    <2>1. CASE q = r
        <3>1. \A v \in (sessions[s].asof + 1) .. Len(ends) : Outlives(s, v)' \/ v \in req'[r].open
            BY <1>5, <1>6
        <3>2. \A v : Outlives(s, v)' <=> Outlives(req[q].on, v)'
            BY <1>4, <2>1 DEF Outlives
        <3> QED
            BY <1>2, <1>4, <2>1, <3>1, <3>2
    <2>2. CASE q # r
        <3>1. req'[q] = req[q]
            BY <1>4, <2>2 DEF Moves
        <3>2. /\ req[q].on \in DOMAIN sessions /\ req[q].asof <= Len(ends)
              /\ \A v \in (sessions[req[q].on].asof + 1) .. req[q].asof :
                   Outlives(req[q].on, v) \/ v \in req[q].open
            BY <1>7, <3>1 DEF Ended, RefreshKnows
        <3>3. \A v : Outlives(req[q].on, v)' <=> Outlives(req[q].on, v)
            BY <1>1, <3>1 DEF Outlives
        <3> QED
            BY <3>1, <3>2, <3>3
    <2> QED
        BY <2>1, <2>2
<1>8. RefreshKnows'
    BY <1>1, <1>7 DEF RefreshKnows
<1>9. EndedStaysEnded'
    BY <1>1 DEF Ended, EndedStaysEnded, Live
<1> QED
    BY <1>1, <1>2, <1>4, <1>8, <1>9 DEF Ended

\* The commit: the new session inherits the excuses of the old one, and escapes
\* the ends that were open when the refresh began and those since.
LEMMA RefreshCommitEnds ==
    ASSUME Handlers, Ended, NEW r \in Req, RefreshCommit(r)
    PROVE  Ended'
<1> DEFINE o == req[r].on
           missed == req[r].open \cup ((req[r].asof + 1) .. Len(ends))
           old == [sessions EXCEPT ![o] = [sessions[o] EXCEPT !.live = FALSE]]
           x == NewSession(sessions[o].asof, sessions[o].escaped \cup missed, sessions[o].line \cup {o})
<1>1. /\ req[r].stage = "refresh" /\ Done(r) /\ ends' = ends
      /\ sessions' = Append([sessions EXCEPT ![o].live = FALSE], x)
    BY DEF RefreshCommit, account
<1>2. /\ sessions \in Seq(Session) /\ DOMAIN sessions = 1 .. Len(sessions)
      /\ DOMAIN ends = 1 .. Len(ends) /\ Len(ends) \in Nat
      /\ \A s \in DOMAIN sessions :
           /\ sessions[s] \in Session /\ sessions[s].asof \in Nat
           /\ sessions[s].escaped \in SUBSET Nat /\ sessions[s].line \in SUBSET Nat
    BY EndedFields
<1>3. req[r].asof \in Nat /\ req[r].open \in SUBSET Nat /\ o \in Nat
    BY HandlingFields
<1>4. /\ o \in DOMAIN sessions /\ req[r].asof <= Len(ends)
      /\ \A v \in (sessions[o].asof + 1) .. req[r].asof : Outlives(o, v) \/ v \in req[r].open
    BY <1>1 DEF Ended, RefreshKnows
<1>5. missed \in SUBSET Nat
    BY <1>2, <1>3
<1> HIDE DEF missed
<1>6. /\ x \in Session /\ x.asof = sessions[o].asof /\ x.escaped = sessions[o].escaped \cup missed
      /\ x.line = sessions[o].line \cup {o}
    BY <1>2, <1>3, <1>4, <1>5 DEF NewSession, Session
<1>7. /\ [sessions[o] EXCEPT !.live = FALSE] \in Session
      /\ [sessions[o] EXCEPT !.live = FALSE].asof = sessions[o].asof
      /\ [sessions[o] EXCEPT !.live = FALSE].escaped = sessions[o].escaped
      /\ [sessions[o] EXCEPT !.live = FALSE].line = sessions[o].line
      /\ [sessions[o] EXCEPT !.live = FALSE].live = FALSE
    BY <1>2, <1>4 DEF Session
<1>8. /\ old \in Seq(Session) /\ DOMAIN old = DOMAIN sessions /\ Len(old) = Len(sessions)
      /\ \A s \in DOMAIN sessions :
           /\ old[s].asof = sessions[s].asof /\ old[s].escaped = sessions[s].escaped
           /\ old[s].line = sessions[s].line /\ (old[s].live => sessions[s].live)
    BY <1>2, <1>4, <1>7, SeqSet
<1>9. sessions' = Append(old, x)
    BY <1>1
<1> HIDE DEF old, x
<1>10. \A q \in Req : req'[q].stage = "refresh" => req'[q] = req[q]
    BY <1>1, DoneFields DEF Moves
<1>11. ASSUME NEW v \in (x.asof + 1) .. Len(ends)
       PROVE  v \in x.escaped \/ x.line \cap ends[v].keep # {} \/ ends[v].st # "done"
    <2>1. CASE v > req[r].asof
        BY <1>2, <1>3, <1>6, <2>1 DEF missed
    <2>2. CASE v <= req[r].asof
        <3>1. v \in (sessions[o].asof + 1) .. req[r].asof
            BY <1>2, <1>3, <1>4, <1>6, <2>2
        <3>2. CASE Outlives(o, v)
            BY <1>6, <3>2 DEF Outlives
        <3>3. CASE v \in req[r].open
            BY <1>6, <3>3 DEF missed
        <3> QED
            BY <1>4, <3>1, <3>2, <3>3
    <2> QED
        BY <1>2, <1>3, <1>6, <1>4, <2>1, <2>2
<1> QED
    BY <1>1, <1>6, <1>8, <1>9, <1>10, <1>11, AddSession

\* A step that only ends sessions.
LEMMA FewerLive ==
    ASSUME Handlers, Ended, sessions' \in Seq(Session), DOMAIN sessions' = DOMAIN sessions,
           \A s \in DOMAIN sessions :
             /\ sessions'[s].asof = sessions[s].asof /\ sessions'[s].escaped = sessions[s].escaped
             /\ sessions'[s].line = sessions[s].line /\ (sessions'[s].live => sessions[s].live),
           ends' \in Seq(End), Len(ends') >= Len(ends), Len(ends') \in Nat,
           \A v \in DOMAIN ends : /\ ends'[v].keep = ends[v].keep
                                  /\ \/ ends[v].st # "done" => ends'[v].st # "done"
                                     \/ \A s \in Live' : s \in ends[v].keep,
           \A v \in (Len(ends) + 1) .. Len(ends') : \/ ends'[v].st # "done"
                                                    \/ \A s \in Live' : s \in ends'[v].keep,
           \A q \in Req : req'[q].stage = "refresh" => req'[q] = req[q]
    PROVE  Ended'
<1>0. /\ DOMAIN ends = 1 .. Len(ends) /\ Len(ends) \in Nat
      /\ \A s \in DOMAIN sessions : sessions[s].asof \in Nat
    BY EndedFields
<1>1. Grows
    BY <1>0 DEF Grows
<1>2. RefreshKnows'
    BY <1>1, KnowsStays
<1>3. ASSUME NEW s \in Live', NEW v \in (sessions'[s].asof + 1) .. Len(ends')
      PROVE  \/ v \in sessions'[s].escaped
             \/ ({s} \cup sessions'[s].line) \cap ends'[v].keep # {}
             \/ ends'[v].st # "done"
    <2>1. s \in Live /\ s \in DOMAIN sessions
        BY DEF Live
    <2>2. CASE v <= Len(ends)
        <3>1. v \in DOMAIN ends /\ v \in (sessions[s].asof + 1) .. Len(ends)
            BY <1>0, <2>1, <2>2
        <3>2. \/ v \in sessions[s].escaped
              \/ ({s} \cup sessions[s].line) \cap ends[v].keep # {}
              \/ ends[v].st # "done"
            BY <2>1, <3>1 DEF Ended, EndedStaysEnded
        <3>3. ends'[v].keep = ends[v].keep /\ (\/ ends[v].st # "done" => ends'[v].st # "done"
                                               \/ s \in ends[v].keep)
            BY <3>1
        <3> QED
            BY <2>1, <3>2, <3>3
    <2>3. CASE v > Len(ends)
        <3>1. v \in (Len(ends) + 1) .. Len(ends')
            BY <1>0, <2>1, <2>3
        <3> QED
            BY <3>1
    <2> QED
        BY <1>0, <2>1, <2>2, <2>3
<1>4. EndedStaysEnded'
    BY <1>3 DEF EndedStaysEnded
<1> QED
    BY <1>2, <1>4 DEF Ended

\* auth-logout: one session.
LEMMA EndSessionEnds ==
    ASSUME Handlers, Ended, NEW s \in DOMAIN sessions, EndSession(s)
    PROVE  Ended'
<1> DEFINE x == [sessions[s] EXCEPT !.live = FALSE]
<1>1. /\ sessions' = [sessions EXCEPT ![s].live = FALSE] /\ ends' = ends /\ req' = req
    BY DEF EndSession, account
<1>2. /\ sessions \in Seq(Session) /\ sessions[s] \in Session /\ ends \in Seq(End) /\ Len(ends) \in Nat
    BY EndedFields
<1>3. x \in Session /\ x.asof = sessions[s].asof /\ x.escaped = sessions[s].escaped /\ x.line = sessions[s].line /\ x.live = FALSE
    BY <1>2 DEF Session
<1>4. sessions' = [sessions EXCEPT ![s] = x]
    BY <1>1
<1> HIDE DEF x
<1>5. /\ sessions' \in Seq(Session) /\ DOMAIN sessions' = DOMAIN sessions /\ sessions'[s] = x
      /\ \A p \in DOMAIN sessions : p # s => sessions'[p] = sessions[p]
    BY <1>2, <1>3, <1>4, SeqSet
<1>6. \A p \in DOMAIN sessions :
             /\ sessions'[p].asof = sessions[p].asof /\ sessions'[p].escaped = sessions[p].escaped
             /\ sessions'[p].line = sessions[p].line /\ (sessions'[p].live => sessions[p].live)
    BY <1>3, <1>5
<1> QED
    BY <1>1, <1>2, <1>5, <1>6, FewerLive

\* What the UPDATE for the whole account leaves.
LEMMA RevokedFields ==
    ASSUME Ended, NEW keep, sessions' = Revoked(keep)
    PROVE  /\ sessions' \in Seq(Session) /\ DOMAIN sessions' = DOMAIN sessions
           /\ \A s \in DOMAIN sessions :
                /\ sessions'[s].asof = sessions[s].asof /\ sessions'[s].escaped = sessions[s].escaped
                /\ sessions'[s].line = sessions[s].line /\ (sessions'[s].live => sessions[s].live)
           /\ \A s \in Live' : s \in keep
<1>1. /\ DOMAIN sessions = 1 .. Len(sessions) /\ Len(sessions) \in Nat
      /\ \A s \in DOMAIN sessions : sessions[s] \in Session
    BY EndedFields
<1>2. ASSUME NEW s \in DOMAIN sessions
      PROVE  /\ sessions'[s] \in Session
             /\ sessions'[s].asof = sessions[s].asof /\ sessions'[s].escaped = sessions[s].escaped
             /\ sessions'[s].line = sessions[s].line
             /\ sessions'[s].live <=> sessions[s].live /\ s \in keep
    <2>1. sessions'[s] = [sessions[s] EXCEPT !.live = sessions[s].live /\ s \in keep]
        BY DEF Revoked
    <2>2. PICK b \in BOOLEAN : b <=> sessions[s].live /\ s \in keep
        OBVIOUS
    <2>3. sessions'[s] = [sessions[s] EXCEPT !.live = b]
        BY <2>1, <2>2
    <2>4. sessions'[s] \in Session /\ sessions'[s].live = b
        BY <1>1, <2>2, <2>3 DEF Session
    <2>5. /\ sessions'[s].asof = sessions[s].asof /\ sessions'[s].escaped = sessions[s].escaped
          /\ sessions'[s].line = sessions[s].line
        BY <1>1, <2>3 DEF Session
    <2> QED
        BY <2>2, <2>4, <2>5
<1>3. sessions' \in [1 .. Len(sessions) -> Session] /\ DOMAIN sessions' = DOMAIN sessions
    BY <1>1, <1>2 DEF Revoked
<1>4. sessions' \in Seq(Session)
    BY <1>1, <1>3, SeqMap
<1> QED
    BY <1>2, <1>3, <1>4 DEF Live

\* "Sign out everywhere else", and SAML single logout.
LEMMA SignOutEnds ==
    ASSUME Handlers, Ended, NEW keep, SignOut(keep)
    PROVE  Ended'
<1> DEFINE e == [st |-> "done", keep |-> keep]
<1>1. keep \subseteq Live /\ sessions' = Revoked(keep) /\ ends' = Append(ends, e) /\ req' = req
    BY DEF SignOut
<1>2. ends \in Seq(End) /\ Live \subseteq DOMAIN sessions /\ DOMAIN sessions = 1 .. Len(sessions) /\ Len(sessions) \in Nat
    BY EndedFields
<1>3. keep \in SUBSET Nat
    BY <1>1, <1>2
<1>4. e \in End /\ e.keep = keep
    BY <1>3 DEF End
<1> HIDE DEF e
<1>5. /\ ends' \in Seq(End) /\ Len(ends') = Len(ends) + 1 /\ Len(ends) \in Nat
      /\ ends'[Len(ends) + 1] = e /\ \A v \in DOMAIN ends : ends'[v] = ends[v]
    BY <1>1, <1>2, <1>4, SeqAdd
<1>6. /\ sessions' \in Seq(Session) /\ DOMAIN sessions' = DOMAIN sessions
      /\ \A s \in DOMAIN sessions :
           /\ sessions'[s].asof = sessions[s].asof /\ sessions'[s].escaped = sessions[s].escaped
           /\ sessions'[s].line = sessions[s].line /\ (sessions'[s].live => sessions[s].live)
      /\ \A s \in Live' : s \in keep
    BY <1>1, RevokedFields
<1>7. \A v \in (Len(ends) + 1) .. Len(ends') : \A s \in Live' : s \in ends'[v].keep
    BY <1>4, <1>5, <1>6
<1> QED
    BY <1>1, <1>5, <1>6, <1>7, FewerLive

\* An end that went one way or the other.
LEMMA EndSettled ==
    ASSUME Ended, NEW e \in Nat, NEW st \in {"pending", "done", "failed"},
           ends' = [ends EXCEPT ![e].st = st]
    PROVE  /\ ends' \in Seq(End) /\ Len(ends') = Len(ends) /\ Len(ends) \in Nat
           /\ \A v \in DOMAIN ends : /\ ends'[v].keep = ends[v].keep
                                     /\ v # e => ends'[v] = ends[v]
                                     /\ v = e => ends'[v].st = st
<1>1. ends \in Seq(End) /\ Len(ends) \in Nat /\ \A v \in DOMAIN ends : ends[v] \in End
    BY EndedFields
<1>2. CASE e \in DOMAIN ends
    <2> DEFINE x == [ends[e] EXCEPT !.st = st]
    <2>1. x \in End /\ x.keep = ends[e].keep /\ x.st = st
        BY <1>1, <1>2 DEF End
    <2>2. ends' = [ends EXCEPT ![e] = x]
        OBVIOUS
    <2> HIDE DEF x
    <2> QED
        BY <1>1, <1>2, <2>1, <2>2, SeqSet
<1>3. CASE e \notin DOMAIN ends
    <2>1. ends' = ends
        BY <1>1, <1>3
    <2> QED
        BY <1>1, <1>3, <2>1
<1> QED
    BY <1>2, <1>3

\* The end of the flows that end sessions.
LEMMA AfterRevokeFields ==
    ASSUME Handlers, NEW r \in Req, AfterRevoke(r)
    PROVE  /\ Handlers' /\ Moves(r)
           /\ \/ req'[r].stage = "idle"
              \/ req'[r].stage = "session" /\ req'[r].flow = "reset"
<1>0. req \in [Req -> Handling] /\ req[r] \in Handling /\ req[r].end \in Nat
    BY HandlingFields DEF Handlers
<1>1. CASE req[r].flow = "reset"
    <2> DEFINE x == [req[r] EXCEPT !.stage = "session", !.asof = req[r].end]
    <2>1. req' = [req EXCEPT ![r] = x]
        BY <1>0, <1>1 DEF AfterRevoke
    <2>2. x \in Handling /\ x.stage = "session" /\ x.flow = "reset"
        BY <1>0, <1>1 DEF Handling, Stage
    <2> HIDE DEF x
    <2> QED
        BY <2>1, <2>2, ReqSet
<1>2. CASE req[r].flow # "reset"
    BY <1>2, DoneFields DEF AfterRevoke
<1> QED
    BY <1>1, <1>2

\* revokeAllSessionsFor, RevokeOthers, and their failure.
LEMMA RevokeSessionsEnds ==
    ASSUME Handlers, Ended, NEW r \in Req, RevokeSessions(r)
    PROVE  Ended'
<1>0. \A q \in Req : req'[q].stage = "refresh" => req'[q] = req[q]
    BY AfterRevokeFields DEF RevokeSessions, Moves
<1>1. PICK e \in Nat : e = req[r].end
    BY HandlingFields
<1>2. CASE sessions' = Revoked(ends[e].keep) /\ ends' = [ends EXCEPT ![e].st = "done"]
    <2>1. /\ ends' \in Seq(End) /\ Len(ends') = Len(ends) /\ Len(ends) \in Nat
          /\ \A v \in DOMAIN ends : ends'[v].keep = ends[v].keep /\ (v # e => ends'[v] = ends[v])
        BY <1>2, EndSettled
    <2>2. /\ sessions' \in Seq(Session) /\ DOMAIN sessions' = DOMAIN sessions
          /\ \A s \in DOMAIN sessions :
               /\ sessions'[s].asof = sessions[s].asof /\ sessions'[s].escaped = sessions[s].escaped
               /\ sessions'[s].line = sessions[s].line /\ (sessions'[s].live => sessions[s].live)
          /\ \A s \in Live' : s \in ends[e].keep
        BY <1>2, RevokedFields
    <2>3. \A v \in DOMAIN ends : \/ ends[v].st # "done" => ends'[v].st # "done"
                                 \/ \A s \in Live' : s \in ends[v].keep
        BY <2>1, <2>2
    <2> QED
        BY <1>0, <2>1, <2>2, <2>3, FewerLive
<1>3. CASE sessions' = sessions /\ ends' = [ends EXCEPT ![e].st = "failed"]
    <2>1. /\ ends' \in Seq(End) /\ Len(ends') = Len(ends) /\ Len(ends) \in Nat
          /\ \A v \in DOMAIN ends : ends'[v].keep = ends[v].keep /\ (v # e => ends'[v] = ends[v])
                                    /\ (v = e => ends'[v].st = "failed")
        BY <1>3, EndSettled
    <2>2. sessions \in Seq(Session)
        BY EndedFields
    <2> QED
        BY <1>0, <1>3, <2>1, <2>2, FewerLive
<1> QED
    BY <1>1, <1>2, <1>3 DEF RevokeSessions

\* A request cut short; when it was to end sessions, that end has failed.
LEMMA AbortEnds ==
    ASSUME Handlers, Ended, NEW r \in Req, Abort(r)
    PROVE  Ended'
<1>0. \A q \in Req : req'[q].stage = "refresh" => req'[q] = req[q]
    BY DoneFields DEF Abort, Moves
<1>1. PICK e \in Nat : e = req[r].end
    BY HandlingFields
<1>2. sessions' = sessions /\ sessions \in Seq(Session) /\ ends \in Seq(End) /\ Len(ends) \in Nat
    BY EndedFields DEF Abort
<1>3. CASE ends' = ends
    BY <1>0, <1>2, <1>3, FewerLive
<1>4. CASE ends' = [ends EXCEPT ![e].st = "failed"]
    <2>1. /\ ends' \in Seq(End) /\ Len(ends') = Len(ends)
          /\ \A v \in DOMAIN ends : ends'[v].keep = ends[v].keep /\ (v # e => ends'[v] = ends[v])
                                    /\ (v = e => ends'[v].st = "failed")
        BY <1>4, EndSettled
    <2> QED
        BY <1>0, <1>2, <2>1, FewerLive
<1> QED
    BY <1>1, <1>3, <1>4 DEF Abort

\* The UPDATE of the row begins an end.
LEMMA UpdateRowEnds ==
    ASSUME Handlers, Ended, NEW r \in Req, UpdateRow(r)
    PROVE  Ended' /\ Handlers' /\ Moves(r) /\ req'[r].stage = "revoke"
<1> DEFINE e == [st |-> "pending", keep |-> IF req[r].flow = "change" THEN {req[r].on} ELSE {}]
           x == [req[r] EXCEPT !.stage = "revoke", !.end = Len(ends) + 1]
<1>1. /\ ends' = Append(ends, e) /\ sessions' = sessions
      /\ req' = [req EXCEPT ![r].stage = "revoke", ![r].end = Len(ends) + 1]
    BY DEF UpdateRow
<1>2. sessions \in Seq(Session) /\ ends \in Seq(End) /\ Len(ends) \in Nat
    BY EndedFields
<1>3. req \in [Req -> Handling] /\ req[r] \in Handling /\ req[r].on \in Nat
    BY HandlingFields DEF Handlers
<1>4. e \in End /\ e.st # "done"
    <2>1. (IF req[r].flow = "change" THEN {req[r].on} ELSE {}) \in SUBSET Nat
        BY <1>3
    <2> QED
        BY <2>1 DEF End
<1>5. req' = [req EXCEPT ![r] = x]
    BY <1>1, <1>3
<1>6. x \in Handling /\ x.stage = "revoke"
    <2>1. PICK n \in Nat : n = Len(ends) + 1
        BY <1>2
    <2>2. x = [req[r] EXCEPT !.stage = "revoke", !.end = n] /\ "revoke" \in Stage
        BY <2>1 DEF Stage
    <2> QED
        BY <1>3, <2>2 DEF Handling
<1> HIDE DEF e, x
<1>7. Handlers' /\ req'[r].stage = "revoke" /\ Moves(r)
    BY <1>5, <1>6, ReqSet DEF Lone
<1>8. /\ ends' \in Seq(End) /\ Len(ends') = Len(ends) + 1
      /\ ends'[Len(ends) + 1] = e /\ \A v \in DOMAIN ends : ends'[v] = ends[v]
    BY <1>1, <1>2, <1>4, SeqAdd
<1>9. \A q \in Req : req'[q].stage = "refresh" => req'[q] = req[q]
    BY <1>7 DEF Moves
<1>10. \A v \in (Len(ends) + 1) .. Len(ends') : ends'[v].st # "done"
    BY <1>2, <1>4, <1>8
<1>11. Ended'
    <2>1. Len(ends') \in Nat /\ Len(ends') >= Len(ends)
        BY <1>2, <1>8
    <2>2. \A v \in DOMAIN ends : ends'[v].keep = ends[v].keep /\ (ends[v].st # "done" => ends'[v].st # "done")
        BY <1>8
    <2> QED
        BY <1>1, <1>2, <1>8, <1>9, <1>10, <2>1, <2>2, FewerLive
<1> QED
    BY <1>7, <1>11

-----------------------------------------------------------------------------
(* Addresses and tokens *)

\* The row changes: it keeps its address, or it is new, or its address is proven.
LEMMA ProvenRow ==
    ASSUME Proven, tokens' = tokens, row' \in Account, proven \subseteq proven',
           row'.verified => row'.email \in proven',
           \/ row'.email = row.email
           \/ row'.email # NoEmail /\ row'.email \in proven'
           \/ ~Exists,
           \A q \in Req : req'[q].stage \in {"verified", "email"} => req'[q] = req[q]
    PROVE  Proven'
<1>1. TokensFit'
    BY DEF Proven, TokensFit, Exists
<1>2. FlowsFit'
    BY DEF Proven, FlowsFit, Exists
<1>3. VerifiedIsProven'
    BY DEF VerifiedIsProven
<1> QED
    BY <1>1, <1>2, <1>3 DEF Proven

\* Tokens are issued or redeemed: a verification token is mailed to the row's
\* address, a change of address to the new one.
LEMMA ProvenTokens ==
    ASSUME Proven, row' = row, proven \subseteq proven', DOMAIN tokens \subseteq DOMAIN tokens',
           \A t \in DOMAIN tokens : /\ tokens'[t].purpose = tokens[t].purpose
                                    /\ tokens'[t].to = tokens[t].to /\ tokens'[t].new = tokens[t].new,
           \A t \in DOMAIN tokens' \ DOMAIN tokens :
             /\ tokens'[t].purpose = "verify" => Exists /\ tokens'[t].to = row.email
             /\ tokens'[t].purpose = "email" => tokens'[t].new \in Email /\ tokens'[t].to = tokens'[t].new,
           \A q \in Req : req'[q].stage = "verified" =>
             req'[q] = req[q] \/ (Exists /\ row.email \in proven'),
           \A q \in Req : req'[q].stage = "email" =>
             \/ req'[q] = req[q]
             \/ req'[q].on \in DOMAIN tokens /\ tokens[req'[q].on].new \in Email \cap proven'
    PROVE  Proven'
<1>1. TokensFit'
    <2>1. ASSUME NEW t \in DOMAIN tokens'
          PROVE  /\ tokens'[t].purpose = "verify" => Exists /\ (tokens'[t].to = row.email \/ row.email \in proven')
                 /\ tokens'[t].purpose = "email" => tokens'[t].new \in Email /\ tokens'[t].to = tokens'[t].new
        BY DEF Proven, TokensFit
    <2> QED
        BY <2>1 DEF TokensFit, Exists
<1>2. FlowsFit'
    <2>1. ASSUME NEW q \in Req, req'[q].stage = "verified" PROVE Exists /\ row.email \in proven'
        BY <2>1 DEF Proven, FlowsFit
    <2>2. ASSUME NEW q \in Req, req'[q].stage = "email"
          PROVE  req'[q].on \in DOMAIN tokens' /\ tokens'[req'[q].on].new \in Email \cap proven'
        BY <2>2 DEF Proven, FlowsFit
    <2> QED
        BY <2>1, <2>2 DEF FlowsFit, Exists
<1>3. VerifiedIsProven' /\ row' \in Account
    BY DEF Proven, VerifiedIsProven
<1> QED
    BY <1>1, <1>2, <1>3 DEF Proven

\* The row's columns.
LEMMA AccountFields ==
    ASSUME Proven
    PROVE  /\ row \in Account /\ row.email \in Email \cup {NoEmail} /\ row.pw \in Nat
           /\ row.verified \in BOOLEAN /\ row.link \in BOOLEAN /\ row.passkey \in BOOLEAN
<1>1. row \in Account
    BY DEF Proven
<1> QED
    BY <1>1 DEF Account

\* A row made by a sign-up or for an identity.
LEMMA NewRowFields ==
    ASSUME NEW e \in Email, NEW v \in BOOLEAN
    PROVE  NewRow(e, v) \in Account /\ NewRow(e, v).email = e /\ NewRow(e, v).verified = v
BY DEF NewRow, Account

\* An issued token.
LEMMA IssuedFields ==
    ASSUME Redeemed, NEW p \in {"verify", "otp", "reset", "email"},
           NEW to \in Email \cup {NoEmail}, NEW new \in Email \cup {NoEmail},
           tokens' = Append(tokens, Token(p, to, new)),
           \A q \in Req : req'[q].stage = "code" => req'[q] = req[q]
    PROVE  /\ Redeemed'
           /\ DOMAIN tokens \subseteq DOMAIN tokens' /\ \A t \in DOMAIN tokens : tokens'[t] = tokens[t]
           /\ \A t \in DOMAIN tokens' \ DOMAIN tokens :
                tokens'[t].purpose = p /\ tokens'[t].to = to /\ tokens'[t].new = new
<1> DEFINE x == Token(p, to, new)
           n == Len(tokens) + 1
<1>1. /\ x \in TokenRow /\ x.purpose = p /\ x.to = to /\ x.new = new /\ x.redeemed = 0
      /\ x.used = FALSE
    BY DEF Token, TokenRow
<1> HIDE DEF x
<1>2. tokens \in Seq(TokenRow) /\ tokens' = Append(tokens, x)
    BY DEF Redeemed, x
<1>3. /\ tokens' \in Seq(TokenRow) /\ DOMAIN tokens' = DOMAIN tokens \cup {n}
      /\ tokens'[n] = x /\ \A t \in DOMAIN tokens : tokens'[t] = tokens[t]
    BY <1>1, <1>2, SeqAdd
<1>4. n \notin DOMAIN tokens
    BY <1>2, SeqAdd, <1>1
<1> HIDE DEF n
<1>5. \A s : Coding(s)' \in SUBSET Coding(s) /\ Coding(s) \in SUBSET Req /\ Coding(s)' \in SUBSET Req
    BY DEF Coding
<1>6. \A s : /\ Cardinality(Coding(s)) \in Nat /\ Cardinality(Coding(s)') \in Nat
             /\ Cardinality(Coding(s)') <= Cardinality(Coding(s))
             /\ Cardinality(Coding(s)') <= Cardinality(Req)
    BY <1>5, CountFew
<1>7. \A r \in Req : req'[r].stage = "code" => req'[r].on \in DOMAIN tokens' /\ tokens'[req'[r].on].purpose = "otp"
    BY <1>3 DEF Redeemed
<1>8. ASSUME NEW s \in DOMAIN tokens'
      PROVE  /\ ~tokens'[s].used => tokens'[s].redeemed = 0
             /\ tokens'[s].purpose # "otp" => tokens'[s].redeemed <= 1
             /\ tokens'[s].purpose = "otp" => tokens'[s].redeemed + Cardinality(Coding(s)') <= Cardinality(Req)
    <2>1. CASE s = n
        BY <1>1, <1>3, <1>6, <2>1, SomeRequest
    <2>2. CASE s # n
        <3>1. s \in DOMAIN tokens /\ tokens'[s] = tokens[s] /\ tokens[s].redeemed \in Nat
            BY <1>3, <2>2, TokenFields
        <3> QED
            BY <1>6, <3>1, SomeRequest DEF Redeemed
    <2> QED
        BY <2>1, <2>2
<1>9. Redeemed'
    BY <1>3, <1>7, <1>8 DEF Redeemed
<1> QED
    BY <1>1, <1>3, <1>4, <1>9

\* A token is marked and redeemed once more.
LEMMA RedeemOne ==
    ASSUME Redeemed, NEW t \in DOMAIN tokens,
           tokens' = [tokens EXCEPT ![t].used = TRUE, ![t].redeemed = @ + 1],
           \A q \in Req : req'[q].stage = "code" => req'[q] = req[q],
           tokens[t].purpose # "otp" => tokens[t].redeemed = 0,
           tokens[t].purpose = "otp" => tokens[t].redeemed + 1 + Cardinality(Coding(t)') <= Cardinality(Req)
    PROVE  /\ Redeemed' /\ DOMAIN tokens' = DOMAIN tokens
           /\ \A s \in DOMAIN tokens : /\ tokens'[s].purpose = tokens[s].purpose
                                       /\ tokens'[s].to = tokens[s].to /\ tokens'[s].new = tokens[s].new
<1>0. /\ tokens \in Seq(TokenRow) /\ \A s \in DOMAIN tokens : tokens[s] \in TokenRow /\ tokens[s].redeemed \in Nat
    BY TokenFields DEF Redeemed
<1>1. PICK n \in Nat : n = tokens[t].redeemed + 1
    BY <1>0
<1> DEFINE x == [tokens[t] EXCEPT !.used = TRUE, !.redeemed = n]
<1>2. tokens' = [tokens EXCEPT ![t] = x]
    BY <1>0, <1>1
<1>3. /\ x \in TokenRow /\ x.purpose = tokens[t].purpose /\ x.to = tokens[t].to /\ x.new = tokens[t].new
      /\ x.used = TRUE /\ x.redeemed = n
    BY <1>0, <1>1 DEF TokenRow
<1> HIDE DEF x
<1>4. /\ tokens' \in Seq(TokenRow) /\ DOMAIN tokens' = DOMAIN tokens /\ tokens'[t] = x
      /\ \A s \in DOMAIN tokens : s # t => tokens'[s] = tokens[s]
    <2> DEFINE f == [tokens EXCEPT ![t] = x]
    <2>1. /\ f \in Seq(TokenRow) /\ DOMAIN f = DOMAIN tokens /\ f[t] = x
          /\ \A s \in DOMAIN tokens : s # t => f[s] = tokens[s]
        BY <1>0, <1>3, SeqSet
    <2>2. tokens' = f
        BY <1>2
    <2> HIDE DEF f
    <2> QED
        BY <2>1, <2>2
<1>5. \A s : Coding(s)' \in SUBSET Coding(s) /\ Coding(s) \in SUBSET Req
    BY DEF Coding
<1>6. \A s : /\ Cardinality(Coding(s)) \in Nat /\ Cardinality(Coding(s)') \in Nat
             /\ Cardinality(Coding(s)') <= Cardinality(Coding(s))
    BY <1>5, CountFew
<1>7. \A s \in DOMAIN tokens : /\ tokens'[s].purpose = tokens[s].purpose
                               /\ tokens'[s].to = tokens[s].to /\ tokens'[s].new = tokens[s].new
    BY <1>3, <1>4
<1>8. \A r \in Req : req'[r].stage = "code" => req'[r].on \in DOMAIN tokens' /\ tokens'[req'[r].on].purpose = "otp"
    BY <1>4, <1>7 DEF Redeemed
<1>9. ASSUME NEW s \in DOMAIN tokens
      PROVE  /\ ~tokens'[s].used => tokens'[s].redeemed = 0
             /\ tokens'[s].purpose # "otp" => tokens'[s].redeemed <= 1
             /\ tokens'[s].purpose = "otp" => tokens'[s].redeemed + Cardinality(Coding(s)') <= Cardinality(Req)
    <2>1. CASE s = t
        BY <1>1, <1>3, <1>4, <1>6, <2>1, SomeRequest
    <2>2. CASE s # t
        BY <1>0, <1>4, <1>6, <2>2, SomeRequest DEF Redeemed
    <2> QED
        BY <2>1, <2>2
<1>10. Redeemed'
    BY <1>4, <1>8, <1>9 DEF Redeemed
<1> QED
    BY <1>4, <1>7, <1>10

\* request-password-reset revokes tokens, which redeems none.
LEMMA RequestResetTokens ==
    ASSUME Redeemed, NEW r \in Req, RequestReset(r), 
           \A q \in Req : req'[q].stage = "code" => req'[q] = req[q]
    PROVE  /\ Redeemed' /\ DOMAIN tokens' = DOMAIN tokens
           /\ \A s \in DOMAIN tokens : /\ tokens'[s].purpose = tokens[s].purpose
                                       /\ tokens'[s].to = tokens[s].to /\ tokens'[s].new = tokens[s].new
<1>0. /\ tokens \in Seq(TokenRow)
      /\ \A s \in DOMAIN tokens : tokens[s] \in TokenRow /\ tokens[s].redeemed \in Nat
    BY TokenFields DEF Redeemed
<1>1. DOMAIN tokens = 1 .. Len(tokens) /\ Len(tokens) \in Nat
    BY <1>0, LenProperties
<1>2. tokens' = [t \in DOMAIN tokens |-> [tokens[t] EXCEPT !.used = @ \/ tokens[t].purpose = "reset"]]
    BY DEF RequestReset
<1>3. ASSUME NEW s \in DOMAIN tokens
      PROVE  /\ tokens'[s] \in TokenRow
             /\ tokens'[s].purpose = tokens[s].purpose /\ tokens'[s].to = tokens[s].to
             /\ tokens'[s].new = tokens[s].new /\ tokens'[s].redeemed = tokens[s].redeemed
             /\ tokens[s].used => tokens'[s].used
    <2>1. PICK b \in BOOLEAN : b <=> tokens[s].used \/ tokens[s].purpose = "reset"
        OBVIOUS
    <2>2. tokens'[s] = [tokens[s] EXCEPT !.used = b]
        <3>1. tokens[s].used \in BOOLEAN
            BY <1>0 DEF TokenRow
        <3> QED
            BY <1>2, <2>1, <3>1
    <2>3. tokens'[s] \in TokenRow /\ tokens'[s].used = b
        BY <1>0, <2>2 DEF TokenRow
    <2>4. /\ tokens'[s].purpose = tokens[s].purpose /\ tokens'[s].to = tokens[s].to
          /\ tokens'[s].new = tokens[s].new /\ tokens'[s].redeemed = tokens[s].redeemed
        BY <1>0, <2>2 DEF TokenRow
    <2> QED
        BY <2>1, <2>3, <2>4
<1>4. tokens' \in [1 .. Len(tokens) -> TokenRow] /\ DOMAIN tokens' = DOMAIN tokens
    BY <1>1, <1>2, <1>3
<1>5. tokens' \in Seq(TokenRow)
    BY <1>1, <1>4, SeqMap
<1>6. \A s : Coding(s)' \in SUBSET Coding(s) /\ Coding(s) \in SUBSET Req
    BY DEF Coding
<1>7. \A s : /\ Cardinality(Coding(s)) \in Nat /\ Cardinality(Coding(s)') \in Nat
             /\ Cardinality(Coding(s)') <= Cardinality(Coding(s))
    BY <1>6, CountFew
<1>8. \A q \in Req : req'[q].stage = "code" => req'[q].on \in DOMAIN tokens' /\ tokens'[req'[q].on].purpose = "otp"
    BY <1>3, <1>4 DEF Redeemed
<1>9. \A s \in DOMAIN tokens :
        /\ ~tokens'[s].used => tokens'[s].redeemed = 0
        /\ tokens'[s].purpose # "otp" => tokens'[s].redeemed <= 1
        /\ tokens'[s].purpose = "otp" => tokens'[s].redeemed + Cardinality(Coding(s)') <= Cardinality(Req)
    BY <1>0, <1>3, <1>7, SomeRequest DEF Redeemed
<1>10. Redeemed'
    BY <1>4, <1>5, <1>8, <1>9 DEF Redeemed
<1> QED
    BY <1>3, <1>4, <1>10

\* Consume: one request of all marks an unused token.
LEMMA ConsumeTokens ==
    ASSUME Handlers, Redeemed, Proven, ends \in Seq(End), NEW r \in Req, NEW t \in DOMAIN tokens, Consume(r, t)
    PROVE  /\ Redeemed' /\ Proven' /\ Handlers' /\ Moves(r)
           /\ req'[r].stage \in {"password", "verified", "email", "session"} /\ req'[r].flow # "totp"
<1>0. /\ tokens[t].purpose \in {"verify", "otp", "reset", "email"} /\ t \in Nat
      /\ tokens[t].redeemed \in Nat
    BY TokenFields
<1>1. /\ ~tokens[t].used /\ req[r] = Idle
      /\ tokens' = [tokens EXCEPT ![t].used = TRUE, ![t].redeemed = @ + 1]
      /\ proven' = proven \cup {tokens[t].to} /\ row' = row
      /\ req' = [req EXCEPT ![r] = Begun(After[tokens[t].purpose], tokens[t].purpose, t, 0)]
    BY DEF Consume, Call
<1>2. PICK p : p = tokens[t].purpose
    OBVIOUS
<1>3. PICK g : g = After[p]
    OBVIOUS
<1>4. /\ p \in Flow /\ p # "totp"
      /\ g \in Stage /\ g \in {"password", "verified", "email", "session"}
      /\ g = "verified" => p = "verify"
      /\ g = "email" => p = "email"
    BY <1>0, <1>2, <1>3 DEF After, Op, Stage, Flow
<1>5. req' = [req EXCEPT ![r] = Begun(g, p, t, 0)]
    BY <1>1, <1>2, <1>3
<1>6. Handlers' /\ Moves(r) /\ req'[r].stage = g /\ req'[r].flow = p /\ req'[r].on = t
    <2>1. g \in Lone => p # "totp"
        BY <1>4
    <2>2. t \in Nat /\ 0 \in Nat
        BY <1>0
    <2> QED
        BY <1>4, <1>5, <2>1, <2>2, CallFields
<1>7. tokens[t].redeemed = 0
    BY <1>1 DEF Redeemed
<1>8. \A q \in Req : req'[q].stage = "code" => req'[q] = req[q]
    BY <1>4, <1>6 DEF Moves
<1>9. Coding(t)' \in SUBSET (Req \ {r})
    BY <1>4, <1>6 DEF Coding
<1>10. tokens[t].redeemed + 1 + Cardinality(Coding(t)') <= Cardinality(Req)
    <2>1. PICK B \in SUBSET (Req \ {r}) : B = Coding(t)'
        BY <1>9
    <2>2. Cardinality(Req) \in Nat /\ Cardinality(B) \in Nat /\ Cardinality(B) + 1 <= Cardinality(Req)
        BY CountOneLess
    <2> QED
        BY <1>7, <2>1, <2>2
<1>11. /\ Redeemed' /\ DOMAIN tokens' = DOMAIN tokens
       /\ \A s \in DOMAIN tokens : /\ tokens'[s].purpose = tokens[s].purpose
                                   /\ tokens'[s].to = tokens[s].to /\ tokens'[s].new = tokens[s].new
    BY <1>1, <1>7, <1>8, <1>10, RedeemOne
<1>12. g = "verified" => Exists /\ row.email \in proven'
    BY <1>1, <1>2, <1>4 DEF Proven, TokensFit
<1>13. g = "email" => tokens[t].new \in Email \cap proven'
    BY <1>1, <1>2, <1>4 DEF Proven, TokensFit
<1>14. Proven'
    <2>1. \A q \in Req : req'[q].stage = "verified" => req'[q] = req[q] \/ (Exists /\ row.email \in proven')
        BY <1>6, <1>12 DEF Moves
    <2>2. \A q \in Req : req'[q].stage = "email" =>
             \/ req'[q] = req[q]
             \/ req'[q].on \in DOMAIN tokens /\ tokens[req'[q].on].new \in Email \cap proven'
        BY <1>6, <1>13 DEF Moves
    <2> QED
        BY <1>1, <1>11, <2>1, <2>2, ProvenTokens
<1> QED
    BY <1>4, <1>6, <1>11, <1>14

-----------------------------------------------------------------------------
(* Steps that send nobody to a table *)

\* Every request stays where it is, or ends, or goes on to a statement that no
\* part of the invariant follows.
Quiet ==
    \A q \in Req :
        \/ req'[q] = req[q]
        \/ /\ req'[q].stage \notin {"refresh", "verified", "email", "code", "mark", "solve", "verify", "bind"}
           /\ req'[q].stage = "session" => req'[q].flow # "totp"

\* Such a step keeps each part whose table it leaves alone.
LEMMA QuietStep ==
    ASSUME IInv, Quiet
    PROVE  /\ UNCHANGED <<sessions, ends>> => Ended'
           /\ UNCHANGED <<row, proven, tokens>> => Proven'
           /\ UNCHANGED tokens => Redeemed'
           /\ UNCHANGED challenges => Answered'
           /\ UNCHANGED <<enrollment, uses>> => Recovered'
           /\ UNCHANGED lock => Locking'
<1>1. /\ \A q \in Req : req'[q].stage = "refresh" => req'[q] = req[q]
      /\ \A q \in Req : req'[q].stage \in {"verified", "email"} => req'[q] = req[q]
      /\ \A q \in Req : req'[q].stage = "code" => req'[q] = req[q]
      /\ \A q \in Req : req'[q].stage = "mark" => req'[q] = req[q]
      /\ \A q \in Req : req'[q].stage \in {"verify", "bind"} => req'[q] = req[q]
    BY DEF Quiet
<1>2. \A q \in Req : Facing(q)' => req'[q] = req[q]
    BY DEF Quiet, Facing
<1>3. UNCHANGED <<sessions, ends>> => Ended'
    BY <1>1, EndedStays DEF EndedCalm, IInv
<1>4. UNCHANGED <<row, proven, tokens>> => Proven'
    BY <1>1, ProvenStays DEF ProvenCalm, IInv
<1>5. UNCHANGED tokens => Redeemed'
    BY <1>1, RedeemedStays DEF RedeemedCalm, IInv
<1>6. UNCHANGED challenges => Answered'
    BY <1>2, AnsweredStays DEF AnsweredCalm, IInv
<1>7. UNCHANGED <<enrollment, uses>> => Recovered'
    BY <1>1, RecoveredStays DEF RecoveredCalm, IInv
<1>8. UNCHANGED lock => Locking'
    BY <1>1, LockingStays DEF LockingCalm, IInv
<1> QED
    BY <1>3, <1>4, <1>5, <1>6, <1>7, <1>8

-----------------------------------------------------------------------------
(* Actions on sessions *)

\* Sessions that end by themselves or by hand, and all at once.
LEMMA EndSessionStep == ASSUME IInv, NEW s \in DOMAIN sessions, EndSession(s) PROVE IInv'
<1>1. Ended'
    BY EndSessionEnds DEF IInv
<1>2. Quiet /\ Handlers'
    BY DEF Quiet, EndSession, IInv, Handlers
<1> QED
    BY <1>1, <1>2, QuietStep DEF IInv, EndSession, account, factor

\* Sign-out everywhere.
LEMMA SignOutStep == ASSUME IInv, NEW keep \in SUBSET DOMAIN sessions, SignOut(keep) PROVE IInv'
<1>1. Ended'
    BY SignOutEnds DEF IInv
<1>2. Quiet /\ Handlers'
    BY DEF Quiet, SignOut, IInv, Handlers
<1> QED
    BY <1>1, <1>2, QuietStep DEF IInv, SignOut, account, factor

\* Refresh.
LEMMA RefreshBeginStep ==
    ASSUME IInv, NEW r \in Req, NEW s \in DOMAIN sessions, RefreshBegin(r, s) PROVE IInv'
<1>1. Ended'
    BY RefreshBeginEnds DEF IInv
<1>2. s \in Nat /\ ends \in Seq(End)
    BY EndedFields DEF IInv
<1>3. Handlers' /\ Moves(r) /\ req'[r].stage = "refresh"
    <2>1. req' = [req EXCEPT ![r] = Begun("refresh", "refresh", s, 0)]
        BY DEF RefreshBegin
    <2>2. "refresh" \in Stage /\ "refresh" \in Flow /\ "refresh" \notin Lone
        BY DEF Stage, Op, Flow, Lone
    <2> QED
        BY <1>2, <2>1, <2>2, CallFields DEF IInv
<1>4. Proven'
    BY <1>3, ProvenStays DEF ProvenCalm, IInv, Moves, RefreshBegin, account
<1>5. Redeemed'
    BY <1>3, RedeemedStays DEF RedeemedCalm, IInv, Moves, RefreshBegin
<1>6. Answered'
    BY <1>3, AnsweredStays DEF AnsweredCalm, IInv, Moves, Facing, RefreshBegin
<1>7. Recovered'
    BY <1>3, RecoveredStays DEF RecoveredCalm, IInv, Moves, RefreshBegin, factor
<1>8. Locking'
    BY <1>3, LockingStays DEF LockingCalm, IInv, Moves, RefreshBegin
<1> QED
    BY <1>1, <1>3, <1>4, <1>5, <1>6, <1>7, <1>8 DEF IInv

\* The commit of a refresh.
LEMMA RefreshCommitStep == ASSUME IInv, NEW r \in Req, RefreshCommit(r) PROVE IInv'
<1>1. Ended'
    BY RefreshCommitEnds DEF IInv
<1>2. Handlers' /\ Moves(r) /\ req'[r].stage = "idle"
    BY DoneFields DEF RefreshCommit, IInv
<1>3. Quiet
    BY <1>2 DEF Quiet, Moves
<1> QED
    BY <1>1, <1>2, <1>3, QuietStep DEF IInv, RefreshCommit, account, factor

\* The end that a change of password or address carries out.
LEMMA RevokeSessionsStep == ASSUME IInv, NEW r \in Req, RevokeSessions(r) PROVE IInv'
<1>1. Ended'
    BY RevokeSessionsEnds DEF IInv
<1>2. /\ Handlers' /\ Moves(r) /\ req'[r].stage \in {"idle", "session"}
      /\ req'[r].stage = "session" => req'[r].flow # "totp"
    BY AfterRevokeFields DEF RevokeSessions, IInv
<1>3. Quiet
    BY <1>2 DEF Quiet, Moves
<1> QED
    BY <1>1, <1>2, <1>3, QuietStep DEF IInv, RevokeSessions, factor

\* A request cut short.
LEMMA AbortStep == ASSUME IInv, NEW r \in Req, Abort(r) PROVE IInv'
<1>1. Ended'
    BY AbortEnds DEF IInv
<1>2. Handlers' /\ Moves(r) /\ req'[r].stage = "idle"
    BY DoneFields DEF Abort, IInv
<1>3. Quiet
    BY <1>2 DEF Quiet, Moves
<1> QED
    BY <1>1, <1>2, <1>3, QuietStep DEF IInv, Abort, factor

-----------------------------------------------------------------------------
(* Actions on the row and on tokens *)

\* Sign-up.
LEMMA SignupStep == ASSUME IInv, NEW r \in Req, NEW e \in Email, Signup(r, e) PROVE IInv'
<1>1. Handlers' /\ Moves(r) /\ req'[r].stage = "session" /\ req'[r].flow = "signup"
    <2>1. "session" \in Stage /\ "signup" \in Flow /\ "session" \notin Lone /\ ends \in Seq(End)
        BY DEF Stage, Op, Flow, Lone, IInv, Ended
    <2> QED
        BY <2>1, CallFields DEF IInv, Signup
<1>2. Quiet
    BY <1>1 DEF Quiet, Moves
<1>3. Proven'
    <2>1. row' \in Account /\ row'.email = e /\ row'.verified = FALSE /\ ~Exists
        BY NewRowFields DEF Signup
    <2>2. \A q \in Req : req'[q].stage \in {"verified", "email"} => req'[q] = req[q]
        BY <1>2 DEF Quiet
    <2> QED
        BY <2>1, <2>2, ProvenRow DEF IInv, Signup
<1> QED
    BY <1>1, <1>2, <1>3, QuietStep DEF IInv, Signup, factor

\* An identity provider's callback, with a link, a vouched address or a new row.
LEMMA OauthBeginStep ==
    ASSUME IInv, NEW r \in Req, NEW e \in Email, NEW v \in BOOLEAN, OauthBegin(r, e, v) PROVE IInv'
<1>0. /\ "session" \in Stage /\ "oauth" \in Flow /\ "session" \notin Lone /\ ends \in Seq(End)
      /\ "link" \in Stage
    BY DEF Stage, Op, Flow, Lone, IInv, Ended
<1>1. /\ Handlers' /\ Moves(r) /\ req'[r].stage \in {"session", "link"} /\ req'[r].flow # "totp"
    <2>1. CASE req' = [req EXCEPT ![r] = Begun("session", "oauth", 0, 0)]
        <3>1. Handlers' /\ Moves(r) /\ req'[r].stage = "session" /\ req'[r].flow = "oauth"
            BY <1>0, <2>1, CallFields DEF IInv
        <3> QED
            BY <3>1
    <2>2. CASE req' = [req EXCEPT ![r] = Begun("link", "oauth", 0, 0)]
        <3>1. Handlers' /\ Moves(r) /\ req'[r].stage = "link" /\ req'[r].flow = "oauth"
            <4>1. PICK s \in Stage, f \in Flow : s = "link" /\ f = "oauth" /\ (s \in Lone => f # "totp")
                BY <1>0
            <4>2. req' = [req EXCEPT ![r] = Begun(s, f, 0, 0)]
                BY <2>2, <4>1
            <4>3. Handlers' /\ Moves(r) /\ req'[r].stage = s /\ req'[r].flow = f
                <5>1. Handlers /\ ends \in Seq(End)
                    BY <1>0 DEF IInv
                <5> QED
                    BY <4>1, <4>2, <5>1, CallFields
            <4> QED
                BY <4>1, <4>3
        <3> QED
            BY <3>1
    <2> QED
        BY <2>1, <2>2 DEF OauthBegin
<1>2. Quiet
    BY <1>1 DEF Quiet, Moves
<1>3. Proven'
    <2>1. \A q \in Req : req'[q].stage \in {"verified", "email"} => req'[q] = req[q]
        BY <1>2 DEF Quiet
    <2>2. CASE UNCHANGED <<row, proven>>
        BY <1>2, <2>2, QuietStep DEF OauthBegin
    <2>3. CASE /\ ~Exists /\ row' = NewRow(e, v)
               /\ proven' = proven \cup (IF v THEN {e} ELSE {})
        <3>1. row' \in Account /\ row'.email = e /\ row'.verified = v
            BY <2>3, NewRowFields
        <3>2. v => e \in proven'
            BY <2>3
        <3>3. proven \subseteq proven'
            BY <2>3
        <3> QED
            BY <2>1, <2>3, <3>1, <3>2, <3>3, ProvenRow DEF IInv, OauthBegin
    <2> QED
        BY <2>2, <2>3 DEF OauthBegin
<1> QED
    BY <1>1, <1>2, <1>3, QuietStep DEF IInv, OauthBegin, factor

\* The external link.
LEMMA OauthLinkStep == ASSUME IInv, NEW r \in Req, OauthLink(r) PROVE IInv'
<1>1. Handlers' /\ Moves(r) /\ req'[r].stage = "session" /\ req'[r].flow # "totp"
    <2>1. "session" \in Stage /\ "session" \notin Lone /\ "link" \in Lone
        BY DEF Stage, Lone
    <2>2. req[r].flow # "totp"
        BY <2>1 DEF OauthLink, IInv, Handlers
    <2> QED
        BY <2>1, <2>2, GotoFields DEF IInv, OauthLink
<1>2. Quiet
    BY <1>1 DEF Quiet, Moves
<1>3. Proven'
    <2>1. row \in Account /\ row' = [row EXCEPT !.link = TRUE]
        BY AccountFields DEF IInv, OauthLink
    <2>2. row' \in Account /\ row'.email = row.email /\ row'.verified = row.verified
        BY <2>1 DEF Account
    <2>3. \A q \in Req : req'[q].stage \in {"verified", "email"} => req'[q] = req[q]
        BY <1>2 DEF Quiet
    <2>4. row'.verified => row'.email \in proven'
        BY <2>2 DEF OauthLink, IInv, Proven, VerifiedIsProven
    <2> QED
        BY <2>2, <2>3, <2>4, ProvenRow DEF IInv, OauthLink
<1> QED
    BY <1>1, <1>2, <1>3, QuietStep DEF IInv, OauthLink, factor

\* An identity that is validated finds the row, or makes it.
LEMMA ProvisionStep == ASSUME IInv, NEW r \in Req, NEW e \in Email, Provision(r, e) PROVE IInv'
<1>1. Handlers' /\ Moves(r) /\ req'[r].stage = "session" /\ req'[r].flow # "totp"
    <2>1. "session" \in Stage /\ "session" \notin Lone /\ "provision" \in Lone
        BY DEF Stage, Lone
    <2>2. req[r].flow # "totp"
        BY <2>1 DEF Provision, IInv, Handlers
    <2> QED
        BY <2>1, <2>2, GotoFields DEF IInv, Provision
<1>2. Quiet
    BY <1>1 DEF Quiet, Moves
<1>3. Proven'
    <2>1. CASE UNCHANGED <<row, proven>>
        BY <1>2, <2>1, QuietStep DEF Provision
    <2>2. CASE ~Exists /\ row' = NewRow(e, TRUE) /\ proven' = proven \cup {e}
        <3>1. row' \in Account /\ row'.email = e /\ e \in proven' /\ proven \subseteq proven'
            BY <2>2, NewRowFields
        <3>2. \A q \in Req : req'[q].stage \in {"verified", "email"} => req'[q] = req[q]
            BY <1>2 DEF Quiet
        <3> QED
            BY <2>2, <3>1, <3>2, ProvenRow DEF IInv, Provision
    <2> QED
        BY <2>1, <2>2 DEF Provision
<1> QED
    BY <1>1, <1>2, <1>3, QuietStep DEF IInv, Provision, factor

\* A passkey registered or deleted.
LEMMA SavePasskeyStep == ASSUME IInv, NEW s \in DOMAIN sessions, SavePasskey(s) PROVE IInv'
<1>1. Quiet /\ Handlers'
    BY DEF Quiet, SavePasskey, IInv, Handlers
<1>2. Proven'
    <2>1. PICK b \in BOOLEAN : b <=> ~row.passkey
        OBVIOUS
    <2>2. row \in Account /\ row.passkey \in BOOLEAN
        BY AccountFields DEF IInv
    <2>3. row' = [row EXCEPT !.passkey = b]
        BY <2>1, <2>2 DEF SavePasskey
    <2>4. row' \in Account /\ row'.email = row.email /\ row'.verified = row.verified
        BY <2>2, <2>3 DEF Account
    <2>5. row'.verified => row'.email \in proven'
        BY <2>4 DEF SavePasskey, IInv, Proven, VerifiedIsProven
    <2>6. \A q \in Req : req'[q].stage \in {"verified", "email"} => req'[q] = req[q]
        BY DEF SavePasskey
    <2> QED
        BY <2>4, <2>5, <2>6, ProvenRow DEF IInv, SavePasskey
<1> QED
    BY <1>1, <1>2, QuietStep DEF IInv, SavePasskey, factor

\* UPDATE ... SET verified = TRUE, of an address that is proven.
LEMMA MarkVerifiedStep == ASSUME IInv, NEW r \in Req, MarkVerified(r) PROVE IInv'
<1>1. Handlers' /\ Moves(r) /\ req'[r].stage = "session" /\ req'[r].flow # "totp"
    <2>1. "session" \in Stage /\ "session" \notin Lone /\ "verified" \in Lone
        BY DEF Stage, Lone
    <2>2. req[r].flow # "totp"
        BY <2>1 DEF MarkVerified, IInv, Handlers
    <2> QED
        BY <2>1, <2>2, GotoFields DEF IInv, MarkVerified
<1>2. Quiet
    BY <1>1 DEF Quiet, Moves
<1>3. Proven'
    <2>1. row \in Account /\ row' = [row EXCEPT !.verified = TRUE]
        BY AccountFields DEF IInv, MarkVerified
    <2>2. row' \in Account /\ row'.email = row.email
        BY <2>1 DEF Account
    <2>3. \A q \in Req : req'[q].stage \in {"verified", "email"} => req'[q] = req[q]
        BY <1>2 DEF Quiet
    <2>4. row'.email \in proven'
        BY <2>2 DEF MarkVerified, IInv, Proven, FlowsFit
    <2> QED
        BY <2>2, <2>3, <2>4, ProvenRow DEF IInv, MarkVerified
<1> QED
    BY <1>1, <1>2, <1>3, QuietStep DEF IInv, MarkVerified, factor

\* The UPDATE of a password, or of an address whose owner confirmed it.
LEMMA UpdateRowStep == ASSUME IInv, NEW r \in Req, UpdateRow(r) PROVE IInv'
<1>1. Ended' /\ Handlers' /\ Moves(r) /\ req'[r].stage = "revoke"
    BY UpdateRowEnds DEF IInv
<1>2. Quiet
    BY <1>1 DEF Quiet, Moves
<1>3. Proven'
    <2>0. row \in Account /\ row.pw \in Nat
        BY AccountFields DEF IInv
    <2>1. \A q \in Req : req'[q].stage \in {"verified", "email"} => req'[q] = req[q]
        BY <1>2 DEF Quiet
    <2>2. CASE req[r].stage = "email"
        <3>1. PICK n : n = tokens[req[r].on].new
            OBVIOUS
        <3>2. n \in Email \cap proven /\ n # NoEmail
            BY <2>2, <3>1 DEF IInv, Proven, FlowsFit
        <3>3. row' = [row EXCEPT !.email = n, !.verified = TRUE]
            BY <2>2, <3>1 DEF UpdateRow
        <3>4. row' \in Account /\ row'.email = n
            BY <2>0, <3>2, <3>3 DEF Account
        <3> QED
            BY <2>1, <3>2, <3>4, ProvenRow DEF IInv, UpdateRow
    <2>3. CASE req[r].stage # "email"
        <3>1. PICK n \in Nat : n = row.pw + 1
            BY <2>0
        <3>2. row' = [row EXCEPT !.pw = n]
            BY <2>0, <2>3, <3>1 DEF UpdateRow
        <3>3. row' \in Account /\ row'.email = row.email /\ row'.verified = row.verified
            BY <2>0, <3>2 DEF Account
        <3>4. row'.verified => row'.email \in proven'
            BY <3>3 DEF UpdateRow, IInv, Proven, VerifiedIsProven
        <3> QED
            BY <2>1, <3>3, <3>4, ProvenRow DEF IInv, UpdateRow
    <2> QED
        BY <2>2, <2>3
<1> QED
    BY <1>1, <1>2, <1>3, QuietStep DEF IInv, UpdateRow, factor

\* request-verification and request-otp.
LEMMA RequestTokenStep ==
    ASSUME IInv, NEW p \in {"verify", "otp"}, RequestToken(p) PROVE IInv'
<1>1. Quiet /\ Handlers'
    BY DEF Quiet, RequestToken, IInv, Handlers
<1>2. /\ tokens' = Append(tokens, Token(p, row.email, NoEmail))
      /\ row.email \in Email \cup {NoEmail} /\ Exists /\ req' = req /\ row' = row /\ proven' = proven
    BY AccountFields DEF RequestToken, IInv, account
<1>3. /\ Redeemed'
      /\ DOMAIN tokens \subseteq DOMAIN tokens' /\ \A t \in DOMAIN tokens : tokens'[t] = tokens[t]
      /\ \A t \in DOMAIN tokens' \ DOMAIN tokens :
           tokens'[t].purpose = p /\ tokens'[t].to = row.email /\ tokens'[t].new = NoEmail
    BY <1>2, IssuedFields DEF IInv
<1>4. Proven'
    BY <1>2, <1>3, ProvenTokens DEF IInv
<1> QED
    BY <1>1, <1>3, <1>4, QuietStep DEF IInv, RequestToken, account, factor

\* request-email-change.
LEMMA RequestEmailChangeStep ==
    ASSUME IInv, NEW s, NEW e \in Email, RequestEmailChange(s, e) PROVE IInv'
<1>1. Quiet /\ Handlers'
    BY DEF Quiet, RequestEmailChange, IInv, Handlers
<1>2. /\ tokens' = Append(tokens, Token("email", e, e))
      /\ req' = req /\ row' = row /\ proven' = proven
    BY DEF RequestEmailChange, account
<1>3. /\ Redeemed'
      /\ DOMAIN tokens \subseteq DOMAIN tokens' /\ \A t \in DOMAIN tokens : tokens'[t] = tokens[t]
      /\ \A t \in DOMAIN tokens' \ DOMAIN tokens :
           tokens'[t].purpose = "email" /\ tokens'[t].to = e /\ tokens'[t].new = e
    BY <1>2, IssuedFields DEF IInv
<1>4. Proven'
    BY <1>2, <1>3, ProvenTokens DEF IInv
<1> QED
    BY <1>1, <1>3, <1>4, QuietStep DEF IInv, RequestEmailChange, account, factor

\* request-password-reset: the outstanding tokens go.
LEMMA RequestResetStep == ASSUME IInv, NEW r \in Req, RequestReset(r) PROVE IInv'
<1>1. Handlers' /\ Moves(r) /\ req'[r].stage = "issue"
    <2>1. "issue" \in Stage /\ "reset" \in Flow /\ "issue" \notin Lone /\ ends \in Seq(End)
        BY DEF Stage, Op, Flow, Lone, IInv, Ended
    <2> QED
        BY <2>1, CallFields DEF IInv, RequestReset
<1>2. Quiet
    BY <1>1 DEF Quiet, Moves
<1>3. /\ Redeemed' /\ DOMAIN tokens' = DOMAIN tokens
      /\ \A s \in DOMAIN tokens : /\ tokens'[s].purpose = tokens[s].purpose
                                  /\ tokens'[s].to = tokens[s].to /\ tokens'[s].new = tokens[s].new
    <2>1. \A q \in Req : req'[q].stage = "code" => req'[q] = req[q]
        BY <1>2 DEF Quiet
    <2> QED
        BY <2>1, RequestResetTokens DEF IInv
<1>4. Proven'
    <2>1. \A q \in Req : req'[q].stage \in {"verified", "email"} => req'[q] = req[q]
        BY <1>2 DEF Quiet
    <2> QED
        BY <1>3, <2>1, ProvenTokens DEF IInv, RequestReset, account
<1> QED
    BY <1>1, <1>2, <1>3, <1>4, QuietStep DEF IInv, RequestReset, account, factor

\* The new reset token.
LEMMA IssueResetStep == ASSUME IInv, NEW r \in Req, IssueReset(r) PROVE IInv'
<1>1. Handlers' /\ Moves(r) /\ req'[r].stage = "idle"
    BY DoneFields DEF IssueReset, IInv
<1>2. Quiet
    BY <1>1 DEF Quiet, Moves
<1>3. \A q \in Req : req'[q].stage \in {"verified", "email", "code"} => req'[q] = req[q]
    BY <1>2 DEF Quiet
<1>4. /\ tokens' = Append(tokens, Token("reset", row.email, NoEmail))
      /\ row.email \in Email \cup {NoEmail} /\ row' = row /\ proven' = proven
    BY AccountFields DEF IssueReset, IInv, account
<1>5. /\ Redeemed'
      /\ DOMAIN tokens \subseteq DOMAIN tokens' /\ \A t \in DOMAIN tokens : tokens'[t] = tokens[t]
      /\ \A t \in DOMAIN tokens' \ DOMAIN tokens :
           tokens'[t].purpose = "reset" /\ tokens'[t].to = row.email /\ tokens'[t].new = NoEmail
    BY <1>3, <1>4, IssuedFields DEF IInv
<1>6. Proven'
    BY <1>3, <1>4, <1>5, ProvenTokens DEF IInv
<1> QED
    BY <1>1, <1>2, <1>5, <1>6, QuietStep DEF IInv, IssueReset, account, factor

\* A mailed token is redeemed.
LEMMA ConsumeStep ==
    ASSUME IInv, NEW r \in Req, NEW t \in DOMAIN tokens, Consume(r, t) PROVE IInv'
<1>1. /\ Redeemed' /\ Proven' /\ Handlers' /\ Moves(r)
      /\ req'[r].stage \in {"password", "verified", "email", "session"} /\ req'[r].flow # "totp"
    BY ConsumeTokens DEF IInv, Ended
<1>2. Ended'
    BY <1>1, EndedStays DEF EndedCalm, IInv, Moves, Consume
<1>3. Answered'
    BY <1>1, AnsweredStays DEF AnsweredCalm, IInv, Moves, Facing, Consume
<1>4. Recovered'
    BY <1>1, RecoveredStays DEF RecoveredCalm, IInv, Moves, Consume, factor
<1>5. Locking'
    BY <1>1, LockingStays DEF LockingCalm, IInv, Moves, Consume
<1> QED
    BY <1>1, <1>2, <1>3, <1>4, <1>5 DEF IInv

\* The request that has checked a code.
LEMMA OtpReadMoves ==
    ASSUME Handlers, ends \in Seq(End), NEW r \in Req, NEW m \in Nat,
           req' = [req EXCEPT ![r] = Begun("code", "otp", m, 0)]
    PROVE  Handlers' /\ Moves(r) /\ req'[r].stage = "code" /\ req'[r].on = m
<1>1. PICK g \in Stage, f \in Flow : g = "code" /\ f = "otp"
    BY DEF Stage, Op, Flow
<1>2. PICK x : x = Begun(g, f, m, 0)
    OBVIOUS
<1>3. x \in Handling /\ x.stage = g /\ x.flow = f /\ x.on = m
    BY <1>2, BegunFields
<1>4. req' = [req EXCEPT ![r] = x] /\ (x.stage \in Lone => x.flow # "totp")
    BY <1>1, <1>2, <1>3
<1>5. Handlers' /\ req'[r] = x /\ Moves(r)
    BY <1>3, <1>4, ReqSet
<1> QED
    BY <1>1, <1>3, <1>5

\* A typed code is checked against the latest unused token.
LEMMA OtpReadStep == ASSUME IInv, NEW r \in Req, OtpRead(r) PROVE IInv'
<1> DEFINE unused == {t \in DOMAIN tokens : tokens[t].purpose = "otp" /\ ~tokens[t].used}
<1>1. PICK m \in unused : m = Max(unused)
    <2>1. Len(tokens) \in Nat /\ DOMAIN tokens = 1 .. Len(tokens)
        BY LenProperties DEF IInv, Redeemed
    <2>2. unused \in SUBSET (1 .. Len(tokens)) /\ unused # {}
        BY <2>1 DEF OtpRead
    <2> QED
        BY <2>1, <2>2, MaxIsMember
<1>2. m \in DOMAIN tokens /\ m \in Nat /\ tokens[m].purpose = "otp" /\ tokens[m].redeemed = 0
    BY <1>1, TokenFields DEF IInv, Redeemed
<1>3. Handlers' /\ Moves(r) /\ req'[r].stage = "code" /\ req'[r].on = m
    <2>1. "code" \in Stage /\ "otp" \in Flow /\ "otp" # "totp" /\ ends \in Seq(End)
        BY DEF Stage, Op, Flow, IInv, Ended
    <2>2. req' = [req EXCEPT ![r] = Begun("code", "otp", m, 0)]
        BY <1>1 DEF OtpRead
    <2>3. Handlers /\ m \in Nat
        BY <1>2 DEF IInv
    <2> QED
        BY <2>1, <2>2, <2>3, OtpReadMoves
<1>4. Redeemed'
    <2>1. \A t : t # m => Coding(t)' \in SUBSET Coding(t)
        BY <1>3 DEF Coding, Moves
    <2>2. \A t : Coding(t)' \in SUBSET Req /\ Coding(t) \in SUBSET Req
        BY DEF Coding
    <2>3. \A t : Cardinality(Coding(t)') \in Nat /\ Cardinality(Coding(t)) \in Nat
        BY <2>2, CountFew
    <2>4. \A t : t # m => Cardinality(Coding(t)') <= Cardinality(Coding(t))
        BY <2>1, <2>2, CountFew
    <2>5. Cardinality(Coding(m)') <= Cardinality(Req)
        BY <2>2, CountFew
    <2>6. tokens' = tokens /\ tokens \in Seq(TokenRow) /\ \A t \in DOMAIN tokens : tokens[t].redeemed \in Nat
        BY TokenFields DEF OtpRead, IInv, Redeemed
    <2>7. \A t \in DOMAIN tokens : tokens[t].purpose = "otp" =>
            tokens[t].redeemed + Cardinality(Coding(t)') <= Cardinality(Req)
        <3>1. \A t \in DOMAIN tokens : tokens[t].purpose = "otp" =>
                tokens[t].redeemed + Cardinality(Coding(t)) <= Cardinality(Req)
            BY DEF IInv, Redeemed
        <3>2. ASSUME NEW t \in DOMAIN tokens, tokens[t].purpose = "otp"
              PROVE  tokens[t].redeemed + Cardinality(Coding(t)') <= Cardinality(Req)
            <4>1. CASE t = m
                BY <1>2, <2>3, <2>5, <2>6, <4>1
            <4>2. CASE t # m
                BY <2>3, <2>4, <2>6, <3>1, <3>2, <4>2, SomeRequest
            <4> QED
                BY <4>1, <4>2
        <3> QED
            BY <3>2
    <2>8. \A q \in Req : req'[q].stage = "code" => req'[q].on \in DOMAIN tokens /\ tokens[req'[q].on].purpose = "otp"
        BY <1>2, <1>3 DEF Moves, IInv, Redeemed
    <2> QED
        BY <2>6, <2>7, <2>8 DEF IInv, Redeemed
<1>5. Ended'
    BY <1>3, EndedStays DEF EndedCalm, IInv, Moves, OtpRead, account
<1>6. Proven'
    BY <1>3, ProvenStays DEF ProvenCalm, IInv, Moves, OtpRead, account
<1>7. Answered'
    BY <1>3, AnsweredStays DEF AnsweredCalm, IInv, Moves, Facing, OtpRead
<1>8. Recovered'
    BY <1>3, RecoveredStays DEF RecoveredCalm, IInv, Moves, OtpRead, factor
<1>9. Locking'
    BY <1>3, LockingStays DEF LockingCalm, IInv, Moves, OtpRead
<1> QED
    BY <1>3, <1>4, <1>5, <1>6, <1>7, <1>8, <1>9 DEF IInv

\* Then the token is marked, whether or not it already is: each of the requests
\* that checked it redeems it, and none after them.
LEMMA OtpMarkStep == ASSUME IInv, NEW r \in Req, OtpMark(r) PROVE IInv'
<1>1. Handlers' /\ Moves(r) /\ req'[r].stage = "session" /\ req'[r].flow # "totp"
    <2>1. "session" \in Stage /\ "session" \notin Lone /\ "code" \in Lone
        BY DEF Stage, Lone
    <2>2. req[r].flow # "totp"
        BY <2>1 DEF OtpMark, IInv, Handlers
    <2> QED
        BY <2>1, <2>2, GotoFields DEF IInv, OtpMark
<1>2. Quiet
    BY <1>1 DEF Quiet, Moves
<1>3. PICK t \in DOMAIN tokens : t = req[r].on /\ tokens[t].purpose = "otp"
    BY DEF OtpMark, IInv, Redeemed
<1>4. r \in Coding(t) /\ Coding(t) \in SUBSET Req /\ Coding(t)' \in SUBSET (Coding(t) \ {r})
    BY <1>1, <1>3 DEF Coding, Moves, OtpMark
<1>5. tokens[t].redeemed + 1 + Cardinality(Coding(t)') <= Cardinality(Req)
    <2>1. PICK A \in SUBSET Req : A = Coding(t)
        BY <1>4
    <2>2. PICK B \in SUBSET (A \ {r}) : B = Coding(t)'
        BY <1>4, <2>1
    <2>3. Cardinality(A) \in Nat /\ Cardinality(B) \in Nat /\ Cardinality(B) + 1 <= Cardinality(A)
        BY <1>4, <2>1, CountOneLess
    <2>4. tokens[t].redeemed \in Nat /\ tokens[t].redeemed + Cardinality(A) <= Cardinality(Req)
        BY <1>3, <2>1, TokenFields DEF IInv, Redeemed
    <2> QED
        BY <2>1, <2>2, <2>3, <2>4, SomeRequest
<1>6. \A q \in Req : req'[q].stage \in {"verified", "email", "code"} => req'[q] = req[q]
    BY <1>2 DEF Quiet
<1>7. tokens' = [tokens EXCEPT ![t].used = TRUE, ![t].redeemed = @ + 1]
    BY <1>3 DEF OtpMark
<1>8. /\ Redeemed' /\ DOMAIN tokens' = DOMAIN tokens
      /\ \A s \in DOMAIN tokens : /\ tokens'[s].purpose = tokens[s].purpose
                                  /\ tokens'[s].to = tokens[s].to /\ tokens'[s].new = tokens[s].new
    BY <1>3, <1>5, <1>6, <1>7, RedeemOne DEF IInv
<1>9. Proven'
    BY <1>6, <1>8, ProvenTokens DEF IInv, OtpMark, account
<1> QED
    BY <1>1, <1>2, <1>8, <1>9, QuietStep DEF IInv, OtpMark, account, factor

-----------------------------------------------------------------------------
(* Actions on challenges and recovery codes *)

\* The columns of a challenge.
LEMMA ChallengeFields ==
    ASSUME Answered, NEW c \in DOMAIN challenges
    PROVE  /\ challenges \in Seq(Challenge) /\ challenges[c] \in Challenge /\ c \in Nat
           /\ challenges[c].sessions \in Nat /\ challenges[c].asof \in Nat /\ OneSession(c)
           /\ DOMAIN challenges = 1 .. Len(challenges) /\ Len(challenges) \in Nat
<1>1. challenges \in Seq(Challenge) /\ OneSession(c)
    BY DEF Answered
<1>2. DOMAIN challenges = 1 .. Len(challenges) /\ Len(challenges) \in Nat
    BY <1>1, LenProperties
<1>3. challenges[c] \in Challenge
    BY <1>1, <1>2, ElementOfSeq
<1> QED
    BY <1>1, <1>2, <1>3 DEF Challenge

\* One challenge changes, and the requests about the others stay.
LEMMA AnswerOne ==
    ASSUME Answered, NEW c \in DOMAIN challenges, NEW x \in Challenge,
           challenges' = [challenges EXCEPT ![c] = x],
           x.sessions <= 1, ~x.done => x.sessions = 0,
           \A q \in Req : Facing(q)' => \/ req'[q] = req[q]
                                        \/ req'[q].on = c,
           \A q \in Req : Solved(q, c)' => x.done /\ x.sessions = 0,
           \A q, p \in Req : Solved(q, c)' /\ Solved(p, c)' => p = q
    PROVE  Answered'
<1>1. /\ challenges' \in Seq(Challenge) /\ DOMAIN challenges' = DOMAIN challenges
      /\ challenges'[c] = x /\ \A d \in DOMAIN challenges : d # c => challenges'[d] = challenges[d]
    BY ChallengeFields, SeqSet
<1>2. \A q \in Req : Facing(q)' => req'[q].on \in DOMAIN challenges'
    BY <1>1 DEF Answered, Facing
<1>3. ASSUME NEW d \in DOMAIN challenges PROVE OneSession(d)'
    <2>1. CASE d = c
        BY <1>1, <2>1 DEF OneSession
    <2>2. CASE d # c
        <3>1. \A q \in Req : Solved(q, d)' => Solved(q, d)
            BY <2>2 DEF Solved, Facing
        <3>2. OneSession(d)
            BY DEF Answered
        <3> QED
            BY <1>1, <2>2, <3>1, <3>2 DEF OneSession
    <2> QED
        BY <2>1, <2>2
<1> QED
    BY <1>1, <1>2, <1>3 DEF Answered

\* Sessions.Create, the last statement of every way to sign in.
LEMMA CreateSessionStep == ASSUME IInv, NEW r \in Req, CreateSession(r) PROVE IInv'
<1>1. Ended'
    BY CreateSessionEnds DEF IInv
<1>2. Handlers' /\ Moves(r) /\ req'[r].stage = "idle"
    BY DoneFields DEF CreateSession, IInv
<1>3. Quiet
    BY <1>2 DEF Quiet, Moves
<1>4. Answered'
    <2>1. CASE req[r].flow # "totp"
        BY <1>3, <2>1, QuietStep DEF CreateSession
    <2>2. CASE req[r].flow = "totp"
        <3>1. PICK c \in DOMAIN challenges : c = req[r].on
            BY <2>2 DEF CreateSession, IInv, Answered, Facing
        <3>2. Solved(r, c)
            BY <2>2, <3>1 DEF CreateSession, Solved
        <3>3. /\ challenges \in Seq(Challenge) /\ challenges[c] \in Challenge /\ OneSession(c)
              /\ challenges[c].sessions = 0 /\ challenges[c].done
            BY <3>2, ChallengeFields DEF IInv, OneSession
        <3> DEFINE x == [challenges[c] EXCEPT !.sessions = 1]
        <3>4. challenges' = [challenges EXCEPT ![c] = x]
            BY <2>2, <3>1, <3>3 DEF CreateSession
        <3>5. x \in Challenge /\ x.sessions = 1 /\ x.done = challenges[c].done
            BY <3>3 DEF Challenge
        <3> HIDE DEF x
        <3>6. \A q \in Req : Facing(q)' => req'[q] = req[q] /\ q # r
            BY <1>2 DEF Facing, Moves
        <3>7. \A q \in Req : ~Solved(q, c)'
            BY <3>2, <3>3, <3>6 DEF OneSession, Solved, Facing
        <3>8. x.sessions <= 1 /\ (~x.done => x.sessions = 0) /\ Answered
            BY <3>3, <3>5 DEF IInv
        <3>9. \A q \in Req : Facing(q)' => req'[q] = req[q] \/ req'[q].on = c
            BY <3>6
        <3> QED
            BY <3>4, <3>5, <3>7, <3>8, <3>9, AnswerOne
    <2> QED
        BY <2>1, <2>2
<1> QED
    BY <1>1, <1>2, <1>3, <1>4, QuietStep DEF IInv, CreateSession, account, factor

\* The MFA branch of a sign-in.
LEMMA SigninFactorStep == ASSUME IInv, NEW r \in Req, SigninFactor(r) PROVE IInv'
<1>0. /\ "session" \in Stage /\ "session" \notin Lone /\ "factor" \in Lone
    BY DEF Stage, Lone
<1>1. req[r].flow # "totp" /\ Handlers /\ req[r].asof \in Nat
    BY <1>0, HandlingFields DEF SigninFactor, IInv, Handlers
<1>2. /\ Handlers' /\ Moves(r) /\ req'[r].stage \in {"idle", "session"}
      /\ req'[r].stage = "session" => req'[r].flow # "totp"
    <2>1. CASE Done(r)
        BY <1>1, <2>1, DoneFields
    <2>2. CASE Goto(r, "session")
        BY <1>0, <1>1, <2>2, GotoFields
    <2> QED
        BY <2>1, <2>2 DEF SigninFactor
<1>3. Quiet
    BY <1>2 DEF Quiet, Moves
<1>4. Answered'
    <2>1. CASE UNCHANGED challenges
        BY <1>3, <2>1, QuietStep
    <2>2. CASE challenges' = Append(challenges, [asof |-> req[r].asof, done |-> FALSE, sessions |-> 0])
        <3> DEFINE x == [asof |-> req[r].asof, done |-> FALSE, sessions |-> 0]
        <3>0. PICK n \in Nat : n = Len(challenges) + 1
            BY LenProperties DEF IInv, Answered
        <3>1. x \in Challenge /\ x.done = FALSE /\ x.sessions = 0 /\ challenges \in Seq(Challenge)
            BY <1>1 DEF Challenge, IInv, Answered
        <3>2. challenges' = Append(challenges, x)
            BY <2>2
        <3> HIDE DEF x
        <3>3. /\ challenges' \in Seq(Challenge) /\ DOMAIN challenges' = DOMAIN challenges \cup {n}
              /\ n \notin DOMAIN challenges /\ challenges'[n] = x
              /\ \A c \in DOMAIN challenges : challenges'[c] = challenges[c]
            BY <3>0, <3>1, <3>2, SeqAdd
        <3>4. \A q \in Req : Facing(q)' => req'[q] = req[q] /\ req[q].on \in DOMAIN challenges
            <4>1. \A q \in Req : Facing(q)' => req'[q] = req[q]
                BY <1>3 DEF Quiet, Facing
            <4>2. \A q \in Req : Facing(q)' => Facing(q)
                BY <4>1 DEF Facing
            <4> QED
                BY <4>1, <4>2 DEF IInv, Answered
        <3>5. \A q \in Req : ~Solved(q, n)'
            BY <3>3, <3>4 DEF Solved, Facing
        <3>6. OneSession(n)'
            BY <3>1, <3>3, <3>5 DEF OneSession
        <3>7. ASSUME NEW c \in DOMAIN challenges PROVE OneSession(c)'
            <4>1. \A q \in Req : Solved(q, c)' => Solved(q, c)
                BY <3>4 DEF Solved, Facing
            <4>2. OneSession(c)
                BY DEF IInv, Answered
            <4> QED
                BY <3>3, <4>1, <4>2 DEF OneSession
        <3> QED
            BY <3>3, <3>4, <3>6, <3>7 DEF Answered
    <2> QED
        BY <2>1, <2>2 DEF SigninFactor
<1> QED
    BY <1>2, <1>3, <1>4, QuietStep DEF IInv, SigninFactor, account, factor

\* Solve: only while the challenge is not completed.
LEMMA SolveStep == ASSUME IInv, NEW r \in Req, Solve(r) PROVE IInv'
<1>0. "session" \in Stage /\ "session" \notin Lone /\ Handlers
    BY DEF Stage, Lone, IInv
<1>1. CASE challenges[req[r].on].done
    <2>1. Handlers' /\ Moves(r) /\ req'[r].stage = "idle" /\ challenges' = challenges
        BY <1>0, <1>1, DoneFields DEF Solve
    <2>2. Quiet
        BY <2>1 DEF Quiet, Moves
    <2> QED
        BY <2>1, <2>2, QuietStep DEF IInv, Solve, account, factor
<1>2. CASE ~challenges[req[r].on].done
    <2>1. /\ Handlers' /\ Moves(r) /\ req'[r].stage = "session" /\ req'[r].flow = req[r].flow
          /\ req'[r].on = req[r].on
        BY <1>0, <1>2, GotoFields DEF Solve
    <2>2. PICK c \in DOMAIN challenges : c = req[r].on
        BY DEF Solve, IInv, Answered, Facing
    <2>3. /\ challenges[c] \in Challenge /\ OneSession(c) /\ challenges[c].sessions = 0
          /\ ~challenges[c].done
        BY <1>2, <2>2, ChallengeFields DEF IInv, OneSession
    <2> DEFINE x == [challenges[c] EXCEPT !.done = TRUE]
    <2>4. x \in Challenge /\ x.done = TRUE /\ x.sessions = 0
        BY <2>3 DEF Challenge
    <2>5. challenges' = [challenges EXCEPT ![c] = x]
        BY <1>2, <2>2, <2>3, ChallengeFields DEF Solve, IInv
    <2> HIDE DEF x
    <2>6. \A q \in Req : ~Solved(q, c)
        BY <2>3 DEF OneSession
    <2>7. \A q \in Req : Solved(q, c)' => q = r
        BY <2>1, <2>6 DEF Solved, Moves
    <2>8. \A q \in Req : Facing(q)' => req'[q] = req[q] \/ req'[q].on = c
        BY <2>1, <2>2 DEF Moves
    <2>9. Answered'
        <3>1. x.sessions <= 1 /\ (~x.done => x.sessions = 0) /\ Answered
            BY <2>4 DEF IInv
        <3>2. \A q \in Req : Solved(q, c)' => x.done /\ x.sessions = 0
            BY <2>4
        <3>3. \A q, p \in Req : Solved(q, c)' /\ Solved(p, c)' => p = q
            BY <2>7
        <3> QED
            BY <2>4, <2>5, <2>8, <3>1, <3>2, <3>3, AnswerOne
    <2>10. Ended'
        BY <2>1, EndedStays DEF EndedCalm, IInv, Moves, Solve, account
    <2>11. Proven'
        BY <2>1, ProvenStays DEF ProvenCalm, IInv, Moves, Solve, account
    <2>12. Redeemed'
        BY <2>1, RedeemedStays DEF RedeemedCalm, IInv, Moves, Solve
    <2>13. Recovered'
        BY <2>1, RecoveredStays DEF RecoveredCalm, IInv, Moves, Solve, factor
    <2>14. Locking'
        BY <2>1, LockingStays DEF LockingCalm, IInv, Moves, Solve
    <2> QED
        BY <2>1, <2>9, <2>10, <2>11, <2>12, <2>13, <2>14 DEF IInv
<1> QED
    BY <1>1, <1>2

\* The columns of the enrollment and the uses of each generation of codes.
LEMMA RecoveredFields ==
    ASSUME Recovered
    PROVE  /\ uses \in Seq(Nat) /\ DOMAIN uses = 1 .. Len(uses) /\ Len(uses) \in Nat
           /\ \A g \in DOMAIN uses : uses[g] \in Nat
           /\ enrollment \in Enrollment /\ enrollment.gen \in Nat /\ enrollment.id \in Nat
           /\ enrollment.used \in BOOLEAN /\ enrollment.st \in {"none", "pending", "active"}
<1>1. uses \in Seq(Nat) /\ enrollment \in Enrollment
    BY DEF Recovered
<1>2. DOMAIN uses = 1 .. Len(uses) /\ Len(uses) \in Nat
    BY <1>1, LenProperties
<1>3. \A g \in DOMAIN uses : uses[g] \in Nat
    BY <1>1, <1>2, ElementOfSeq
<1>4. /\ enrollment.gen \in Nat /\ enrollment.id \in Nat
      /\ enrollment.used \in BOOLEAN /\ enrollment.st \in {"none", "pending", "active"}
    BY <1>1 DEF Enrollment
<1> QED
    BY <1>1, <1>2, <1>3, <1>4

\* A new generation of recovery codes, which nobody has checked yet.
LEMMA NewCodes ==
    ASSUME Recovered, NEW n \in Nat, n = Len(uses) + 1, uses' = Append(uses, 0), req' = req,
           enrollment' \in Enrollment, enrollment'.gen = n
    PROVE  Recovered'
<1>1. /\ uses' \in Seq(Nat) /\ DOMAIN uses' = DOMAIN uses \cup {n} /\ n \notin DOMAIN uses
      /\ uses'[n] = 0 /\ \A g \in DOMAIN uses : uses'[g] = uses[g]
    <2>1. 0 \in Nat /\ uses \in Seq(Nat)
        BY DEF Recovered
    <2> QED
        BY <2>1, SeqAdd
<1>2. \A g : Marking(g)' = Marking(g) /\ Marking(g) \in SUBSET Req
    BY DEF Marking
<1>3. Cardinality(Marking(n)) \in Nat /\ Cardinality(Marking(n)) <= Cardinality(Req)
    BY <1>2, CountFew
<1>4. \A g \in DOMAIN uses' : uses'[g] + Cardinality(Marking(g)') <= Cardinality(Req)
    BY <1>1, <1>2, <1>3, SomeRequest DEF Recovered
<1>5. \A r \in Req : req'[r].stage = "mark" => req'[r].seen \in DOMAIN uses'
    BY <1>1 DEF Recovered
<1> QED
    BY <1>1, <1>4, <1>5 DEF Recovered

\* enroll-start: an active enrollment is replaced too.
LEMMA EnrollStartStep == ASSUME IInv, NEW s \in DOMAIN sessions, EnrollStart(s) PROVE IInv'
<1>1. Quiet /\ Handlers'
    BY DEF Quiet, EnrollStart, IInv, Handlers
<1>2. Recovered'
    <2>1. PICK n \in Nat : n = Len(uses) + 1
        BY RecoveredFields DEF IInv
    <2>2. PICK i \in Nat : i = IF enrollment.st = "none" THEN n ELSE enrollment.id
        BY RecoveredFields DEF IInv
    <2>3. enrollment' = [st |-> "pending", used |-> FALSE, gen |-> n, id |-> i]
        BY <2>1, <2>2 DEF EnrollStart
    <2>4. enrollment' \in Enrollment /\ enrollment'.gen = n
        BY <2>3 DEF Enrollment
    <2> QED
        BY <2>1, <2>4, NewCodes DEF IInv, EnrollStart
<1> QED
    BY <1>1, <1>2, QuietStep DEF IInv, EnrollStart, account

\* RegenerateRecoveryCodes.
LEMMA RegenerateStep == ASSUME IInv, NEW s \in DOMAIN sessions, Regenerate(s) PROVE IInv'
<1>1. Quiet /\ Handlers'
    BY DEF Quiet, Regenerate, IInv, Handlers
<1>2. Recovered'
    <2>1. PICK n \in Nat : n = Len(uses) + 1
        BY RecoveredFields DEF IInv
    <2>2. enrollment \in Enrollment /\ enrollment' = [enrollment EXCEPT !.used = FALSE, !.gen = n]
        BY <2>1, RecoveredFields DEF IInv, Regenerate
    <2>3. enrollment' \in Enrollment /\ enrollment'.gen = n
        BY <2>2 DEF Enrollment
    <2> QED
        BY <2>1, <2>3, NewCodes DEF IInv, Regenerate
<1> QED
    BY <1>1, <1>2, QuietStep DEF IInv, Regenerate, account

\* enroll-confirm and disable read the enrollment.
LEMMA EnrollCheckStep ==
    ASSUME IInv, NEW r \in Req, NEW s, NEW flow \in {"confirm", "disable"}, EnrollCheck(r, s, flow)
    PROVE  IInv'
<1>1. Handlers' /\ Moves(r) /\ req'[r].stage = flow
    <2>1. flow \in Stage /\ flow \in Flow /\ flow # "totp" /\ ends \in Seq(End)
        BY DEF Stage, Flow, IInv, Ended
    <2> QED
        BY <2>1, CallFields DEF IInv, EnrollCheck
<1>2. Quiet
    BY <1>1 DEF Quiet, Moves
<1> QED
    BY <1>1, <1>2, QuietStep DEF IInv, EnrollCheck, account, factor

\* Confirm and Disable, whatever the enrollment has become.
LEMMA EnrollFinishStep == ASSUME IInv, NEW r \in Req, EnrollFinish(r) PROVE IInv'
<1>1. Handlers' /\ Moves(r) /\ req'[r].stage = "idle"
    BY DoneFields DEF EnrollFinish, IInv
<1>2. Quiet
    BY <1>1 DEF Quiet, Moves
<1>3. PICK st \in {"none", "active"} :
        \/ enrollment' = [enrollment EXCEPT !.st = st] /\ (st = "active" => enrollment.st = "pending")
        \/ enrollment' = enrollment
    BY DEF EnrollFinish
<1>4. enrollment' \in Enrollment /\ enrollment'.gen = enrollment.gen /\ enrollment'.used = enrollment.used
      /\ (enrollment'.st # "none" => enrollment.st # "none")
    <2>1. enrollment \in Enrollment
        BY DEF IInv, Recovered
    <2>2. CASE enrollment' = enrollment
        BY <2>1, <2>2
    <2>3. CASE enrollment' = [enrollment EXCEPT !.st = st] /\ (st = "active" => enrollment.st = "pending")
        <3>1. /\ enrollment' \in Enrollment /\ enrollment'.gen = enrollment.gen
              /\ enrollment'.used = enrollment.used /\ enrollment'.st = st
            BY <2>1, <2>3 DEF Enrollment
        <3> QED
            BY <2>3, <3>1
    <2> QED
        BY <1>3, <2>2, <2>3
<1>5. Recovered'
    <2>1. \A g : Marking(g)' \in SUBSET Marking(g) /\ Marking(g) \in SUBSET Req
        BY <1>2 DEF Marking, Quiet
    <2>2. \A g : /\ Cardinality(Marking(g)) \in Nat /\ Cardinality(Marking(g)') \in Nat
                 /\ Cardinality(Marking(g)') <= Cardinality(Marking(g))
        BY <2>1, CountFew
    <2>3. uses' = uses /\ uses \in Seq(Nat) /\ \A g \in DOMAIN uses : uses[g] \in Nat
        BY RecoveredFields DEF IInv, EnrollFinish
    <2>4. \A g \in DOMAIN uses : uses[g] + Cardinality(Marking(g)') <= Cardinality(Req)
        BY <2>2, <2>3, SomeRequest DEF IInv, Recovered
    <2>5. \A q \in Req : req'[q].stage = "mark" => req'[q].seen \in DOMAIN uses
        BY <1>2 DEF Quiet, IInv, Recovered
    <2> QED
        BY <1>4, <2>3, <2>4, <2>5 DEF IInv, Recovered
<1> QED
    BY <1>1, <1>2, <1>5, QuietStep DEF IInv, EnrollFinish, account

\* Requests come to a challenge, and none solves it.
LEMMA AnsweredComing ==
    ASSUME Answered, challenges' = challenges,
           \A q \in Req : Facing(q)' => req'[q].on \in DOMAIN challenges,
           \A q \in Req : \A c : Solved(q, c)' => Solved(q, c)
    PROVE  Answered'
<1>1. ASSUME NEW c \in DOMAIN challenges PROVE OneSession(c)'
    <2>1. OneSession(c)
        BY DEF Answered
    <2> QED
        BY <2>1 DEF OneSession
<1>2. challenges \in Seq(Challenge)
    BY DEF Answered
<1> QED
    BY <1>1, <1>2 DEF Answered

\* The request that has verified a code of the authenticator or a recovery code.
LEMMA TotpBeginMoves ==
    ASSUME IInv, NEW r \in Req, NEW c \in DOMAIN challenges, NEW recovery \in BOOLEAN,
           TotpBegin(r, c, recovery)
    PROVE  /\ Handlers' /\ Moves(r) /\ req'[r].stage = (IF recovery THEN "mark" ELSE "solve")
           /\ req'[r].on = c /\ req'[r].seen = enrollment.gen
<1>1. PICK g \in Stage, f \in Flow : g = (IF recovery THEN "mark" ELSE "solve") /\ f = "totp"
    BY DEF Stage, Flow
<1>2. PICK a \in Nat, i \in Nat, n \in Nat :
        a = challenges[c].asof /\ i = enrollment.id /\ n = enrollment.gen
    BY ChallengeFields, RecoveredFields DEF IInv
<1>3. PICK b : b = Begun(g, f, c, n)
    OBVIOUS
<1>4. b \in Handling /\ b.stage = g /\ b.flow = f /\ b.on = c /\ b.seen = n
    <2>1. c \in Nat /\ ends \in Seq(End)
        BY ChallengeFields DEF IInv, Ended
    <2> QED
        BY <1>3, <2>1, BegunFields
<1> DEFINE x == [b EXCEPT !.asof = a, !.end = i]
<1>5. req' = [req EXCEPT ![r] = x]
    BY <1>1, <1>2, <1>3 DEF TotpBegin
<1>6. x \in Handling /\ x.stage = g /\ x.flow = f /\ x.on = c /\ x.seen = n
    BY <1>4 DEF Handling
<1> HIDE DEF x
<1>7. x.stage \in Lone => x.flow # "totp"
    BY <1>1, <1>6 DEF Lone
<1>8. Handlers' /\ req'[r] = x /\ Moves(r)
    BY <1>5, <1>6, <1>7, ReqSet DEF IInv
<1> QED
    BY <1>1, <1>2, <1>6, <1>8

\* auth-with-totp: a recovery code that is not used has no use yet.
LEMMA TotpBeginStep ==
    ASSUME IInv, NEW r \in Req, NEW c \in DOMAIN challenges, NEW recovery \in BOOLEAN,
           TotpBegin(r, c, recovery)
    PROVE  IInv'
<1>1. PICK n \in Nat : n = enrollment.gen
    BY RecoveredFields DEF IInv
<1>2. /\ Handlers' /\ Moves(r) /\ req'[r].stage \in {"mark", "solve"}
      /\ req'[r].stage = "mark" => recovery
      /\ req'[r].on = c /\ req'[r].seen = n
    BY <1>1, TotpBeginMoves
<1>3. /\ enrollment' = enrollment /\ uses' = uses /\ challenges' = challenges
      /\ enrollment.st = "active" /\ (recovery => ~enrollment.used)
    BY DEF TotpBegin, factor
<1>4. Recovered'
    <2>1. n \in DOMAIN uses /\ (recovery => uses[n] = 0)
        BY <1>1, <1>3 DEF IInv, Recovered
    <2>2. \A g : g # n \/ ~recovery => Marking(g)' \in SUBSET Marking(g)
        BY <1>2 DEF Marking, Moves
    <2>3. \A g : Marking(g)' \in SUBSET Req /\ Marking(g) \in SUBSET Req
        BY DEF Marking
    <2>4. \A g : /\ Cardinality(Marking(g)') \in Nat /\ Cardinality(Marking(g)) \in Nat
                 /\ Cardinality(Marking(g)') <= Cardinality(Req)
        BY <2>3, CountFew
    <2>5. \A g : g # n \/ ~recovery => Cardinality(Marking(g)') <= Cardinality(Marking(g))
        BY <2>2, <2>3, CountFew
    <2>6. \A g \in DOMAIN uses : uses[g] \in Nat
        BY RecoveredFields DEF IInv
    <2>7. \A g \in DOMAIN uses : uses[g] + Cardinality(Marking(g)') <= Cardinality(Req)
        <3>1. \A g \in DOMAIN uses : uses[g] + Cardinality(Marking(g)) <= Cardinality(Req)
            BY DEF IInv, Recovered
        <3>2. ASSUME NEW g \in DOMAIN uses PROVE uses[g] + Cardinality(Marking(g)') <= Cardinality(Req)
            <4>1. CASE g = n /\ recovery
                BY <2>1, <2>4, <4>1, SomeRequest
            <4>2. CASE g # n \/ ~recovery
                BY <2>4, <2>5, <2>6, <3>1, <4>2, SomeRequest
            <4> QED
                BY <4>1, <4>2
        <3> QED
            BY <3>2
    <2>8. \A q \in Req : req'[q].stage = "mark" => req'[q].seen \in DOMAIN uses
        BY <1>2, <2>1 DEF Moves, IInv, Recovered
    <2> QED
        BY <1>3, <2>7, <2>8 DEF IInv, Recovered
<1>5. Answered'
    <2>1. \A q \in Req : Facing(q)' => req'[q].on \in DOMAIN challenges
        <3>1. \A q \in Req : q # r /\ Facing(q)' => Facing(q) /\ req'[q] = req[q]
            BY <1>2 DEF Facing, Moves
        <3> QED
            BY <1>2, <3>1 DEF IInv, Answered
    <2>2. \A q \in Req : \A d : Solved(q, d)' => Solved(q, d)
        BY <1>2 DEF Solved, Moves
    <2> QED
        BY <1>3, <2>1, <2>2, AnsweredComing DEF IInv
<1>6. Ended'
    BY <1>2, EndedStays DEF EndedCalm, IInv, Moves, TotpBegin, account
<1>7. Proven'
    BY <1>2, ProvenStays DEF ProvenCalm, IInv, Moves, TotpBegin, account
<1>8. Redeemed'
    BY <1>2, RedeemedStays DEF RedeemedCalm, IInv, Moves, TotpBegin
<1>9. Locking'
    BY <1>2, LockingStays DEF LockingCalm, IInv, Moves, TotpBegin
<1> QED
    BY <1>2, <1>4, <1>5, <1>6, <1>7, <1>8, <1>9 DEF IInv

\* MarkRecoveryCodeUsed: each of the requests that checked the code uses it, and
\* none after them, unless the codes are others by then.
LEMMA MarkRecoveryCodeUsedStep ==
    ASSUME IInv, NEW r \in Req, MarkRecoveryCodeUsed(r) PROVE IInv'
<1>0. Handlers /\ "solve" \in Stage /\ "solve" \notin Lone
    BY DEF IInv, Stage, Lone
<1>1. CASE Done(r) /\ UNCHANGED <<enrollment, uses>>
    <2>1. Handlers' /\ Moves(r) /\ req'[r].stage = "idle"
        BY <1>0, <1>1, DoneFields
    <2>2. Quiet
        BY <2>1 DEF Quiet, Moves
    <2> QED
        BY <1>1, <2>1, <2>2, QuietStep DEF IInv, MarkRecoveryCodeUsed, account
<1>2. CASE /\ enrollment.st # "none" /\ enrollment' = [enrollment EXCEPT !.used = TRUE]
           /\ uses' = [uses EXCEPT ![req[r].seen] = @ + 1]
           /\ Goto(r, "solve")
    <2>1. /\ Handlers' /\ Moves(r) /\ req'[r].stage = "solve" /\ req'[r].on = req[r].on
          /\ req'[r].seen = req[r].seen
        BY <1>0, <1>2, GotoFields
    <2>2. PICK g \in DOMAIN uses : g = req[r].seen
        BY DEF MarkRecoveryCodeUsed, IInv, Recovered
    <2>3. /\ uses \in Seq(Nat) /\ \A d \in DOMAIN uses : uses[d] \in Nat
        BY RecoveredFields DEF IInv
    <2>4. PICK n \in Nat : n = uses[g] + 1
        BY <2>3
    <2>5. uses' = [uses EXCEPT ![g] = n]
        BY <1>2, <2>2, <2>3, <2>4
    <2>6. /\ uses' \in Seq(Nat) /\ DOMAIN uses' = DOMAIN uses /\ uses'[g] = n
          /\ \A d \in DOMAIN uses : d # g => uses'[d] = uses[d]
        BY <2>3, <2>5, SeqSet
    <2>7. enrollment' \in Enrollment /\ enrollment'.gen = enrollment.gen /\ enrollment'.used = TRUE
        <3>1. enrollment \in Enrollment /\ enrollment' = [enrollment EXCEPT !.used = TRUE]
            BY <1>2 DEF IInv, Recovered
        <3> QED
            BY <3>1 DEF Enrollment
    <2>8. \A d : Marking(d)' \in SUBSET Marking(d) /\ Marking(d) \in SUBSET Req
        BY <2>1 DEF Marking, Moves
    <2>9. \A d : /\ Cardinality(Marking(d)) \in Nat /\ Cardinality(Marking(d)') \in Nat
                 /\ Cardinality(Marking(d)') <= Cardinality(Marking(d))
        BY <2>8, CountFew
    <2>10. Cardinality(Marking(g)') + 1 <= Cardinality(Marking(g))
        <3>1. r \in Marking(g) /\ Marking(g)' \in SUBSET (Marking(g) \ {r})
            BY <2>1, <2>2 DEF Marking, Moves, MarkRecoveryCodeUsed
        <3>2. PICK A \in SUBSET Req : A = Marking(g)
            BY <2>8
        <3>3. PICK B \in SUBSET (A \ {r}) : B = Marking(g)'
            BY <3>1, <3>2
        <3>4. Cardinality(B) + 1 <= Cardinality(A)
            BY <3>1, <3>2, CountOneLess
        <3> QED
            BY <3>2, <3>3, <3>4
    <2>11. \A d \in DOMAIN uses : uses'[d] + Cardinality(Marking(d)') <= Cardinality(Req)
        <3>1. \A d \in DOMAIN uses : uses[d] + Cardinality(Marking(d)) <= Cardinality(Req)
            BY DEF IInv, Recovered
        <3>2. uses'[g] + Cardinality(Marking(g)') <= Cardinality(Req)
            BY <2>3, <2>4, <2>6, <2>9, <2>10, <3>1, SomeRequest
        <3>3. ASSUME NEW d \in DOMAIN uses, d # g PROVE uses'[d] + Cardinality(Marking(d)') <= Cardinality(Req)
            BY <2>3, <2>6, <2>9, <3>1, <3>3, SomeRequest
        <3> QED
            BY <3>2, <3>3
    <2>12. \A q \in Req : req'[q].stage = "mark" => req'[q].seen \in DOMAIN uses
        BY <2>1 DEF Moves, IInv, Recovered
    <2>13. enrollment.gen \in DOMAIN uses
        BY <1>2 DEF IInv, Recovered
    <2>14. Recovered'
        BY <2>6, <2>7, <2>11, <2>12, <2>13 DEF Recovered
    <2>15. challenges' = challenges
        BY DEF MarkRecoveryCodeUsed
    <2>16. Answered'
        <3>1. \A q \in Req : Facing(q)' => req'[q].on = req[q].on /\ Facing(q)
            BY <2>1 DEF Facing, Moves, MarkRecoveryCodeUsed
        <3>2. \A q \in Req : Facing(q)' => req'[q].on \in DOMAIN challenges
            BY <3>1 DEF IInv, Answered
        <3>3. \A q \in Req : \A d : Solved(q, d)' => Solved(q, d)
            BY <2>1 DEF Solved, Moves
        <3> QED
            BY <2>15, <3>2, <3>3, AnsweredComing DEF IInv
    <2>17. Ended'
        BY <2>1, EndedStays DEF EndedCalm, IInv, Moves, MarkRecoveryCodeUsed, account
    <2>18. Proven'
        BY <2>1, ProvenStays DEF ProvenCalm, IInv, Moves, MarkRecoveryCodeUsed, account
    <2>19. Redeemed'
        BY <2>1, RedeemedStays DEF RedeemedCalm, IInv, Moves, MarkRecoveryCodeUsed
    <2>20. Locking'
        BY <2>1, LockingStays DEF LockingCalm, IInv, Moves, MarkRecoveryCodeUsed
    <2> QED
        BY <2>1, <2>14, <2>16, <2>17, <2>18, <2>19, <2>20 DEF IInv
<1> QED
    BY <1>1, <1>2 DEF MarkRecoveryCodeUsed

-----------------------------------------------------------------------------
(* Actions on the lockout *)

\* A request passes the check of the lock only while there is none.
LEMMA PassesLock ==
    ASSUME Locking, ~lock.locked, lock' = lock
    PROVE  Locking'
BY DEF Locking

\* A wrong password: the request has compared it.
LEMMA RecordFails ==
    ASSUME Locking, NEW r \in Req, r \in Comparing, lock' = Record(lock),
           Moves(r), req'[r].stage = "idle"
    PROVE  Locking'
<1>1. lock \in Lock /\ lock.fails \in 0 .. Threshold /\ lock.locked \in BOOLEAN /\ lock.late \in Nat
    BY DEF Locking, Lock
<1>2. PICK n \in 0 .. Threshold : n = Min({lock.fails + 1, Threshold})
    <2>1. {lock.fails + 1, Threshold} \in SUBSET Nat
        BY <1>1
    <2>2. CASE lock.fails + 1 <= Threshold
        <3>1. \A y \in {lock.fails + 1, Threshold} : lock.fails + 1 <= y
            BY <1>1, <2>2
        <3>2. Min({lock.fails + 1, Threshold}) \in {lock.fails + 1, Threshold}
            BY <3>1 DEF Min
        <3> QED
            BY <1>1, <2>2, <3>2
    <2>3. CASE ~(lock.fails + 1 <= Threshold)
        <3>1. \A y \in {lock.fails + 1, Threshold} : Threshold <= y
            BY <1>1, <2>3
        <3>2. Min({lock.fails + 1, Threshold}) \in {lock.fails + 1, Threshold}
            BY <3>1 DEF Min
        <3>3. \A y \in {lock.fails + 1, Threshold} : Min({lock.fails + 1, Threshold}) <= y
            BY <3>1 DEF Min
        <3> QED
            BY <1>1, <2>3, <3>2, <3>3
    <2> QED
        BY <2>2, <2>3
<1>3. PICK b \in BOOLEAN : b <=> n = Threshold
    OBVIOUS
<1>4. PICK l \in Nat : l = IF lock.locked THEN lock.late + 1 ELSE 0
    BY <1>1
<1>5. lock' = [fails |-> n, locked |-> b, late |-> l]
    BY <1>2, <1>3, <1>4 DEF Record
<1>6. lock' \in Lock /\ lock'.fails = n /\ lock'.locked = b /\ lock'.late = l
    BY <1>5 DEF Lock
<1>7. Comparing \in SUBSET Req /\ Comparing' \in SUBSET (Comparing \ {r})
    BY DEF Comparing, Moves
<1>8. PICK A \in SUBSET Req : A = Comparing
    BY <1>7
<1>9. PICK B \in SUBSET (A \ {r}) : B = Comparing'
    BY <1>7, <1>8
<1>10. Cardinality(A) \in Nat /\ Cardinality(B) \in Nat /\ Cardinality(B) + 1 <= Cardinality(A)
    BY <1>8, CountOneLess
<1>11. Cardinality(A) <= Cardinality(Req)
    BY CountFew
<1>12. lock.locked => lock.late + Cardinality(A) < Cardinality(Req)
    BY <1>8 DEF Locking
<1>13. l + Cardinality(B) < Cardinality(Req)
    BY <1>1, <1>4, <1>10, <1>11, <1>12, SomeRequest
<1>14. n # Threshold => l = 0
    BY <1>1, <1>2, <1>4 DEF Locking, Min
<1> QED
    BY <1>3, <1>6, <1>9, <1>13, <1>14 DEF Locking

\* auth-with-password and auth-with-ldap, past the check of the lock.
LEMMA BeginComparing ==
    ASSUME IInv, NEW r \in Req, NEW g \in {"verify", "bind"}, NEW f \in Flow, f # "totp",
           NEW on \in Nat, NEW seen \in Nat, ~lock.locked,
           req' = [req EXCEPT ![r] = Begun(g, f, on, seen)],
           UNCHANGED <<account, sessions, tokens, factor, challenges, lock>>
    PROVE  IInv'
<1>1. PICK x : x = Begun(g, f, on, seen)
    OBVIOUS
<1>2. x \in Handling /\ x.stage = g /\ x.flow = f
    <2>1. g \in Stage /\ ends \in Seq(End)
        BY DEF Stage, IInv, Ended
    <2> QED
        BY <1>1, <2>1, BegunFields
<1>3. req' = [req EXCEPT ![r] = x] /\ Handlers
    BY <1>1 DEF IInv
<1>4. Handlers' /\ req'[r] = x /\ Moves(r)
    BY <1>2, <1>3, ReqSet
<1>5. Moves(r) /\ req'[r].stage \in {"verify", "bind"}
    BY <1>2, <1>4
<1>6. Locking'
    BY PassesLock DEF IInv
<1>7. Ended'
    BY <1>5, EndedStays DEF EndedCalm, IInv, Moves, account
<1>8. Proven'
    BY <1>5, ProvenStays DEF ProvenCalm, IInv, Moves, account
<1>9. Redeemed'
    BY <1>5, RedeemedStays DEF RedeemedCalm, IInv, Moves
<1>10. Answered'
    BY <1>5, AnsweredStays DEF AnsweredCalm, IInv, Moves, Facing
<1>11. Recovered'
    BY <1>5, RecoveredStays DEF RecoveredCalm, IInv, Moves, factor
<1> QED
    BY <1>4, <1>6, <1>7, <1>8, <1>9, <1>10, <1>11 DEF IInv

\* auth-with-password, up to loading the row.
LEMMA SigninBeginStep ==
    ASSUME IInv, NEW r \in Req, NEW p \in 0 .. row.pw, SigninBegin(r, p) PROVE IInv'
<1>1. PICK f \in Flow : f = "password"
    BY DEF Flow, Op
<1>2. PICK w \in Nat : w = row.pw
    BY AccountFields DEF IInv
<1>3. p \in Nat
    BY <1>2
<1>4. ~lock.locked /\ req' = [req EXCEPT ![r] = Begun("verify", f, p, w)]
    BY <1>1, <1>2 DEF SigninBegin
<1>5. UNCHANGED <<account, sessions, tokens, factor, challenges, lock>> /\ f # "totp"
    BY <1>1 DEF SigninBegin
<1> QED
    BY <1>3, <1>4, <1>5, BeginComparing

\* auth-with-ldap up to the bind.
LEMMA LdapBeginStep ==
    ASSUME IInv, NEW r \in Req, NEW ok \in BOOLEAN, LdapBegin(r, ok) PROVE IInv'
<1>1. PICK f \in Flow : f = "idp"
    BY DEF Flow, Op
<1>2. PICK w \in Nat : w = IF ok THEN 1 ELSE 0
    OBVIOUS
<1>3. ~lock.locked /\ req' = [req EXCEPT ![r] = Begun("bind", f, w, 0)]
    BY <1>1, <1>2 DEF LdapBegin
<1>4. UNCHANGED <<account, sessions, tokens, factor, challenges, lock>> /\ f # "totp"
    BY <1>1 DEF LdapBegin
<1>5. 0 \in Nat
    OBVIOUS
<1> QED
    BY <1>3, <1>4, <1>5, BeginComparing

\* The tracker forgets.
LEMMA UnlockedFits ==
    ASSUME lock' = Unlocked PROVE Locking'
<1>1. lock' \in Lock /\ lock'.locked = FALSE /\ lock'.late = 0
    BY DEF Unlocked, Lock
<1> QED
    BY <1>1 DEF Locking

\* A comparison: it resets the tracker and goes on, or is recorded and ends.
LEMMA Compares ==
    ASSUME IInv, NEW r \in Req, req[r].stage \in {"verify", "bind"}, NEW g \in {"factor", "provision"},
           \/ lock' = Unlocked /\ Goto(r, g)
           \/ lock' = Record(lock) /\ Done(r),
           UNCHANGED <<account, sessions, tokens, factor, challenges>>
    PROVE  IInv'
<1>0. Handlers /\ req[r].flow # "totp" /\ g \in Stage
    BY DEF IInv, Handlers, Lone, Stage
<1>1. CASE lock' = Unlocked /\ Goto(r, g)
    <2>1. Handlers' /\ Moves(r) /\ req'[r].stage = g
        BY <1>0, <1>1, GotoFields
    <2>2. Quiet
        BY <2>1 DEF Quiet, Moves
    <2>3. Locking'
        BY <1>1, UnlockedFits
    <2> QED
        BY <2>1, <2>2, <2>3, QuietStep DEF IInv, account, factor
<1>2. CASE lock' = Record(lock) /\ Done(r)
    <2>1. Handlers' /\ Moves(r) /\ req'[r].stage = "idle"
        BY <1>0, <1>2, DoneFields
    <2>2. Quiet
        BY <2>1 DEF Quiet, Moves
    <2>3. Locking'
        BY <1>2, <2>1, RecordFails DEF IInv, Comparing
    <2> QED
        BY <2>1, <2>2, <2>3, QuietStep DEF IInv, account, factor
<1> QED
    BY <1>1, <1>2

\* password.Verify, and the tracker.
LEMMA SigninVerifyStep == ASSUME IInv, NEW r \in Req, SigninVerify(r) PROVE IInv'
<1>1. /\ req[r].stage \in {"verify", "bind"}
      /\ \/ lock' = Unlocked /\ Goto(r, "factor")
         \/ lock' = Record(lock) /\ Done(r)
      /\ UNCHANGED <<account, sessions, tokens, factor, challenges>>
    BY DEF SigninVerify
<1> QED
    BY <1>1, Compares

\* The bind, and the tracker.
LEMMA LdapBindStep == ASSUME IInv, NEW r \in Req, LdapBind(r) PROVE IInv'
<1>1. /\ req[r].stage \in {"verify", "bind"}
      /\ \/ lock' = Unlocked /\ Goto(r, "provision")
         \/ lock' = Record(lock) /\ Done(r)
      /\ UNCHANGED <<account, sessions, tokens, factor, challenges>>
    BY DEF LdapBind
<1> QED
    BY <1>1, Compares

\* A lock that ends, failures that leave the window.
LEMMA LockAgesStep == ASSUME IInv, LockAges PROVE IInv'
<1>1. Quiet /\ Handlers'
    BY DEF Quiet, LockAges, IInv, Handlers
<1>2. lock \in Lock /\ lock.fails \in 0 .. Threshold /\ (~lock.locked => lock.late = 0)
    BY DEF IInv, Locking, Lock
<1>3. Locking'
    <2>1. CASE lock' = [lock EXCEPT !.locked = FALSE, !.late = 0]
        <3>1. lock' \in Lock /\ lock'.locked = FALSE /\ lock'.late = 0
            BY <1>2, <2>1 DEF Lock
        <3> QED
            BY <3>1 DEF Locking
    <2>2. ASSUME ~lock.locked, NEW n \in 0 .. (lock.fails - 1), lock' = [lock EXCEPT !.fails = n]
          PROVE  Locking'
        <3>1. n \in 0 .. Threshold
            BY <1>2
        <3>2. lock' \in Lock /\ lock'.locked = lock.locked /\ lock'.late = lock.late
            BY <1>2, <2>2, <3>1 DEF Lock
        <3> QED
            BY <1>2, <2>2, <3>2 DEF Locking
    <2> QED
        BY <2>1, <2>2 DEF LockAges
<1> QED
    BY <1>1, <1>3, QuietStep DEF IInv, LockAges, account, factor

-----------------------------------------------------------------------------
(* The other actions *)

\* The SAML assertion consumer.
LEMMA SamlAcsStep == ASSUME IInv, NEW r \in Req, SamlAcs(r) PROVE IInv'
<1>1. Handlers' /\ Moves(r) /\ req'[r].stage = "provision"
    <2>1. "provision" \in Stage /\ "idp" \in Flow /\ ends \in Seq(End)
        BY DEF Stage, Op, Flow, IInv, Ended
    <2> QED
        BY <2>1, CallFields DEF IInv, SamlAcs
<1>2. Quiet
    BY <1>1 DEF Quiet, Moves
<1> QED
    BY <1>1, <1>2, QuietStep DEF IInv, SamlAcs, account, factor

\* login-finish of a passkey.
LEMMA PasskeyLoginStep == ASSUME IInv, NEW r \in Req, PasskeyLogin(r) PROVE IInv'
<1>1. Handlers' /\ Moves(r) /\ req'[r].stage = "session" /\ req'[r].flow = "passkey"
    <2>1. "session" \in Stage /\ "passkey" \in Flow /\ "session" \notin Lone /\ ends \in Seq(End)
        BY DEF Stage, Op, Flow, Lone, IInv, Ended
    <2> QED
        BY <2>1, CallFields DEF IInv, PasskeyLogin
<1>2. Quiet
    BY <1>1 DEF Quiet, Moves
<1> QED
    BY <1>1, <1>2, QuietStep DEF IInv, PasskeyLogin, account, factor

\* change-password, up to the comparison with the current one.
LEMMA ChangeBeginStep ==
    ASSUME IInv, NEW r \in Req, NEW s \in DOMAIN sessions, ChangeBegin(r, s) PROVE IInv'
<1>1. Handlers' /\ Moves(r) /\ req'[r].stage = "password"
    <2>1. "password" \in Stage /\ "change" \in Flow /\ "password" \notin Lone /\ ends \in Seq(End)
        BY DEF Stage, Op, Flow, Lone, IInv, Ended
    <2>2. s \in Nat
        BY EndedFields DEF IInv
    <2> QED
        BY <2>1, <2>2, CallFields DEF IInv, ChangeBegin
<1>2. Quiet
    BY <1>1 DEF Quiet, Moves
<1> QED
    BY <1>1, <1>2, QuietStep DEF IInv, ChangeBegin, account, factor

\* An administrator turns the method on or off.
LEMMA SwitchTotpStep == ASSUME IInv, SwitchTotp PROVE IInv'
<1>1. Quiet /\ Handlers'
    BY DEF Quiet, SwitchTotp, IInv, Handlers
<1> QED
    BY <1>1, QuietStep DEF IInv, SwitchTotp, account

-----------------------------------------------------------------------------
(* The invariant *)

\* It holds at the start.
LEMMA InitIInv == ASSUME Init PROVE IInv
<1>0. bound.email \in Email \cup {NoEmail}
    BY DEF Init, Instance
<1>1. Handlers
    BY IdleFields DEF Init, Handlers, Lone
<1>2. \A r \in Req : req[r].stage = "idle"
    BY IdleFields DEF Init
<1>3. Ended
    <2>1. ends = <<>> /\ ends \in Seq(End) /\ Len(ends) = 0
        BY DEF Init
    <2>2. NewSession(0, {}, {}) \in Session
        BY DEF NewSession, Session
    <2>3. sessions \in Seq(Session)
        BY <2>2 DEF Init
    <2>4. \A s \in DOMAIN sessions : sessions[s] \in Session
        BY <2>3
    <2>5. \A s \in DOMAIN sessions : sessions[s].asof \in Nat
        BY <2>4 DEF Session
    <2> QED
        BY <1>2, <2>1, <2>3, <2>5 DEF Ended, EndedStaysEnded, RefreshKnows, Live
<1>4. tokens = <<>> /\ challenges = <<>> /\ uses = <<>>
    BY DEF Init
<1>5. Proven
    <2>1. PICK n \in Nat : n = IF bound.email = NoEmail THEN 0 ELSE 1
        OBVIOUS
    <2>2. row = [NewRow(bound.email, FALSE) EXCEPT !.pw = n]
        BY <2>1 DEF Init
    <2>3. row \in Account /\ row.verified = FALSE
        BY <1>0, <2>2 DEF NewRow, Account
    <2> QED
        BY <1>2, <1>4, <2>3 DEF Proven, VerifiedIsProven, TokensFit, FlowsFit
<1>6. Redeemed
    BY <1>2, <1>4 DEF Redeemed
<1>7. Answered
    BY <1>2, <1>4 DEF Answered, Facing
<1>8. Recovered
    <2>1. enrollment \in Enrollment /\ enrollment.st = "none"
        BY DEF Init, Enrollment
    <2> QED
        BY <1>2, <1>4, <2>1 DEF Recovered
<1>9. Locking
    <2>1. lock \in Lock /\ lock.locked = FALSE /\ lock.late = 0
        BY DEF Init, Unlocked, Lock
    <2> QED
        BY <2>1 DEF Locking
<1> QED
    BY <1>1, <1>3, <1>5, <1>6, <1>7, <1>8, <1>9 DEF IInv

\* Nothing happens.
LEMMA StutterStep == ASSUME IInv, UNCHANGED vars PROVE IInv'
<1>1. Quiet /\ Handlers'
    BY DEF Quiet, vars, IInv, Handlers
<1> QED
    BY <1>1, QuietStep DEF IInv, vars, account, factor

\* Every step keeps it.
LEMMA Inductive == ASSUME IInv, [Next]_vars PROVE IInv'
<1>1. ASSUME NEW r \in Req, Handler(r) PROVE IInv'
    <2>1. CASE CreateSession(r) BY <2>1, CreateSessionStep
    <2>2. CASE RefreshCommit(r) BY <2>2, RefreshCommitStep
    <2>3. CASE SigninVerify(r) BY <2>3, SigninVerifyStep
    <2>4. CASE SigninFactor(r) BY <2>4, SigninFactorStep
    <2>5. CASE IssueReset(r) BY <2>5, IssueResetStep
    <2>6. CASE MarkVerified(r) BY <2>6, MarkVerifiedStep
    <2>7. CASE OtpMark(r) BY <2>7, OtpMarkStep
    <2>8. CASE UpdateRow(r) BY <2>8, UpdateRowStep
    <2>9. CASE RevokeSessions(r) BY <2>9, RevokeSessionsStep
    <2>10. CASE EnrollFinish(r) BY <2>10, EnrollFinishStep
    <2>11. CASE MarkRecoveryCodeUsed(r) BY <2>11, MarkRecoveryCodeUsedStep
    <2>12. CASE Solve(r) BY <2>12, SolveStep
    <2>13. CASE LdapBind(r) BY <2>13, LdapBindStep
    <2>14. CASE OauthLink(r) BY <2>14, OauthLinkStep
    <2>15. CASE \E e \in Email : Provision(r, e) BY <2>15, ProvisionStep
    <2>16. CASE Abort(r) BY <2>16, AbortStep
    <2> QED
        BY <1>1, <2>1, <2>2, <2>3, <2>4, <2>5, <2>6, <2>7, <2>8, <2>9, <2>10, <2>11, <2>12, <2>13,
           <2>14, <2>15, <2>16 DEF Handler
<1>2. ASSUME NEW r \in Req, Request(r) PROVE IInv'
    <2>1. CASE \E e \in Email : Signup(r, e) BY <2>1, SignupStep
    <2>2. CASE \E e \in Email, v \in BOOLEAN : OauthBegin(r, e, v) BY <2>2, OauthBeginStep
    <2>3. CASE \E p \in 0 .. row.pw : SigninBegin(r, p) BY <2>3, SigninBeginStep
    <2>4. CASE \E ok \in BOOLEAN : LdapBegin(r, ok) BY <2>4, LdapBeginStep
    <2>5. CASE SamlAcs(r) BY <2>5, SamlAcsStep
    <2>6. CASE PasskeyLogin(r) BY <2>6, PasskeyLoginStep
    <2>7. CASE RequestReset(r) BY <2>7, RequestResetStep
    <2>8. CASE OtpRead(r) BY <2>8, OtpReadStep
    <2>9. CASE \E s \in DOMAIN sessions : RefreshBegin(r, s) BY <2>9, RefreshBeginStep
    <2>10. CASE \E s \in DOMAIN sessions : ChangeBegin(r, s) BY <2>10, ChangeBeginStep
    <2>11. CASE \E s \in DOMAIN sessions, flow \in {"confirm", "disable"} : EnrollCheck(r, s, flow)
        BY <2>11, EnrollCheckStep
    <2>12. CASE \E t \in DOMAIN tokens : Consume(r, t) BY <2>12, ConsumeStep
    <2>13. CASE \E c \in DOMAIN challenges, recovery \in BOOLEAN : TotpBegin(r, c, recovery)
        BY <2>13, TotpBeginStep
    <2> QED
        BY <1>2, <2>1, <2>2, <2>3, <2>4, <2>5, <2>6, <2>7, <2>8, <2>9, <2>10, <2>11, <2>12, <2>13
           DEF Request
<1>3. ASSUME NEW s \in DOMAIN sessions, EndSession(s) PROVE IInv'
    BY <1>3, EndSessionStep
<1>4. ASSUME NEW s \in DOMAIN sessions, EnrollStart(s) PROVE IInv'
    BY <1>4, EnrollStartStep
<1>5. ASSUME NEW s \in DOMAIN sessions, Regenerate(s) PROVE IInv'
    BY <1>5, RegenerateStep
<1>6. ASSUME NEW s \in DOMAIN sessions, SavePasskey(s) PROVE IInv'
    BY <1>6, SavePasskeyStep
<1>7. ASSUME NEW s \in DOMAIN sessions, NEW e \in Email, RequestEmailChange(s, e) PROVE IInv'
    BY <1>7, RequestEmailChangeStep
<1>8. ASSUME NEW s \in DOMAIN sessions, SignOut({s}) PROVE IInv'
    BY <1>8, SignOutStep
<1>9. CASE SignOut({})
    BY <1>9, SignOutStep
<1>10. CASE RequestToken("verify")
    BY <1>10, RequestTokenStep
<1>11. CASE RequestToken("otp")
    BY <1>11, RequestTokenStep
<1>12. CASE SwitchTotp
    BY <1>12, SwitchTotpStep
<1>13. CASE LockAges
    BY <1>13, LockAgesStep
<1>14. CASE UNCHANGED vars
    BY <1>14, StutterStep
<1> QED
    BY <1>1, <1>2, <1>3, <1>4, <1>5, <1>6, <1>7, <1>8, <1>9, <1>10, <1>11, <1>12, <1>13, <1>14 DEF Next

\* The inductive invariant, for any number of requests at the same time.
THEOREM Invariant == Spec => []IInv
<1>1. Init => IInv
    BY InitIInv
<1>2. IInv /\ [Next]_vars => IInv'
    BY Inductive
<1> QED
    BY <1>1, <1>2, PTL DEF Spec

\* A session outlives a password reset, a change of password or address, or a
\* sign-out everywhere only if that end kept it, was cut short or failed, or if
\* the session was inserted after the UPDATE of _sessions on evidence from before.
THEOREM EndsSessions == Spec => []EndedStaysEnded
<1>1. IInv => EndedStaysEnded
    BY DEF IInv, Ended
<1> QED
    BY <1>1, Invariant, PTL

\* An account that is marked verified has an address whose owner was established,
\* however request-verification, email changes and identity providers overlap.
THEOREM VerifiesOwners == Spec => []VerifiedIsProven
<1>1. IInv => VerifiedIsProven
    BY DEF IInv, Proven
<1> QED
    BY <1>1, Invariant, PTL

\* A mailed token is redeemed once and a challenge yields one session; a typed
\* code and a recovery code, which are read and marked in separate statements,
\* serve at most as many requests as run at the same time.
THEOREM RedeemsOnce == Spec => []RedeemedOnce
<1>1. ASSUME IInv PROVE RedeemedOnce
    <2>1. ASSUME NEW t \in DOMAIN tokens
          PROVE  tokens[t].redeemed <= (IF tokens[t].purpose = "otp" THEN Cardinality(Req) ELSE 1)
        <3>1. Coding(t) \in SUBSET Req
            BY DEF Coding
        <3>2. Cardinality(Coding(t)) \in Nat /\ tokens[t].redeemed \in Nat
            BY <1>1, <3>1, CountFew, TokenFields DEF IInv
        <3> QED
            BY <1>1, <3>2, SomeRequest DEF IInv, Redeemed
    <2>2. ASSUME NEW c \in DOMAIN challenges PROVE challenges[c].sessions <= 1
        BY <1>1 DEF IInv, Answered, OneSession
    <2>3. ASSUME NEW g \in DOMAIN uses PROVE uses[g] <= Cardinality(Req)
        <3>1. Marking(g) \in SUBSET Req
            BY DEF Marking
        <3>2. Cardinality(Marking(g)) \in Nat /\ uses[g] \in Nat
            BY <1>1, <3>1, CountFew, RecoveredFields DEF IInv
        <3> QED
            BY <1>1, <3>2, SomeRequest DEF IInv, Recovered
    <2> QED
        BY <2>1, <2>2, <2>3 DEF RedeemedOnce
<1> QED
    BY <1>1, Invariant, PTL

\* Once the tracker has locked the account, fewer wrong passwords are recorded
\* than requests run at the same time: only those past the check are compared.
THEOREM LocksOut == Spec => []LockHolds
<1>1. ASSUME IInv PROVE LockHolds
    <2>1. Comparing \in SUBSET Req
        BY DEF Comparing
    <2>2. Cardinality(Comparing) \in Nat /\ lock.late \in Nat
        BY <1>1, <2>1, CountFew DEF IInv, Locking, Lock
    <2> QED
        BY <1>1, <2>2, SomeRequest DEF IInv, Locking, LockHolds
<1> QED
    BY <1>1, Invariant, PTL

=============================================================================
