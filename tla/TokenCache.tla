----------------------------- MODULE TokenCache -----------------------------
(***************************************************************************)
(* How the HTTP server decides whose request it is (internal/httpserver):  *)
(* withAuthentication, resolve and buildUser, over an LRU cache of proven  *)
(* tokens, a bounded set of rejected ones, and one probe of Gogs per token *)
(* in flight.  Each critical section is one action; between two of them    *)
(* other requests run, tokens are revoked at Gogs, and time passes.        *)
(*                                                                         *)
(* The probe stands for GetAuthenticatedUser with its retries.  A request  *)
(* that is admitted may then hear from Gogs that its token is no longer    *)
(* good.  MaxTime bounds the clock; nothing is remembered across restarts. *)
(***************************************************************************)
EXTENDS Integers, SequencesExt

CONSTANTS
  Requests,   \* HTTP requests in progress
  Tokens,     \* credentials, known by their hash
  Good,       \* the tokens Gogs accepts at first
  None,       \* no token, no request
  MaxUsers,   \* GOGS_MCP_HTTP_MAX_USERS
  MaxInvalid, \* capacity of the negative cache
  Slots,      \* probes of Gogs at once
  UserTTL,    \* GOGS_MCP_HTTP_USER_CACHE_TTL
  InvalidTTL, \* how long a rejection is remembered
  MaxTime     \* bound on the clock

ASSUME TokenAssumption ==
  /\ Good \subseteq Tokens
  /\ None \notin Tokens \cup Requests \cup Nat
  /\ {MaxUsers, MaxInvalid, Slots, UserTTL, InvalidTTL} \subseteq Nat \ {0}
  /\ MaxTime \in Nat
  /\ IsFiniteSet(Requests)

VARIABLES
  pc,      \* pc[r]: where request r is
  tok,     \* tok[r]: its token
  call,    \* call[r]: the request whose build r waits for, or its own
  result,  \* result[r]: what r's build, or the one it waited for, came to
  users,   \* users[t]: when t's entry expires, None if there is none
  order,   \* the tokens of the entries, most recently used first
  invalid, \* invalid[t]: until when t is refused, None if it is not
  builds,  \* builds[t]: the request that resolves t, None if there is none
  valid,   \* the tokens Gogs accepts
  proven,  \* history: the tokens Gogs has accepted
  denied,  \* history: the tokens Gogs has rejected
  now      \* the clock

request == <<pc, tok, call, result>>
caches  == <<users, order, invalid, builds>>
gogs    == <<valid, proven, denied>>
vars    == <<pc, tok, call, result, users, order, invalid, builds, valid,
             proven, denied, now>>

Goto(r, label) == pc' = [pc EXCEPT ![r] = label]

Cached == {t \in Tokens : users[t] # None}

\* userEntry.element: where the entry of t is in the list.
Element(t) == CHOOSE i \in DOMAIN order : order[i] = t

\* Mutant: an expired entry leaves the map and stays in the list.
ForgetUser(t) ==
  /\ users' = [users EXCEPT ![t] = None]
  /\ UNCHANGED order

\* userCache.remove: the map and the list together.
Forget(t) ==
  /\ users' = [users EXCEPT ![t] = None]
  /\ order' = RemoveAt(order, Element(t))

-----------------------------------------------------------------------------
Arrive(r, t) ==
  /\ pc[r] = "idle"
  /\ tok' = [tok EXCEPT ![r] = t]
  /\ Goto(r, "lookup")
  /\ UNCHANGED <<call, result, caches, gogs, now>>

\* Mutant: a hit starts the entry's time anew.
GetRenews(r, miss) ==
  LET t == tok[r] IN
  \/ /\ t \notin Cached
     /\ Goto(r, miss)
     /\ UNCHANGED <<users, order>>
  \/ /\ t \in Cached /\ now > users[t]
     /\ Forget(t)
     /\ Goto(r, miss)
  \/ /\ t \in Cached /\ now <= users[t]
     /\ order' = <<t>> \o RemoveAt(order, Element(t))
     /\ users' = [users EXCEPT ![t] = now + UserTTL]
     /\ Goto(r, "serve")

\* userCache.get: a hit moves the entry to the front, its time goes on running.
Get(r, miss) ==
  LET t == tok[r] IN
  \/ /\ t \notin Cached
     /\ Goto(r, miss)
     /\ UNCHANGED <<users, order>>
  \/ /\ t \in Cached /\ now > users[t]
     /\ Forget(t)
     /\ Goto(r, miss)
  \/ /\ t \in Cached /\ now <= users[t]
     /\ order' = <<t>> \o RemoveAt(order, Element(t))
     /\ Goto(r, "serve")
     /\ UNCHANGED users

\* withAuthentication looks, and resolve looks again.
Lookup(r) ==
  /\ \/ pc[r] = "lookup" /\ Get(r, "resolve")
     \/ pc[r] = "resolve" /\ Get(r, "negative")
  /\ UNCHANGED <<tok, call, result, invalid, builds, gogs, now>>

CheckInvalid(r) ==
  /\ pc[r] = "negative"
  /\ LET until == invalid[tok[r]] IN
       \/ until # None /\ now <= until /\ Goto(r, "refused") /\ UNCHANGED invalid
       \/ /\ until # None /\ now > until
          /\ invalid' = [invalid EXCEPT ![tok[r]] = None]
          /\ Goto(r, "join")
       \/ until = None /\ Goto(r, "join") /\ UNCHANGED invalid
  /\ UNCHANGED <<tok, call, result, users, order, builds, gogs, now>>

\* Mutant: one build at a time, whosever it is.
JoinAny(r) ==
  /\ pc[r] = "join"
  /\ IF \E t \in Tokens : builds[t] # None
     THEN /\ \E t \in Tokens : builds[t] # None /\ call' = [call EXCEPT ![r] = builds[t]]
          /\ Goto(r, "wait")
          /\ UNCHANGED builds
     ELSE /\ builds' = [builds EXCEPT ![tok[r]] = r]
          /\ Goto(r, "slot")
          /\ UNCHANGED call
  /\ UNCHANGED <<tok, result, users, order, invalid, gogs, now>>

\* Mutant: the build in flight is not looked for.
JoinNever(r) ==
  /\ pc[r] = "join"
  /\ builds' = [builds EXCEPT ![tok[r]] = r]
  /\ Goto(r, "slot")
  /\ UNCHANGED <<tok, call, result, users, order, invalid, gogs, now>>

\* Requests with the same token share one build.
Join(r) ==
  /\ pc[r] = "join"
  /\ \/ /\ builds[tok[r]] # None
        /\ call' = [call EXCEPT ![r] = builds[tok[r]]]
        /\ Goto(r, "wait")
        /\ UNCHANGED builds
     \/ /\ builds[tok[r]] = None
        /\ builds' = [builds EXCEPT ![tok[r]] = r]
        /\ Goto(r, "slot")
        /\ UNCHANGED call
  /\ UNCHANGED <<tok, result, users, order, invalid, gogs, now>>

\* How withAuthentication goes on with what resolve returns.
Ended(r) ==
  CASE result[r] = "ok" -> "serve"
    [] result[r] = "rejected" -> "refused"
    [] OTHER -> "unavailable"

\* Followers learn the outcome when the leader closes done.
Follow(r) ==
  /\ pc[r] = "wait"
  /\ result[r] # "none"
  /\ Goto(r, Ended(r))
  /\ call' = [call EXCEPT ![r] = None]
  /\ result' = [result EXCEPT ![r] = "none"]
  /\ UNCHANGED <<tok, caches, gogs, now>>

-----------------------------------------------------------------------------
\* buildUser, by the request that leads the build.

Probing == {r \in Requests : pc[r] \in {"probe", "accepted", "rejected"}}

TakeSlot(r) ==
  /\ pc[r] = "slot"
  /\ Cardinality(Probing) < Slots
  /\ Goto(r, "probe")
  /\ UNCHANGED <<tok, call, result, caches, gogs, now>>

\* 401 and 403 prove a token bad; anything else proves nothing.
Answer(r) ==
  /\ pc[r] = "probe"
  /\ IF tok[r] \in valid
     THEN Goto(r, "accepted") /\ proven' = proven \cup {tok[r]} /\ UNCHANGED denied
     ELSE Goto(r, "rejected") /\ denied' = denied \cup {tok[r]} /\ UNCHANGED proven
  /\ UNCHANGED <<tok, call, result, caches, valid, now>>

\* Mutant: an unreachable Gogs counts as a rejection.
NoAnswerRejects(r) ==
  /\ pc[r] = "probe"
  /\ Goto(r, "rejected")
  /\ UNCHANGED <<tok, call, result, caches, gogs, now>>

\* Gogs is unreachable, the leader's own client hung up, or the entry could not be
\* built.
NoAnswer(r) ==
  /\ pc[r] \in {"slot", "probe", "accepted"}
  /\ result' = [result EXCEPT ![r] = "unavailable"]
  /\ Goto(r, "leave")
  /\ UNCHANGED <<tok, call, caches, gogs, now>>

\* userCache.put: an entry that is there stays; the least recently used go.
Put(r) ==
  /\ pc[r] = "accepted"
  /\ LET t == tok[r]
         front == <<t>> \o order
         kept == SubSeq(front, 1, IF Len(front) < MaxUsers THEN Len(front) ELSE MaxUsers)
     IN IF t \in Cached
        THEN UNCHANGED <<users, order>>
        ELSE /\ order' = kept
             /\ users' = [u \in Tokens |->
                           IF u \notin ToSet(kept) THEN None
                           ELSE IF u = t THEN now + UserTTL ELSE users[u]]
  /\ result' = [result EXCEPT ![r] = "ok"]
  /\ Goto(r, "leave")
  /\ UNCHANGED <<tok, call, invalid, builds, gogs, now>>

\* invalidTokens.add: a full set is emptied first.
Remembered(t) ==
  LET full == Cardinality({u \in Tokens : invalid[u] # None}) >= MaxInvalid
  IN [u \in Tokens |-> IF u = t THEN now + InvalidTTL
                       ELSE IF full THEN None ELSE invalid[u]]

Reject(r) ==
  /\ pc[r] = "rejected"
  /\ invalid' = Remembered(tok[r])
  /\ result' = [result EXCEPT ![r] = "rejected"]
  /\ Goto(r, "leave")
  /\ UNCHANGED <<tok, call, users, order, builds, gogs, now>>

\* Mutant: the build ends only for its leader.
LeaveQuietly(r) ==
  /\ pc[r] = "leave"
  /\ builds' = [builds EXCEPT ![tok[r]] = None]
  /\ result' = [result EXCEPT ![r] = "none"]
  /\ Goto(r, Ended(r))
  /\ UNCHANGED <<tok, call, users, order, invalid, gogs, now>>

\* resolve's deferred function: the build ends, its followers hear of it.  (The
\* build leaves the map just before; who came in between would lead a new one.)
Leave(r) ==
  /\ pc[r] = "leave"
  /\ builds' = [builds EXCEPT ![tok[r]] = None]
  /\ result' = [q \in Requests |->
                 IF q = r THEN "none"
                 ELSE IF pc[q] = "wait" /\ call[q] = r THEN result[r] ELSE result[q]]
  /\ call' = [q \in Requests |-> IF call[q] = r THEN None ELSE call[q]]
  /\ Goto(r, Ended(r))
  /\ UNCHANGED <<tok, users, order, invalid, gogs, now>>

-----------------------------------------------------------------------------
\* An admitted request calls Gogs; a 401 runs the client's failure handler,
\* which forgets the entry and then remembers the rejection.

ServeOK(r) ==
  /\ pc[r] = "serve"
  /\ Goto(r, "done")
  /\ UNCHANGED <<tok, call, result, caches, gogs, now>>

Serve401(r) ==
  /\ pc[r] = "serve"
  /\ tok[r] \notin valid
  /\ denied' = denied \cup {tok[r]}
  /\ IF tok[r] \in Cached THEN Forget(tok[r]) ELSE UNCHANGED <<users, order>>
  /\ Goto(r, "forgotten")
  /\ UNCHANGED <<tok, call, result, invalid, builds, valid, proven, now>>

AddInvalid(r) ==
  /\ pc[r] = "forgotten"
  /\ invalid' = Remembered(tok[r])
  /\ Goto(r, "done")
  /\ UNCHANGED <<tok, call, result, users, order, builds, gogs, now>>

\* The answer is written, or a follower's client hung up before it.
Respond(r) ==
  /\ pc[r] \in {"done", "refused", "unavailable", "wait"}
  /\ Goto(r, "idle")
  /\ tok' = [tok EXCEPT ![r] = None]
  /\ call' = [call EXCEPT ![r] = None]
  /\ result' = [result EXCEPT ![r] = "none"]
  /\ UNCHANGED <<caches, gogs, now>>

Revoke(t) ==
  /\ t \in valid
  /\ valid' = valid \ {t}
  /\ UNCHANGED <<request, caches, proven, denied, now>>

Tick ==
  /\ now < MaxTime
  /\ now' = now + 1
  /\ UNCHANGED <<request, caches, gogs>>

-----------------------------------------------------------------------------
Init ==
  /\ pc = [r \in Requests |-> "idle"]
  /\ tok = [r \in Requests |-> None]
  /\ call = [r \in Requests |-> None]
  /\ result = [r \in Requests |-> "none"]
  /\ users = [t \in Tokens |-> None]
  /\ order = <<>>
  /\ invalid = [t \in Tokens |-> None]
  /\ builds = [t \in Tokens |-> None]
  /\ valid = Good
  /\ proven = {}
  /\ denied = {}
  /\ now = 0

Step(r) ==
  \/ Lookup(r) \/ CheckInvalid(r) \/ Join(r) \/ Follow(r)
  \/ TakeSlot(r) \/ Answer(r) \/ NoAnswer(r) \/ Put(r) \/ Reject(r) \/ Leave(r)
  \/ ServeOK(r) \/ Serve401(r) \/ AddInvalid(r)
  \/ Respond(r)

Next ==
  \/ \E r \in Requests : Step(r) \/ \E t \in Tokens : Arrive(r, t)
  \/ \E t \in Tokens : Revoke(t)
  \/ Tick

Spec == Init /\ [][Next]_vars
-----------------------------------------------------------------------------
\* Properties.

\* "Concurrent requests with the same token wait for its completion instead of
\* probing Gogs again" (users.go:146), and the semaphore bounds the probes.
ProbesLimited ==
  /\ Cardinality(Probing) <= Slots
  /\ \A r, q \in Probing : tok[r] = tok[q] => r = q

\* Whoever is served brought a token Gogs has accepted, whichever build, cache
\* entry or outcome of another request admitted it (users.go:157).
AdmittedWasProven ==
  \A r \in Requests : pc[r] = "serve" => tok[r] \in proven

\* Nobody is answered 401 unless Gogs itself rejected that token once: a Gogs out
\* of reach leaves the token neither accepted nor rejected (auth.go:97).
RefusedWasDenied ==
  \A r \in Requests : pc[r] = "refused" => tok[r] \in denied

\* The LRU list and the map hold the same entries, each once, and no more than
\* they may (users.go:31): what one forgets the other must not keep alive.
CacheConsistent ==
  /\ ToSet(order) = Cached
  /\ Len(order) = Cardinality(Cached)
  /\ Len(order) <= MaxUsers

\* An entry lives from the probe that proved its token, hits do not extend it
\* (docs/audit-regressions.md:13): its time changes only when the entry goes.
HitsDoNotExtend ==
  [][\A t \in Tokens : t \in Cached /\ t \in Cached' => users'[t] = users[t]]_vars

\* "a token that Gogs has proven invalid is not forwarded to Gogs again until the
\* TTL lapses" (users.go:107).  resolve looks before it joins or leads a build.
ProvenInvalidNotForwarded ==
  [][\A r \in Requests : pc[r] = "slot" /\ pc'[r] = "probe" =>
       invalid[tok[r]] = None \/ now > invalid[tok[r]]]_vars

\* A follower never waits for a build that has ended: some request still leads it,
\* or its outcome is there (users.go:176, 184).
FollowersAreServed ==
  \A r \in Requests : pc[r] = "wait" =>
    \/ result[r] # "none"
    \/ call[r] # None /\ pc[call[r]] \in {"slot", "probe", "accepted", "rejected", "leave"}
                      /\ tok[call[r]] = tok[r]
=============================================================================
