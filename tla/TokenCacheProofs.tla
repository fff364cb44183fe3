--------------------------- MODULE TokenCacheProofs ---------------------------
(***************************************************************************)
(* For any requests, tokens and capacities: whoever is served has a token  *)
(* that Gogs accepted, whoever is refused one that Gogs rejected, a token  *)
(* is probed once at a time, and no follower waits for a build that is     *)
(* over.  The invariant ties the map of builds to the requests that lead   *)
(* them, and what is remembered of a token to what Gogs has said of it.    *)
(* The list and the map of the cache hold the same entries.                *)
(***************************************************************************)
EXTENDS TokenCache, FiniteSetTheorems, SequenceTheorems, TLAPS

Leading == {"slot", "probe", "accepted", "rejected", "leave"}

\* The variables the argument needs, as functions; but for the list.
FunctionsInv ==
  /\ DOMAIN pc = Requests
  /\ tok \in [Requests -> Tokens \cup {None}]
  /\ call \in [Requests -> Requests \cup {None}]
  /\ result \in [Requests -> {"none", "ok", "rejected", "unavailable"}]
  /\ DOMAIN users = Tokens
  /\ DOMAIN invalid = Tokens
  /\ builds \in [Tokens -> Requests \cup {None}]

\* A build in the map is led by a request with its token, and every leader's is there.
BuildsInv ==
  /\ \A r \in Requests : pc[r] # "idle" => tok[r] \in Tokens
  /\ \A r \in Requests : pc[r] \in Leading => builds[tok[r]] = r
  /\ \A t \in Tokens : builds[t] # None => pc[builds[t]] \in Leading /\ tok[builds[t]] = t

\* A follower has the outcome, or waits for a leader with its token.
FollowInv ==
  \A r \in Requests :
    /\ pc[r] = "wait" => result[r] # "none" \/ call[r] # None
    /\ call[r] # None => pc[r] = "wait" /\ pc[call[r]] \in Leading /\ tok[call[r]] = tok[r]
    /\ pc[r] = "leave" => result[r] # "none"
    /\ result[r] # "none" => pc[r] \in {"wait", "leave"}

\* What is remembered of a token, or concluded for a request, Gogs has said.
SaidInv ==
  /\ \A t \in Tokens : users[t] # None => t \in proven
  /\ \A t \in Tokens : invalid[t] # None => t \in denied
  /\ \A r \in Requests :
       /\ result[r] = "ok" \/ pc[r] \in {"accepted", "serve"} => tok[r] \in proven
       /\ result[r] = "rejected" \/ pc[r] \in {"rejected", "refused", "forgotten"}
            => tok[r] \in denied

SlotsInv == Cardinality(Probing) <= Slots

TokenInv == FunctionsInv /\ BuildsInv /\ FollowInv /\ SaidInv

-----------------------------------------------------------------------------
\* Forget and Put only take entries away, but for the one that is put.
LEMMA LookupStep ==
  ASSUME TokenInv, NEW r \in Requests, Lookup(r)
  PROVE  TokenInv'
<1>1. /\ \E l \in {"resolve", "negative", "serve"} :
           Goto(r, l) /\ (l = "serve" => users[tok[r]] # None)
      /\ \A t \in Tokens : users'[t] # None => users[t] # None
      /\ DOMAIN users' = Tokens
      /\ pc[r] \in {"lookup", "resolve"}
      /\ UNCHANGED <<tok, call, result, invalid, builds, gogs>>
  BY DEF TokenInv, FunctionsInv, Lookup, Get, Forget, Cached, gogs
<1> QED
  BY <1>1, TokenAssumption
     DEF TokenInv, FunctionsInv, BuildsInv, FollowInv, SaidInv, Goto, Leading, gogs

\* A request that looks among the refused tokens keeps the invariant.
LEMMA NegativeStep ==
  ASSUME TokenInv, NEW r \in Requests, CheckInvalid(r)
  PROVE  TokenInv'
<1>1. /\ \E l \in {"refused", "join"} :
           Goto(r, l) /\ (l = "refused" => invalid[tok[r]] # None)
      /\ \A t \in Tokens : invalid'[t] # None => invalid[t] # None
      /\ DOMAIN invalid' = Tokens
      /\ pc[r] = "negative"
      /\ UNCHANGED <<tok, call, result, users, builds, gogs>>
  BY DEF TokenInv, FunctionsInv, CheckInvalid, gogs
<1> QED
  BY <1>1, TokenAssumption
     DEF TokenInv, FunctionsInv, BuildsInv, FollowInv, SaidInv, Goto, Leading, gogs

\* A request that joins a probe keeps the invariant.
LEMMA JoinStep ==
  ASSUME TokenInv, NEW r \in Requests, Join(r)
  PROVE  TokenInv'
<1> USE TokenAssumption
<1>1. tok[r] \in Tokens /\ pc[r] = "join" /\ result[r] = "none" /\ call[r] = None
  BY DEF TokenInv, BuildsInv, FunctionsInv, FollowInv, Join
<1>2. CASE builds[tok[r]] # None
  BY <1>1, <1>2
     DEF TokenInv, FunctionsInv, BuildsInv, FollowInv, SaidInv, Join, Goto, Leading, gogs,
        caches
<1>3. CASE builds[tok[r]] = None
  BY <1>1, <1>3
     DEF TokenInv, FunctionsInv, BuildsInv, FollowInv, SaidInv, Join, Goto, Leading, gogs,
        caches
<1> QED
  BY <1>2, <1>3

\* Steps of the leader before it leaves, and steps that concern one request alone.
LEMMA BuildStep ==
  ASSUME TokenInv, NEW r \in Requests,
         TakeSlot(r) \/ Answer(r) \/ NoAnswer(r) \/ Put(r) \/ Reject(r)
  PROVE  TokenInv'
<1> USE TokenAssumption
<1>1. CASE TakeSlot(r)
  BY <1>1
     DEF TokenInv, FunctionsInv, BuildsInv, FollowInv, SaidInv, TakeSlot, Goto, Leading,
        gogs, caches
<1>2. CASE Answer(r)
  BY <1>2
     DEF TokenInv, FunctionsInv, BuildsInv, FollowInv, SaidInv, Answer, Goto, Leading, caches
<1>3. CASE NoAnswer(r)
  BY <1>3
     DEF TokenInv, FunctionsInv, BuildsInv, FollowInv, SaidInv, NoAnswer, Goto, Leading,
        gogs, caches
<1>4. CASE Put(r)
  <2>1. /\ \A t \in Tokens : users'[t] # None => users[t] # None \/ t = tok[r]
        /\ DOMAIN users' = Tokens
    BY <1>4 DEF TokenInv, FunctionsInv, Put
  <2> QED
    BY <1>4, <2>1
       DEF TokenInv, FunctionsInv, BuildsInv, FollowInv, SaidInv, Put, Goto, Leading, gogs
<1>5. CASE Reject(r)
  <2>1. /\ \A t \in Tokens : invalid'[t] # None => invalid[t] # None \/ t = tok[r]
        /\ DOMAIN invalid' = Tokens
    BY <1>5 DEF Reject, Remembered
  <2> QED
    BY <1>5, <2>1
       DEF TokenInv, FunctionsInv, BuildsInv, FollowInv, SaidInv, Reject, Goto, Leading, gogs
<1> QED
  BY <1>1, <1>2, <1>3, <1>4, <1>5

\* The outcome reaches those who follow, who have the leader's token.
LEMMA LeaveStep ==
  ASSUME TokenInv, NEW r \in Requests, Leave(r)
  PROVE  TokenInv'
<1> USE TokenAssumption
<1>1. /\ pc[r] = "leave" /\ tok[r] \in Tokens /\ result[r] # "none" /\ call[r] = None
      /\ builds[tok[r]] = r
      /\ Ended(r) \in {"serve", "refused", "unavailable"}
      /\ Ended(r) = "serve" => tok[r] \in proven
      /\ Ended(r) = "refused" => tok[r] \in denied
  BY DEF TokenInv, BuildsInv, FunctionsInv, FollowInv, SaidInv, Leave, Leading, Ended
<1>2. /\ pc' = [pc EXCEPT ![r] = Ended(r)] /\ builds' = [builds EXCEPT ![tok[r]] = None]
      /\ UNCHANGED <<tok, users, invalid, proven, denied>>
  BY DEF Leave, Goto, gogs
<1>3. /\ \A q \in Requests : call'[q] = IF call[q] = r THEN None ELSE call[q]
      /\ \A q \in Requests : result'[q] = IF q = r THEN "none"
                                          ELSE IF call[q] = r THEN result[r] ELSE result[q]
  BY DEF TokenInv, FollowInv, FunctionsInv, Leave
<1>4. FunctionsInv'
  BY <1>1, <1>2 DEF TokenInv, FunctionsInv, Leave
<1>5. BuildsInv'
  BY <1>1, <1>2 DEF TokenInv, FunctionsInv, BuildsInv, Leading
<1>6. FollowInv'
  BY <1>1, <1>2, <1>3 DEF TokenInv, FunctionsInv, BuildsInv, FollowInv, Leading
<1>7. SaidInv'
  BY <1>1, <1>2, <1>3 DEF TokenInv, FunctionsInv, FollowInv, SaidInv
<1> QED
  BY <1>4, <1>5, <1>6, <1>7 DEF TokenInv

\* Every step of a request keeps the invariant.
LEMMA RequestStep ==
  ASSUME TokenInv, NEW r \in Requests,
         \/ Follow(r) \/ ServeOK(r) \/ Serve401(r) \/ AddInvalid(r) \/ Respond(r)
         \/ \E t \in Tokens : Arrive(r, t)
  PROVE  TokenInv'
<1> USE TokenAssumption
<1>1. CASE Follow(r)
  BY <1>1 DEF TokenInv, FunctionsInv, BuildsInv, FollowInv, SaidInv, Follow, Ended, Goto,
              Leading, gogs, caches
<1>2. CASE ServeOK(r)
  BY <1>2
     DEF TokenInv, FunctionsInv, BuildsInv, FollowInv, SaidInv, ServeOK, Goto, Leading,
        gogs, caches
<1>3. CASE Serve401(r)
  <2>1. /\ \A t \in Tokens : users'[t] # None => users[t] # None
        /\ DOMAIN users' = Tokens
    BY <1>3 DEF TokenInv, FunctionsInv, Serve401, Forget
  <2> QED
    BY <1>3, <2>1
       DEF TokenInv, FunctionsInv, BuildsInv, FollowInv, SaidInv, Serve401, Goto, Leading
<1>4. CASE AddInvalid(r)
  <2>1. /\ \A t \in Tokens : invalid'[t] # None => invalid[t] # None \/ t = tok[r]
        /\ DOMAIN invalid' = Tokens
    BY <1>4 DEF AddInvalid, Remembered
  <2> QED
    BY <1>4, <2>1
       DEF TokenInv, FunctionsInv, BuildsInv, FollowInv, SaidInv, AddInvalid, Goto,
          Leading, gogs
<1>5. CASE Respond(r)
  BY <1>5
     DEF TokenInv, FunctionsInv, BuildsInv, FollowInv, SaidInv, Respond, Goto, Leading,
        gogs, caches
<1>6. ASSUME NEW t \in Tokens, Arrive(r, t) PROVE TokenInv'
  BY <1>6
     DEF TokenInv, FunctionsInv, BuildsInv, FollowInv, SaidInv, Arrive, Goto, Leading,
        gogs, caches
<1> QED
  BY <1>1, <1>2, <1>3, <1>4, <1>5, <1>6

\* Every step keeps the invariant.
LEMMA TokenStep == TokenInv /\ [Next]_vars => TokenInv'
<1> SUFFICES ASSUME TokenInv, [Next]_vars PROVE TokenInv'
  OBVIOUS
<1>1. ASSUME NEW r \in Requests, Step(r) \/ \E t \in Tokens : Arrive(r, t) PROVE TokenInv'
  BY <1>1, LookupStep, NegativeStep, JoinStep, BuildStep, LeaveStep, RequestStep DEF Step
<1>2. CASE (\E t \in Tokens : Revoke(t)) \/ Tick \/ UNCHANGED vars
  BY <1>2 DEF TokenInv, FunctionsInv, BuildsInv, FollowInv, SaidInv, Revoke, Tick, vars,
              request, caches, gogs
<1> QED
  BY <1>1, <1>2 DEF Next

\* The invariant of the probes holds in every state.
LEMMA TokenAlways == Spec => []TokenInv
<1>1. Init => TokenInv
  BY TokenAssumption
     DEF Init, TokenInv, FunctionsInv, BuildsInv, FollowInv, SaidInv, Leading
<1> QED
  BY <1>1, TokenStep, PTL DEF Spec

-----------------------------------------------------------------------------
\* Only TakeSlot adds a probe, and only below the limit.
LEMMA SlotsStep == DOMAIN pc = Requests /\ SlotsInv /\ [Next]_vars => SlotsInv'
<1> SUFFICES ASSUME DOMAIN pc = Requests, SlotsInv, [Next]_vars PROVE SlotsInv'
  OBVIOUS
<1>1. IsFiniteSet(Probing) /\ Cardinality(Probing) \in Nat /\ Slots \in Nat
  BY TokenAssumption, FS_Subset, FS_CardinalityType DEF Probing
<1>2. ASSUME NEW r \in Requests, TakeSlot(r) PROVE SlotsInv'
  <2>1. Probing' = Probing \cup {r} /\ r \notin Probing /\ Cardinality(Probing) < Slots
    BY <1>2 DEF TakeSlot, Probing, Goto
  <2>2. Cardinality(Probing \cup {r}) = Cardinality(Probing) + 1
    BY <1>1, <2>1, FS_AddElement, Zenon
  <2> QED
    BY <1>1, <2>1, <2>2 DEF SlotsInv
<1>3. ASSUME ~\E r \in Requests : TakeSlot(r) PROVE SlotsInv'
  <2>1. Probing' \subseteq Probing
    <3>1. ASSUME NEW r \in Requests, Step(r), ~TakeSlot(r) PROVE Probing' \subseteq Probing
      <4>1. /\ \A q \in Requests : q # r => pc'[q] = pc[q]
            /\ pc'[r] \in {"probe", "accepted", "rejected"} => pc[r] = "probe"
        <5> USE DEF Goto
        <5>1. CASE Lookup(r) \/ CheckInvalid(r) \/ Join(r)
          BY <5>1 DEF Lookup, Get, CheckInvalid, Join
        <5>2. CASE Follow(r) \/ Leave(r)
          <6>1. Ended(r) \in {"serve", "refused", "unavailable"}
            BY DEF Ended
          <6> QED
            BY <5>2, <6>1 DEF Follow, Leave
        <5>3. CASE Answer(r) \/ NoAnswer(r) \/ Put(r) \/ Reject(r)
          BY <5>3 DEF Answer, NoAnswer, Put, Reject
        <5>4. CASE ServeOK(r) \/ Serve401(r) \/ AddInvalid(r) \/ Respond(r)
          BY <5>4 DEF ServeOK, Serve401, AddInvalid, Respond
        <5> QED
          BY <3>1, <5>1, <5>2, <5>3, <5>4 DEF Step
      <4> QED
        BY <4>1 DEF Probing
    <3>2. ASSUME NEW r \in Requests, NEW t \in Tokens, Arrive(r, t) PROVE Probing' \subseteq Probing
      BY <3>2 DEF Arrive, Goto, Probing
    <3>3. CASE (\E t \in Tokens : Revoke(t)) \/ Tick \/ UNCHANGED vars
      BY <3>3 DEF Revoke, Tick, vars, request, Probing
    <3> QED
      BY <1>3, <3>1, <3>2, <3>3 DEF Next
  <2>2. Cardinality(Probing') <= Cardinality(Probing) /\ IsFiniteSet(Probing')
    BY <1>1, <2>1, FS_Subset
  <2>3. Cardinality(Probing') \in Nat
    BY <2>2, FS_CardinalityType
  <2> QED
    BY <1>1, <2>2, <2>3 DEF SlotsInv
<1> QED
  BY <1>2, <1>3

\* Gogs is probed by at most Slots requests at once, and for no token by two: the
\* build in the map belongs to one of them (users.go:146).
THEOREM ProbesAreLimited == Spec => []ProbesLimited
<1>1. Init => SlotsInv
  <2> SUFFICES ASSUME Init PROVE SlotsInv
    OBVIOUS
  <2>1. Probing = {}
    BY DEF Init, Probing
  <2> QED
    BY <2>1, FS_EmptySet, TokenAssumption DEF SlotsInv
<1>2. TokenInv => DOMAIN pc = Requests
  BY DEF TokenInv, FunctionsInv
<1>3. TokenInv /\ SlotsInv => ProbesLimited
  BY DEF TokenInv, BuildsInv, FunctionsInv, SlotsInv, ProbesLimited, Probing, Leading
<1> QED
  BY <1>1, <1>2, <1>3, TokenAlways, SlotsStep, PTL DEF Spec

\* Whoever is admitted, by the cache, its own probe or that of another request, has
\* a token Gogs accepted (users.go:157).
THEOREM AdmittedWereProven == Spec => []AdmittedWasProven
<1>1. TokenInv => AdmittedWasProven
  BY DEF TokenInv, SaidInv, AdmittedWasProven
<1> QED
  BY <1>1, TokenAlways, PTL

\* Whoever is answered 401 has a token Gogs rejected, however it heard (auth.go:97).
THEOREM RefusedWereDenied == Spec => []RefusedWasDenied
<1>1. TokenInv => RefusedWasDenied
  BY DEF TokenInv, SaidInv, RefusedWasDenied
<1> QED
  BY <1>1, TokenAlways, PTL

\* A follower has its outcome, or the build it waits for has a leader with its own
\* token (users.go:176).
THEOREM FollowersServed == Spec => []FollowersAreServed
<1>1. TokenInv => FollowersAreServed
  BY DEF TokenInv, FollowInv, FollowersAreServed, Leading
<1> QED
  BY <1>1, TokenAlways, PTL

\* What changes the map while an entry stays leaves the entry's time alone; only
\* put sets one, for a token that has none (users.go:31).
THEOREM TimesAreKept == Spec => HitsDoNotExtend
<1>1. TokenInv /\ [Next]_vars =>
        [\A t \in Tokens : t \in Cached /\ t \in Cached' => users'[t] = users[t]]_vars
  <2> SUFFICES ASSUME TokenInv, Next, NEW t \in Cached, t \in Cached'
               PROVE  users'[t] = users[t]
    OBVIOUS
  <2>1. CASE \E r \in Requests : Lookup(r) \/ Put(r) \/ Serve401(r)
    BY <2>1 DEF TokenInv, FunctionsInv, Lookup, Get, Put, Serve401, Forget, Cached
  <2>2. CASE UNCHANGED users
    BY <2>2
  <2> QED
    BY <2>1, <2>2 DEF Next, Step, Arrive, CheckInvalid, Join, Follow, TakeSlot, Answer,
       NoAnswer,
                      Reject, Leave, ServeOK, AddInvalid, Respond, Revoke, Tick, caches
<1> QED
  BY <1>1, TokenAlways, PTL DEF Spec, HitsDoNotExtend

-----------------------------------------------------------------------------
\* The list of the entries and the map: operations on a list without repetition.

\* A sequence without repetitions, one element of which is taken out.
LEMMA TakenOut ==
  ASSUME NEW S, NEW s \in Seq(S), IsInjective(s), NEW i \in 1..Len(s)
  PROVE  /\ RemoveAt(s, i) \in Seq(S)
         /\ IsInjective(RemoveAt(s, i))
         /\ Len(RemoveAt(s, i)) = Len(s) - 1
         /\ ToSet(RemoveAt(s, i)) = ToSet(s) \ {s[i]}
<1> DEFINE n == Len(s)
<1> DEFINE l == SubSeq(s, 1, i - 1)
<1> DEFINE r == SubSeq(s, i + 1, n)
<1> DEFINE u == l \o r
<1>1. n \in Nat /\ DOMAIN s = 1..n /\ \A j \in 1..n : s[j] \in S
  BY LenProperties, ElementOfSeq
<1>2. i - 1 \in Int /\ i + 1 \in Int /\ i - 1 \in Nat /\ n - i \in Nat
  BY <1>1
<1>3. l \in Seq(S) /\ Len(l) = i - 1 /\ \A j \in 1..(i - 1) : l[j] = s[j]
  <2>1. \A j \in 1..(i - 1) : s[j] \in S
    BY <1>1
  <2>2. /\ l \in Seq(S)
        /\ Len(l) = IF 1 <= i - 1 THEN i - 1 - 1 + 1 ELSE 0
        /\ \A j \in 1..(i - 1 - 1 + 1) : l[j] = s[1 + j - 1]
    BY <1>2, <2>1, SubSeqProperties
  <2> QED BY <1>2, <2>2
<1>4. r \in Seq(S) /\ Len(r) = n - i /\ \A j \in 1..(n - i) : r[j] = s[i + j]
  <2>1. \A j \in (i + 1)..n : s[j] \in S
    BY <1>1, <1>2
  <2>2. /\ r \in Seq(S)
        /\ Len(r) = IF i + 1 <= n THEN n - (i + 1) + 1 ELSE 0
        /\ \A j \in 1..(n - (i + 1) + 1) : r[j] = s[(i + 1) + j - 1]
    BY <1>1, <1>2, <2>1, SubSeqProperties
  <2>3. /\ n - (i + 1) + 1 = n - i /\ (i + 1 <= n <=> n - i # 0)
        /\ \A j \in 1..(n - i) : (i + 1) + j - 1 = i + j
    <3> HIDE DEF n, l, r, u
    <3>1. n \in Int /\ i \in Int
      BY <1>1, <1>2
    <3> QED BY <1>2, <3>1
  <2>4. Len(r) = n - i
    <3> HIDE DEF r, n
    <3> QED BY <1>1, <2>2, <2>3
  <2> HIDE DEF r, n
  <2> QED BY <2>2, <2>3, <2>4
<1>5. /\ u \in Seq(S) /\ Len(u) = n - 1
      /\ \A j \in 1..(n - 1) : u[j] = IF j < i THEN s[j] ELSE s[j + 1]
  <2>1. /\ u \in Seq(S) /\ Len(u) = Len(l) + Len(r)
        /\ \A j \in 1..(Len(l) + Len(r)) : u[j] = IF j <= Len(l) THEN l[j] ELSE r[j - Len(l)]
    <3> HIDE DEF l, r
    <3> QED BY <1>3, <1>4, ConcatProperties
  <2>2. Len(u) = n - 1
    <3> HIDE DEF l, r, u, n
    <3>1. Len(u) = (i - 1) + (n - i)
      BY <1>3, <1>4, <2>1
    <3> QED BY <1>1, <1>2, <3>1
  <2>3. ASSUME NEW j \in 1..(n - 1) PROVE u[j] = IF j < i THEN s[j] ELSE s[j + 1]
    <3> HIDE DEF l, r, u
    <3>1. j \in 1..(Len(l) + Len(r))
      BY <1>1, <1>2, <1>3, <1>4
    <3>2. CASE j < i
      <4>1. j \in 1..(i - 1) /\ j <= Len(l)
        BY <1>2, <1>3, <3>2
      <4> QED BY <1>3, <2>1, <3>1, <3>2, <4>1
    <3>3. CASE ~(j < i)
      <4>1. ~(j <= Len(l)) /\ j - Len(l) \in 1..(n - i) /\ i + (j - Len(l)) = j + 1
        BY <1>1, <1>2, <1>3, <3>3
      <4> QED BY <1>4, <2>1, <3>1, <3>3, <4>1
    <3> QED BY <3>2, <3>3
  <2> QED BY <2>1, <2>2, <2>3
<1>6. u = RemoveAt(s, i)
  BY DEF RemoveAt
<1>7. DOMAIN u = 1..(n - 1)
  BY <1>5, LenProperties
<1> HIDE DEF u, l, r, n
<1>8. ASSUME NEW a \in 1..(n - 1), NEW b \in 1..(n - 1), u[a] = u[b] PROVE a = b
  <2> DEFINE f(j) == IF j < i THEN j ELSE j + 1
  <2>1. f(a) \in 1..n /\ f(b) \in 1..n /\ s[f(a)] = s[f(b)]
    BY <1>1, <1>2, <1>5, <1>8
  <2>2. f(a) = f(b)
    <3> HIDE DEF f
    <3> QED BY <1>1, <2>1 DEF IsInjective
  <2> QED BY <2>2, <1>2
<1>9. IsInjective(u)
  BY <1>7, <1>8 DEF IsInjective
<1>10. ToSet(u) = ToSet(s) \ {s[i]}
  <2>1. ASSUME NEW j \in 1..(n - 1) PROVE \E k \in 1..n : k # i /\ u[j] = s[k]
    <3>1. CASE j < i
      BY <1>1, <1>2, <1>5, <3>1
    <3>2. CASE ~(j < i)
      <4>1. j + 1 \in 1..n /\ j + 1 # i /\ u[j] = s[j + 1]
        BY <1>1, <1>2, <1>5, <3>2
      <4> QED BY <4>1
    <3> QED BY <3>1, <3>2
  <2>2. ASSUME NEW k \in 1..n, k # i PROVE \E j \in 1..(n - 1) : u[j] = s[k]
    <3>1. CASE k < i
      <4>1. k \in 1..(n - 1) /\ u[k] = s[k]
        BY <1>1, <1>2, <1>5, <3>1
      <4> QED BY <4>1
    <3>2. CASE ~(k < i)
      <4>1. k - 1 \in 1..(n - 1) /\ ~(k - 1 < i) /\ (k - 1) + 1 = k
        BY <1>1, <1>2, <2>2, <3>2
      <4>2. u[k - 1] = s[k]
        BY <1>5, <4>1
      <4> QED BY <4>1, <4>2
    <3> QED BY <3>1, <3>2
  <2>3. \A k \in 1..n : s[k] = s[i] => k = i
    BY <1>1 DEF IsInjective, n
  <2>4. ToSet(u) \subseteq ToSet(s) \ {s[i]}
    BY <1>1, <1>7, <2>1, <2>3 DEF ToSet
  <2>5. ToSet(s) \ {s[i]} \subseteq ToSet(u)
    BY <1>1, <1>7, <2>2 DEF ToSet
  <2> QED BY <2>4, <2>5
<1> QED BY <1>5, <1>6, <1>9, <1>10 DEF n

\* A sequence without repetitions, in front of which a new element is put.
LEMMA PutFirst ==
  ASSUME NEW S, NEW s \in Seq(S), IsInjective(s), NEW t \in S \ ToSet(s)
  PROVE  /\ <<t>> \o s \in Seq(S)
         /\ IsInjective(<<t>> \o s)
         /\ Len(<<t>> \o s) = Len(s) + 1
         /\ ToSet(<<t>> \o s) = ToSet(s) \cup {t}
         /\ (<<t>> \o s)[1] = t
<1> DEFINE n == Len(s)
<1> DEFINE u == <<t>> \o s
<1>1. n \in Nat /\ DOMAIN s = 1..n /\ n + 1 \in Nat
  BY LenProperties
<1>2. <<t>> \in Seq(S) /\ Len(<<t>>) = 1 /\ <<t>>[1] = t
  OBVIOUS
<1>3. /\ u \in Seq(S) /\ Len(u) = 1 + n
      /\ \A i \in 1..(1 + n) : u[i] = IF i <= 1 THEN <<t>>[i] ELSE s[i - 1]
  BY <1>2, ConcatProperties
<1>4. DOMAIN u = 1..(1 + n)
  BY <1>3, LenProperties
<1> HIDE DEF u, n
<1>5. /\ u[1] = t
      /\ \A i \in 1..n : u[i + 1] = s[i] /\ i + 1 \in 1..(1 + n)
      /\ \A i \in 1..(1 + n) : i = 1 \/ (i - 1 \in 1..n /\ u[i] = s[i - 1])
  BY <1>1, <1>2, <1>3
<1>6. \A i \in 1..n : s[i] # t
  BY <1>1 DEF ToSet
<1>7. ASSUME NEW a \in 1..(1 + n), NEW b \in 1..(1 + n), u[a] = u[b] PROVE a = b
  <2>1. CASE a = 1 \/ b = 1
    BY <1>5, <1>6, <1>7, <2>1
  <2>2. CASE a # 1 /\ b # 1
    <3>1. a - 1 \in 1..n /\ b - 1 \in 1..n /\ s[a - 1] = s[b - 1]
      BY <1>5, <1>7, <2>2
    <3>2. a - 1 = b - 1
      BY <1>1, <3>1 DEF IsInjective
    <3> QED BY <1>1, <3>2
  <2> QED BY <2>1, <2>2
<1>8. IsInjective(u)
  BY <1>4, <1>7 DEF IsInjective
<1>9. ToSet(u) = ToSet(s) \cup {t}
  <2>1. ToSet(u) \subseteq ToSet(s) \cup {t}
    BY <1>1, <1>4, <1>5 DEF ToSet
  <2>2. ToSet(s) \subseteq ToSet(u)
    <3>1. ASSUME NEW i \in 1..n PROVE s[i] \in ToSet(u)
      <4>1. u[i + 1] = s[i] /\ i + 1 \in DOMAIN u
        BY <1>4, <1>5
      <4> QED BY <4>1 DEF ToSet
    <3> QED BY <1>1, <3>1 DEF ToSet
  <2>3. t \in ToSet(u)
    <3>1. 1 \in 1..(1 + n)
      BY <1>1
    <3> QED BY <1>4, <1>5, <3>1 DEF ToSet
  <2> QED BY <2>1, <2>2, <2>3
<1> QED BY <1>1, <1>3, <1>5, <1>8, <1>9 DEF u, n

\* A sequence without repetitions, of which only the first elements are kept.
LEMMA CutShort ==
  ASSUME NEW S, NEW s \in Seq(S), IsInjective(s), NEW m \in 1..Len(s)
  PROVE  /\ SubSeq(s, 1, m) \in Seq(S)
         /\ IsInjective(SubSeq(s, 1, m))
         /\ Len(SubSeq(s, 1, m)) = m
         /\ ToSet(SubSeq(s, 1, m)) \subseteq ToSet(s)
         /\ s[1] \in ToSet(SubSeq(s, 1, m))
<1> DEFINE n == Len(s)
<1> DEFINE u == SubSeq(s, 1, m)
<1>1. n \in Nat /\ DOMAIN s = 1..n /\ \A j \in 1..n : s[j] \in S
  BY LenProperties, ElementOfSeq
<1>2. m \in Int /\ 1 <= m /\ m <= n
  BY <1>1
<1>3. u \in Seq(S) /\ Len(u) = m /\ \A j \in 1..m : u[j] = s[j]
  <2>1. \A j \in 1..m : s[j] \in S
    BY <1>1, <1>2
  <2>2. /\ u \in Seq(S)
        /\ Len(u) = IF 1 <= m THEN m - 1 + 1 ELSE 0
        /\ \A j \in 1..(m - 1 + 1) : u[j] = s[1 + j - 1]
    BY <1>2, <2>1, SubSeqProperties
  <2> QED BY <1>2, <2>2
<1>4. DOMAIN u = 1..m
  BY <1>3, LenProperties
<1> HIDE DEF u, n
<1>5. 1 \in 1..m /\ 1..m \subseteq 1..n
  BY <1>1, <1>2
<1> QED BY <1>1, <1>3, <1>4, <1>5 DEF IsInjective, ToSet, u

\* The list holds the tokens of the entries, each once.
OrderInv ==
  /\ now \in Nat
  /\ DOMAIN users = Tokens
  /\ order \in Seq(Tokens) /\ IsInjective(order)
  /\ ToSet(order) = Cached
  /\ Len(order) <= MaxUsers

\* An entry that is cached has its element in the list.
LEMMA ElementIs ==
  ASSUME OrderInv, NEW t \in Cached
  PROVE  Element(t) \in 1..Len(order) /\ order[Element(t)] = t
<1>1. DOMAIN order = 1..Len(order)
  BY LenProperties DEF OrderInv
<1>2. \E i \in DOMAIN order : order[i] = t
  BY DEF OrderInv, ToSet
<1>3. Element(t) \in DOMAIN order /\ order[Element(t)] = t
  BY <1>2, Zenon DEF Element
<1> QED BY <1>1, <1>3

\* The list and the map lose an entry together.
LEMMA ForgetKeeps ==
  ASSUME OrderInv, NEW t \in Cached, Forget(t), now' \in Nat
  PROVE  OrderInv'
<1> DEFINE u == RemoveAt(order, Element(t))
<1>1. /\ u \in Seq(Tokens) /\ IsInjective(u) /\ Len(u) = Len(order) - 1
      /\ ToSet(u) = ToSet(order) \ {t}
  BY ElementIs, TakenOut DEF OrderInv
<1>2. order' = u /\ users' = [users EXCEPT ![t] = None]
  BY DEF Forget
<1> HIDE DEF u
<1>3. DOMAIN users' = Tokens /\ Cached' = Cached \ {t}
  BY <1>2 DEF Cached, OrderInv
<1>4. Len(order) \in Nat
  BY LenProperties DEF OrderInv
<1>5. Len(u) <= MaxUsers
  BY <1>1, <1>4, TokenAssumption DEF OrderInv
<1> QED BY <1>1, <1>2, <1>3, <1>5 DEF OrderInv

\* A hit only moves the entry to the front.
LEMMA GetKeeps ==
  ASSUME OrderInv, TokenInv, NEW r \in Requests, Lookup(r)
  PROVE  OrderInv'
<1> DEFINE t == tok[r]
<1>1. now' = now /\ now' \in Nat
  BY DEF Lookup, OrderInv
<1>2. CASE UNCHANGED <<users, order>>
  BY <1>1, <1>2 DEF OrderInv, Cached
<1>3. CASE t \in Cached /\ Forget(t)
  BY <1>1, <1>3, ForgetKeeps
<1>4. CASE t \in Cached /\ order' = <<t>> \o RemoveAt(order, Element(t)) /\ users' = users
  <2> DEFINE u == RemoveAt(order, Element(t))
  <2>1. /\ u \in Seq(Tokens) /\ IsInjective(u) /\ Len(u) = Len(order) - 1
        /\ ToSet(u) = ToSet(order) \ {t}
    <3> HIDE DEF t
    <3>1. Element(t) \in 1..Len(order) /\ order[Element(t)] = t
      BY <1>4, ElementIs
    <3> QED BY <3>1, TakenOut DEF OrderInv
  <2>2. order' = <<t>> \o u
    BY <1>4
  <2>3. Len(order) \in Nat
    BY LenProperties DEF OrderInv
  <2> HIDE DEF u
  <2>4. /\ order' \in Seq(Tokens) /\ IsInjective(order') /\ Len(order') = Len(u) + 1
        /\ ToSet(order') = ToSet(u) \cup {t}
    <3>1. t \in Tokens \ ToSet(u)
      BY <1>4, <2>1 DEF Cached
    <3> QED BY <2>1, <2>2, <3>1, PutFirst
  <2>5. Len(order') = Len(order) /\ ToSet(order') = ToSet(order)
    <3>1. t \in ToSet(order)
      BY <1>4 DEF OrderInv
    <3> HIDE DEF t
    <3>2. ToSet(order') = ToSet(order)
      BY <2>1, <2>4, <3>1
    <3> QED BY <2>1, <2>3, <2>4, <3>2
  <2>6. Cached' = Cached
    BY <1>4 DEF Cached
  <2> QED BY <1>1, <1>4, <2>4, <2>5, <2>6 DEF OrderInv
<1> QED BY <1>2, <1>3, <1>4 DEF Lookup, Get

\* put takes the least recently used entries from the list and from the map.
LEMMA PutKeeps ==
  ASSUME OrderInv, TokenInv, NEW r \in Requests, Put(r)
  PROVE  OrderInv'
<1> DEFINE t == tok[r]
<1> DEFINE front == <<t>> \o order
<1> DEFINE m == IF Len(front) < MaxUsers THEN Len(front) ELSE MaxUsers
<1> DEFINE kept == SubSeq(front, 1, m)
<1>1. t \in Tokens /\ now' = now /\ now \in Nat
  BY DEF Put, TokenInv, BuildsInv, OrderInv
<1>2. CASE UNCHANGED <<users, order>>
  BY <1>1, <1>2 DEF OrderInv, Cached
<1>3. CASE t \notin Cached /\ order' = kept
           /\ users' = [u \in Tokens |->
                         IF u \notin ToSet(kept) THEN None
                         ELSE IF u = t THEN now + UserTTL ELSE users[u]]
  <2>1. t \in Tokens \ ToSet(order) /\ Len(order) \in Nat
    BY <1>1, <1>3, LenProperties DEF OrderInv
  <2>2. /\ front \in Seq(Tokens) /\ IsInjective(front) /\ Len(front) = Len(order) + 1
        /\ ToSet(front) = ToSet(order) \cup {t} /\ front[1] = t
    BY <2>1, PutFirst DEF OrderInv
  <2>3. m \in 1..Len(front) /\ m <= MaxUsers
    <3> HIDE DEF front
    <3> QED BY <2>1, <2>2, TokenAssumption
  <2>4. /\ kept \in Seq(Tokens) /\ IsInjective(kept) /\ Len(kept) = m
        /\ ToSet(kept) \subseteq ToSet(front) /\ front[1] \in ToSet(kept)
    <3> HIDE DEF front, m
    <3> QED BY <2>2, <2>3, CutShort
  <2> HIDE DEF kept, m, front
  <2>5. now + UserTTL # None
    <3>1. now + UserTTL \in Nat
      BY <1>1, TokenAssumption
    <3> QED BY <3>1, TokenAssumption
  <2>6. Cached' = ToSet(kept)
    <3>1. \A u \in ToSet(kept) : u = t \/ u \in Cached
      BY <2>2, <2>4 DEF OrderInv
    <3>2. \A u \in Tokens : users'[u] # None <=> u \in ToSet(kept)
      BY <1>3, <2>5, <3>1 DEF Cached
    <3>3. ToSet(kept) \subseteq Tokens
      BY <1>1, <3>1 DEF Cached
    <3> QED BY <3>2, <3>3 DEF Cached
  <2>7. DOMAIN users' = Tokens
    BY <1>3
  <2> QED BY <1>1, <1>3, <2>3, <2>4, <2>6, <2>7 DEF OrderInv
<1> QED BY <1>2, <1>3 DEF Put

\* Every step keeps the order and the entries in step.
LEMMA OrderStep == TokenInv /\ OrderInv /\ [Next]_vars => OrderInv'
<1> SUFFICES ASSUME TokenInv, OrderInv, [Next]_vars PROVE OrderInv'
  OBVIOUS
<1>1. CASE \E r \in Requests : Lookup(r)
  BY <1>1, GetKeeps
<1>2. CASE \E r \in Requests : Put(r)
  BY <1>2, PutKeeps
<1>3. CASE \E r \in Requests : Serve401(r)
  <2>1. PICK r \in Requests : Serve401(r)
    BY <1>3
  <2>2. now' \in Nat
    BY <2>1 DEF Serve401, OrderInv
  <2>3. CASE tok[r] \in Cached
    BY <2>1, <2>2, <2>3, ForgetKeeps DEF Serve401
  <2>4. CASE tok[r] \notin Cached
    BY <2>1, <2>4 DEF Serve401, OrderInv, Cached
  <2> QED BY <2>3, <2>4
<1>4. CASE UNCHANGED <<users, order>> /\ now' \in {now, now + 1}
  <2>1. now' \in Nat
    BY <1>4 DEF OrderInv
  <2> QED BY <1>4, <2>1 DEF OrderInv, Cached
<1> QED
  BY <1>1, <1>2, <1>3, <1>4
     DEF Next, Step, Arrive, CheckInvalid, Join, Follow, TakeSlot, Answer, NoAnswer,
        Reject, Leave,
         ServeOK, AddInvalid, Respond, Revoke, Tick, caches, vars

\* The LRU list and the map hold the same entries, each once, and no more than
\* they may, whatever expires, is evicted or is forgotten (users.go:31).
THEOREM CacheIsConsistent == Spec => []CacheConsistent
<1>1. Init => OrderInv
  <2> SUFFICES ASSUME Init PROVE OrderInv
    OBVIOUS
  <2>1. /\ order = <<>> /\ DOMAIN users = Tokens /\ \A t \in Tokens : users[t] = None
        /\ now = 0
    BY DEF Init
  <2>2. /\ order \in Seq(Tokens) /\ Len(order) = 0 /\ DOMAIN order = {}
    BY <2>1
  <2>3. IsInjective(order) /\ ToSet(order) = {}
    BY <2>2 DEF IsInjective, ToSet
  <2>4. Cached = {}
    BY <2>1 DEF Cached
  <2> QED BY <2>1, <2>2, <2>3, <2>4, TokenAssumption DEF OrderInv
<1>2. OrderInv => CacheConsistent
  <2> SUFFICES ASSUME OrderInv PROVE CacheConsistent
    OBVIOUS
  <2>1. Len(order) \in Nat /\ DOMAIN order = 1..Len(order) /\ order \in [1..Len(order) -> Tokens]
    BY LenProperties DEF OrderInv
  <2>2. order \in Bijection(1..Len(order), Cached)
    <3>1. order \in [1..Len(order) -> Cached] /\ \A t \in Cached : \E i \in 1..Len(order) : order[i] = t
      BY <2>1 DEF OrderInv, ToSet
    <3> QED BY <3>1 DEF OrderInv, Bijection, Injection, Surjection
  <2>3. IsFiniteSet(1..Len(order)) /\ Cardinality(1..Len(order)) = Len(order)
    BY <2>1, FS_Interval
  <2>4. Cardinality(Cached) = Len(order)
    <3>1. ExistsBijection(1..Len(order), Cached)
      BY <2>2, Zenon DEF ExistsBijection
    <3> QED BY <2>3, <3>1, FS_Bijection
  <2> QED BY <2>4 DEF OrderInv, CacheConsistent
<1> QED
  BY <1>1, <1>2, TokenAlways, OrderStep, PTL DEF Spec
=============================================================================
