-------------------------- MODULE GogsClientProofs --------------------------
(***************************************************************************)
(* Proofs about GogsClient, for any number of calls, attempts, redirects   *)
(* and repetitions: what a write's caller is told is true.  The invariant  *)
(* WriteOK ties how far the client is to how many copies of the write      *)
(* there are at the server.                                                *)
(***************************************************************************)
EXTENDS GogsClient, TLAPS

\* Every step keeps the types, and a read waits only for an attempt it has.
LEMMA TypePreserved ==
  ASSUME TypeOK, RetryLeft, [Next]_vars
  PROVE  TypeOK' /\ RetryLeft'
<1> USE ClientAssumption DEF TypeOK, RetryLeft, Calls, Answer, client
<1>1. ASSUME NEW c \in Calls, Call(c) PROVE TypeOK' /\ RetryLeft'
  BY <1>1 DEF Call
<1>2. ASSUME NEW c \in Calls, Retry(c) PROVE TypeOK' /\ RetryLeft'
  BY <1>2 DEF Retry
<1>3. ASSUME NEW c \in Calls, Connect(c) PROVE TypeOK' /\ RetryLeft'
  BY <1>3 DEF Connect
<1>4. ASSUME NEW c \in Calls, DialFails(c) PROVE TypeOK' /\ RetryLeft'
  BY <1>4 DEF DialFails, Again
<1>5. ASSUME NEW c \in Calls, HandshakeFails(c) PROVE TypeOK' /\ RetryLeft'
  BY <1>5 DEF HandshakeFails
<1>6. ASSUME NEW c \in Calls, Send(c) PROVE TypeOK' /\ RetryLeft'
  BY <1>6 DEF Send
<1>7. ASSUME NEW c \in Calls, Break(c) PROVE TypeOK' /\ RetryLeft'
  BY <1>7 DEF Break, Again
<1>8. ASSUME NEW c \in Calls, GiveUp(c) PROVE TypeOK' /\ RetryLeft'
  BY <1>8 DEF GiveUp
<1>9. ASSUME NEW c \in Calls, Receive(c) PROVE TypeOK' /\ RetryLeft'
  BY <1>9 DEF Receive, Again
<1>10. ASSUME NEW c \in Calls, Redirect(c) PROVE TypeOK' /\ RetryLeft'
  BY <1>10 DEF Redirect, Again
<1>11. ASSUME NEW c \in Calls, GatewayFails(c) PROVE TypeOK' /\ RetryLeft'
  BY <1>11 DEF GatewayFails, Respond
<1>12. ASSUME NEW c \in Calls, Serve(c) PROVE TypeOK' /\ RetryLeft'
  BY <1>12 DEF Serve, Respond
<1>13. ASSUME NEW c \in Calls, Apply(c) PROVE TypeOK' /\ RetryLeft'
  BY <1>13 DEF Apply, Respond
<1>14. ASSUME NEW c \in Calls, Refuse(c) PROVE TypeOK' /\ RetryLeft'
  BY <1>14 DEF Refuse, Respond
<1>15. CASE UNCHANGED vars
  BY <1>15 DEF vars
<1> QED
  BY <1>1, <1>2, <1>3, <1>4, <1>5, <1>6, <1>7, <1>8, <1>9, <1>10, <1>11, <1>12,
     <1>13, <1>14, <1>15 DEF Next, ClientStep, ServerStep

\* What a step does to one call it does to no other.
LEMMA OthersKept ==
  ASSUME TypeOK, NEW c \in Calls, NEW d \in Calls, c # d,
         Call(c) \/ ClientStep(c) \/ ServerStep(c)
  PROVE  /\ stage'[d] = stage[d] /\ method'[d] = method[d] /\ reply'[d] = reply[d]
         /\ result'[d] = result[d] /\ arrived'[d] = arrived[d] /\ written'[d] = written[d]
<1> USE DEF TypeOK, Answer, Respond, client
<1>1. CASE Call(c)
  BY <1>1 DEF Call
<1>2. CASE Retry(c)
  BY <1>2 DEF Retry
<1>3. CASE Connect(c)
  BY <1>3 DEF Connect
<1>4. CASE DialFails(c)
  BY <1>4 DEF DialFails, Again
<1>5. CASE HandshakeFails(c)
  BY <1>5 DEF HandshakeFails
<1>6. CASE Send(c)
  BY <1>6 DEF Send
<1>7. CASE Break(c)
  BY <1>7 DEF Break, Again
<1>8. CASE GiveUp(c)
  BY <1>8 DEF GiveUp
<1>9. CASE Receive(c)
  BY <1>9 DEF Receive, Again
<1>10. CASE Redirect(c)
  BY <1>10 DEF Redirect, Again
<1>11. CASE GatewayFails(c)
  BY <1>11 DEF GatewayFails
<1>12. CASE Serve(c)
  BY <1>12 DEF Serve
<1>13. CASE Apply(c)
  BY <1>13 DEF Apply
<1>14. CASE Refuse(c)
  BY <1>14 DEF Refuse
<1> QED
  BY <1>1, <1>2, <1>3, <1>4, <1>5, <1>6, <1>7,
     <1>8, <1>9, <1>10, <1>11, <1>12, <1>13, <1>14
  DEF ClientStep, ServerStep

\* A step of a write keeps what is known of it.
LEMMA OwnKept ==
  ASSUME TypeOK, NEW c \in Writes, WriteOK(c),
         Call(c) \/ ClientStep(c) \/ ServerStep(c)
  PROVE  WriteOK(c)'
<1> c \in Calls /\ c \notin Reads
  BY ClientAssumption DEF Calls
<1> USE DEF TypeOK, WriteOK, Definitive, client
<1>1. CASE Call(c)
  BY <1>1 DEF Call
<1>2. CASE Retry(c)
  BY <1>2 DEF Retry
<1>3. CASE Connect(c)
  BY <1>3 DEF Connect
<1>4. CASE DialFails(c)
  BY <1>4 DEF DialFails, Answer
<1>5. CASE HandshakeFails(c)
  BY <1>5 DEF HandshakeFails, Answer
<1>6. CASE Send(c)
  BY <1>6 DEF Send
<1>7. CASE Break(c)
  BY <1>7 DEF Break, Answer
<1>8. CASE GiveUp(c)
  BY <1>8 DEF GiveUp, Answer
<1>9. CASE Receive(c)
  BY <1>9 DEF Receive, MayDecode, Answer
<1>10. CASE Redirect(c)
  BY <1>10 DEF Redirect, Waiting, Answer
<1>11. CASE GatewayFails(c)
  BY <1>11 DEF GatewayFails, Waiting, Respond
<1>12. CASE Serve(c)
  BY <1>12 DEF Serve, Waiting, Respond
<1>13. CASE Apply(c)
  <2>1. arrived[c] = 1 /\ written[c] = 0 /\ arrived'[c] = 0 /\ written'[c] = 1
    <3>1. arrived[c] \in Nat /\ written[c] \in Nat
      OBVIOUS
    <3> QED BY <1>13, <3>1 DEF Apply
  <2>2. /\ stage'[c] = stage[c] /\ method'[c] = method[c] /\ result'[c] = result[c]
        /\ reply'[c] = reply[c] \/ (stage[c] = "wait" /\ reply'[c] \in {"ok", "server"})
    BY <1>13 DEF Apply, Waiting, Respond
  <2> QED BY <2>1, <2>2
<1>14. CASE Refuse(c)
  BY <1>14 DEF Refuse, Waiting, Respond
<1> QED
  BY <1>1, <1>2, <1>3, <1>4, <1>5, <1>6, <1>7,
     <1>8, <1>9, <1>10, <1>11, <1>12, <1>13, <1>14
  DEF ClientStep, ServerStep

\* What is always true of the client and its writes.
ClientInv == TypeOK /\ RetryLeft /\ WritesOK

\* The invariant holds in every state.
LEMMA ClientInvariant == Spec => []ClientInv
<1>1. Init => ClientInv
  BY ClientAssumption DEF Init, ClientInv, TypeOK, RetryLeft, WritesOK, WriteOK, Calls,
     Writes, Definitive
<1>2. ClientInv /\ [Next]_vars => ClientInv'
  <2> SUFFICES ASSUME ClientInv, [Next]_vars PROVE ClientInv'
    OBVIOUS
  <2>1. TypeOK' /\ RetryLeft'
    BY TypePreserved DEF ClientInv
  <2>2. ASSUME NEW d \in Writes PROVE WriteOK(d)'
    <3>1. WriteOK(d) /\ d \in Calls
      BY DEF ClientInv, WritesOK, Calls
    <3>2. CASE UNCHANGED vars
      BY <3>1, <3>2 DEF vars, WriteOK
    <3>3. ASSUME NEW c \in Calls, Call(c) \/ ClientStep(c) \/ ServerStep(c)
          PROVE  WriteOK(d)'
      <4>1. CASE c = d
        BY <3>1, <3>3, <4>1, OwnKept DEF ClientInv
      <4>2. CASE c # d
        <5>1. /\ stage'[d] = stage[d] /\ method'[d] = method[d] /\ reply'[d] = reply[d]
              /\ result'[d] = result[d] /\ arrived'[d] = arrived[d]
              /\ written'[d] = written[d]
          BY <3>1, <3>3, <4>2, OthersKept DEF ClientInv
        <5> QED BY <3>1, <5>1 DEF WriteOK
      <4> QED BY <4>1, <4>2
    <3> QED BY <3>2, <3>3 DEF Next
  <2> QED BY <2>1, <2>2 DEF ClientInv, WritesOK
<1> QED BY <1>1, <1>2, PTL DEF Spec

\* The types and the limits on attempts and redirects hold for every value of the
\* constants.
THEOREM ClientTypeCorrect == Spec => []TypeOK
<1>1. ClientInv => TypeOK
  BY DEF ClientInv
<1> QED BY <1>1, ClientInvariant, PTL

\* A write that is reported as not carried out has not been, and never will be,
\* whatever the network, the gateway and Gogs did (client.go:250, errors.go:67).
THEOREM DefinitiveFailures == Spec => []DefinitiveMeansUnwritten
<1>1. ClientInv => DefinitiveMeansUnwritten
  BY DEF ClientInv, WritesOK, WriteOK, DefinitiveMeansUnwritten
<1> QED BY <1>1, ClientInvariant, PTL

\* A caller that repeats a write only after such a report has it done at most
\* once (client.go:237, issue.go:183).
THEOREM AtMostOnce == Spec => []WrittenAtMostOnce
<1>1. ClientInv => WrittenAtMostOnce
  BY DEF ClientInv, WritesOK, WriteOK, WrittenAtMostOnce
<1> QED BY <1>1, ClientInvariant, PTL

\* A write reported as done that no redirect turned into a read has been done.
THEOREM SuccessfulWrites == Spec => []SuccessIsReal
<1>1. ClientInv => SuccessIsReal
  BY DEF ClientInv, WritesOK, WriteOK, SuccessIsReal
<1> QED BY <1>1, ClientInvariant, PTL
=============================================================================
