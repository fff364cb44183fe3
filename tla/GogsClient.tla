----------------------------- MODULE GogsClient -----------------------------
(***************************************************************************)
(* One Gogs API call of the client (internal/gogs/client.go, errors.go)    *)
(* against a server and a gateway that fail at every step: what a write    *)
(* may be told, and what the server has done with it by then or does later.*)
(*                                                                         *)
(* A call is a thing its caller wants done once: an issue or a comment to  *)
(* create (POST), an issue to update (PATCH) or something to read (GET).   *)
(* The caller takes the error codes at their word: it repeats a call that  *)
(* was definitely not carried out, and checks first when the outcome is    *)
(* unknown (issue.go:183).                                                 *)
(*                                                                         *)
(* External (the HTTP stack, the gateway, Gogs), from how the client uses  *)
(* them: net/http follows 301, 302 and 303 with a GET and 307 and 308 with *)
(* the same method and body; a gateway that redirects does not pass the    *)
(* request on; Gogs answers 4xx only when it has not written.              *)
(***************************************************************************)
EXTENDS Naturals

CONSTANTS
  Creates,      \* POST calls
  Updates,      \* PATCH calls
  Reads,        \* GET calls
  MaxAttempts,  \* attempts of a read: 3 in the code
  MaxHops,      \* redirects followed: 9 in the code
  MaxCalls      \* bound: how often the caller makes the same call

Writes == Creates \cup Updates
Calls  == Writes \cup Reads

ASSUME ClientAssumption ==
  /\ MaxAttempts \in Nat \ {0} /\ MaxHops \in Nat /\ MaxCalls \in Nat \ {0}
  /\ Creates \cap Updates = {} /\ Writes \cap Reads = {}

VARIABLES
  stage,    \* stage[c]: how far the client is with c
  method,   \* method[c]: what it is sending, "write" or "get"
  hops,     \* hops[c]: redirects followed in this attempt
  attempt,  \* attempt[c]: number of this attempt
  made,     \* made[c]: how often the caller has made the call
  reply,    \* reply[c]: the response on its way to the client
  result,   \* result[c]: what the caller was told
  arrived,  \* arrived[c]: copies of the write that Gogs has yet to handle
  written   \* written[c]: how often Gogs has carried the write out

client == <<stage, method, hops, attempt, made, result>>
vars   == <<stage, method, hops, attempt, made, reply, result, arrived, written>>

\* What tells the caller that nothing was written.
Definitive == {"unsent", "rejected"}

-----------------------------------------------------------------------------
\* The client.

\* The answer is r; whatever is still on its way is not read.
Answer(c, r) ==
  /\ stage' = [stage EXCEPT ![c] = "done"]
  /\ result' = [result EXCEPT ![c] = r]
  /\ reply' = [reply EXCEPT ![c] = "none"]
  /\ UNCHANGED <<method, hops, attempt, made>>

\* Mutant: the attempts are never counted.
AgainAlways(c, r) ==
  /\ stage' = [stage EXCEPT ![c] = "pause"]
  /\ reply' = [reply EXCEPT ![c] = "none"]
  /\ attempt' = [attempt EXCEPT ![c] = 0]
  /\ UNCHANGED <<method, hops, made, result>>

\* Mutant: the last attempt is not the last.
AgainOnceMore(c, r) ==
  IF attempt[c] <= MaxAttempts
  THEN /\ stage' = [stage EXCEPT ![c] = "pause"]
       /\ reply' = [reply EXCEPT ![c] = "none"]
       /\ UNCHANGED <<method, hops, attempt, made, result>>
  ELSE Answer(c, r)

\* A read that met a transient failure is tried again, up to MaxAttempts.
Again(c, r) ==
  IF attempt[c] < MaxAttempts
  THEN /\ stage' = [stage EXCEPT ![c] = "pause"]
       /\ reply' = [reply EXCEPT ![c] = "none"]
       /\ UNCHANGED <<method, hops, attempt, made, result>>
  ELSE Answer(c, r)

Call(c) ==
  /\ \/ stage[c] = "idle"
     \/ stage[c] = "done" /\ result[c] \in Definitive
  /\ made[c] < MaxCalls
  /\ made' = [made EXCEPT ![c] = @ + 1]
  /\ stage' = [stage EXCEPT ![c] = "dial"]
  /\ method' = [method EXCEPT ![c] = IF c \in Writes THEN "write" ELSE "get"]
  /\ hops' = [hops EXCEPT ![c] = 0]
  /\ attempt' = [attempt EXCEPT ![c] = 1]
  /\ result' = [result EXCEPT ![c] = "none"]
  /\ UNCHANGED <<reply, arrived, written>>

\* waitForRetry has waited.
Retry(c) ==
  /\ stage[c] = "pause"
  /\ stage' = [stage EXCEPT ![c] = "dial"]
  /\ hops' = [hops EXCEPT ![c] = 0]
  /\ attempt' = [attempt EXCEPT ![c] = @ + 1]
  /\ UNCHANGED <<method, made, reply, result, arrived, written>>

Connect(c) ==
  /\ stage[c] = "dial"
  /\ stage' = [stage EXCEPT ![c] = "handshake"]
  /\ UNCHANGED <<method, hops, attempt, made, reply, result, arrived, written>>

\* The request never left: a write's caller is told so.
DialFails(c) ==
  /\ stage[c] = "dial"
  /\ IF c \in Writes THEN Answer(c, "unsent") ELSE Again(c, "failed")
  /\ UNCHANGED <<arrived, written>>

\* A certificate that does not verify: TLS_ERROR, which no read retries.
HandshakeFails(c) ==
  /\ stage[c] = "handshake"
  /\ Answer(c, IF c \in Writes THEN "unsent" ELSE "failed")
  /\ UNCHANGED <<arrived, written>>

\* The request goes out, whole or in part; Gogs may or may not get it.
Send(c) ==
  /\ stage[c] = "handshake"
  /\ stage' = [stage EXCEPT ![c] = "wait"]
  /\ \/ arrived' = [arrived EXCEPT ![c] = IF method[c] = "write" THEN @ + 1 ELSE @]
     \/ UNCHANGED arrived
  /\ UNCHANGED <<method, hops, attempt, made, reply, result, written>>

\* Mutant: a write's broken connection is classified like a read's.
BreakUnavailable(c) ==
  /\ stage[c] \in {"handshake", "wait"}
  /\ IF c \in Writes THEN Answer(c, "unsent") ELSE Again(c, "failed")
  /\ UNCHANGED <<arrived, written>>

\* The connection breaks, with or without an answer on it.
Break(c) ==
  /\ stage[c] \in {"handshake", "wait"}
  /\ IF c \in Writes THEN Answer(c, "unknown") ELSE Again(c, "failed")
  /\ UNCHANGED <<arrived, written>>

\* The timeout of http.Client, or the end of the tool call's context.  Only a
\* read's pause can be cut short too.
GiveUp(c) ==
  /\ stage[c] \in {"dial", "handshake", "wait", "pause"}
  /\ Answer(c, IF c \in Writes THEN "unknown" ELSE "failed")
  /\ UNCHANGED <<arrived, written>>

\* Does the body decode into what the call expects?  After a redirected POST it
\* is the list that a GET of the same path returns.
MayDecode(c) == c \notin Creates \/ method[c] = "write"

\* Mutant: a write takes 502, 503 and 504 as a read does.
ReceiveRetries(c) ==
  /\ stage[c] = "wait"
  /\ \/ reply[c] = "ok" /\ MayDecode(c) /\ Answer(c, "ok")
     \/ reply[c] = "ok" /\ Answer(c, IF c \in Writes THEN "unknown" ELSE "failed")
     \/ reply[c] = "client" /\ Answer(c, "rejected")
     \/ reply[c] = "gateway" /\ Again(c, IF c \in Writes THEN "unknown" ELSE "failed")
     \/ reply[c] = "server" /\ Answer(c, IF c \in Writes THEN "unknown" ELSE "failed")
  /\ UNCHANGED <<arrived, written>>

\* Mutant: any answer but a rejection is success.
ReceiveLenient(c) ==
  /\ stage[c] = "wait"
  /\ \/ reply[c] \in {"ok", "server", "gateway"} /\ Answer(c, "ok")
     \/ reply[c] = "client" /\ Answer(c, "rejected")
  /\ UNCHANGED <<arrived, written>>

\* Status and body.  4xx is a definitive rejection even when the body cannot be
\* read; 502, 503 and 504 ("gateway") are transient for a read.
Receive(c) ==
  /\ stage[c] = "wait"
  /\ \/ reply[c] = "ok" /\ MayDecode(c) /\ Answer(c, "ok")
     \/ reply[c] = "ok" /\ Answer(c, IF c \in Writes THEN "unknown" ELSE "failed")
     \/ reply[c] = "client" /\ Answer(c, "rejected")
     \/ reply[c] = "gateway" /\ c \in Reads /\ Again(c, "failed")
     \/ reply[c] \in {"server", "gateway"} /\ c \in Writes /\ Answer(c, "unknown")
     \/ reply[c] = "server" /\ c \in Reads /\ Answer(c, "failed")
  /\ UNCHANGED <<arrived, written>>

-----------------------------------------------------------------------------
\* The gateway and Gogs.

Waiting(c) == stage[c] = "wait" /\ reply[c] = "none"

\* A response reaches the client if it still waits for one.
Respond(c, r) == reply' = [reply EXCEPT ![c] = IF Waiting(c) THEN r ELSE @]

\* The gateway turns the request away to another place, and net/http follows:
\* with what it sent (307, 308) or with a GET.  CheckRedirect sets the limit,
\* and what it returns is a transport error.
Redirect(c) ==
  /\ Waiting(c)
  /\ method[c] = "write" => arrived[c] > 0
  /\ arrived' = [arrived EXCEPT ![c] = IF method[c] = "write" THEN @ - 1 ELSE @]
  /\ IF hops[c] = MaxHops
     THEN IF c \in Writes THEN Answer(c, "unknown") ELSE Again(c, "failed")
     ELSE /\ \E m \in {method[c], "get"} : method' = [method EXCEPT ![c] = m]
          /\ hops' = [hops EXCEPT ![c] = @ + 1]
          /\ stage' = [stage EXCEPT ![c] = "dial"]
          /\ UNCHANGED <<attempt, made, reply, result>>
  /\ UNCHANGED written

\* The gateway waits for Gogs no longer, or cannot reach it.
GatewayFails(c) ==
  /\ Waiting(c)
  /\ Respond(c, "gateway")
  /\ UNCHANGED <<client, arrived, written>>

Serve(c) ==
  /\ Waiting(c) /\ method[c] = "get"
  /\ \E r \in {"ok", "client", "server"} : Respond(c, r)
  /\ UNCHANGED <<client, arrived, written>>

\* Gogs carries a write out, whoever still waits for it, and says so or breaks.
Apply(c) ==
  /\ arrived[c] > 0
  /\ arrived' = [arrived EXCEPT ![c] = @ - 1]
  /\ written' = [written EXCEPT ![c] = @ + 1]
  /\ \E r \in {"ok", "server"} : Respond(c, r)
  /\ UNCHANGED client

\* Or it does not: it refuses the write, or breaks before it.
Refuse(c) ==
  /\ arrived[c] > 0
  /\ arrived' = [arrived EXCEPT ![c] = @ - 1]
  /\ \E r \in {"client", "server"} : Respond(c, r)
  /\ UNCHANGED <<client, written>>

-----------------------------------------------------------------------------
Init ==
  /\ stage = [c \in Calls |-> "idle"]
  /\ method = [c \in Calls |-> "get"]
  /\ hops = [c \in Calls |-> 0]
  /\ attempt = [c \in Calls |-> 0]
  /\ made = [c \in Calls |-> 0]
  /\ reply = [c \in Calls |-> "none"]
  /\ result = [c \in Calls |-> "none"]
  /\ arrived = [c \in Calls |-> 0]
  /\ written = [c \in Calls |-> 0]

ClientStep(c) ==
  \/ Retry(c) \/ Connect(c) \/ DialFails(c) \/ HandshakeFails(c) \/ Send(c)
  \/ Break(c) \/ GiveUp(c) \/ Receive(c)

ServerStep(c) ==
  Redirect(c) \/ GatewayFails(c) \/ Serve(c) \/ Apply(c) \/ Refuse(c)

Next == \E c \in Calls : Call(c) \/ ClientStep(c) \/ ServerStep(c)

Spec == Init /\ [][Next]_vars

\* The client's goroutine runs, and http.Client's timeout ends every wait; the
\* server owes nothing.
FairSpec == Spec /\ \A c \in Calls : WF_vars(ClientStep(c))

-----------------------------------------------------------------------------
\* Properties.

\* The types of the variables: no read is attempted more often, and no redirect
\* followed further, than the client means to.
TypeOK ==
  /\ stage \in [Calls -> {"idle", "dial", "handshake", "wait", "pause", "done"}]
  /\ method \in [Calls -> {"write", "get"}]
  /\ hops \in [Calls -> 0..MaxHops]
  /\ attempt \in [Calls -> 0..MaxAttempts]
  /\ made \in [Calls -> 0..MaxCalls]
  /\ reply \in [Calls -> {"none", "ok", "client", "server", "gateway"}]
  /\ result \in [Calls -> {"none", "ok", "unsent", "rejected", "unknown", "failed"}]
  /\ arrived \in [Calls -> Nat]
  /\ written \in [Calls -> Nat]

\* A definitive failure is one: nothing was written and nothing of the request
\* is left that could still be written (client.go:250, errors.go:67).
DefinitiveMeansUnwritten ==
  \A c \in Writes :
    stage[c] = "done" /\ result[c] \in Definitive => written[c] = 0 /\ arrived[c] = 0

\* A caller that repeats only after definitive failures gets its write at most
\* once, whatever is lost, late or redirected (client.go:237).
WrittenAtMostOnce == \A c \in Writes : written[c] + arrived[c] <= 1

\* A write that was not turned into a read on its way and is reported as done
\* has been done.
SuccessIsReal ==
  \A c \in Writes : result[c] = "ok" /\ method[c] = "write" => written[c] = 1

\* What the proofs of the above rest on (GogsClientProofs).

RetryLeft == \A c \in Calls : stage[c] = "pause" => attempt[c] < MaxAttempts

\* Until a request is out nothing of the write exists, then at most one copy of it
\* does, and what a response says of it is so.
WriteOK(c) ==
  /\ stage[c] # "pause"
  /\ stage[c] # "wait" => reply[c] = "none"
  /\ stage[c] # "idle" /\ stage[c] # "done" => result[c] = "none"
  /\ \/ stage[c] \in {"idle", "dial", "handshake"}
     \/ stage[c] = "done" /\ result[c] \in Definitive
     \/ stage[c] = "wait" /\ (method[c] = "get" \/ reply[c] = "client")
     => arrived[c] = 0 /\ written[c] = 0
  /\ stage[c] = "idle" => result[c] = "none"
  /\ written[c] + arrived[c] <= 1
  /\ method[c] = "write" /\ (reply[c] = "ok" \/ result[c] = "ok") => written[c] = 1

WritesOK == \A c \in Writes : WriteOK(c)

\* "every failure is classified as either a definitive rejection or
\* WRITE_OUTCOME_UNKNOWN" (client.go:250): what is not classified as a failure
\* has been written.
SuccessMeansWritten == \A c \in Writes : result[c] = "ok" => written[c] = 1

\* Every call is answered, however often it is redirected or tried.
CallsAnswered ==
  \A c \in Calls : stage[c] \notin {"idle", "done"} ~> stage[c] = "done"
=============================================================================
