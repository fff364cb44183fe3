------------------------------ MODULE ToolCalls ------------------------------
(***************************************************************************)
(* The calls of tools in one server process (mcpserver/budget.go,            *)
(* mcpserver/search.go, gogs/pull.go), in front of the disk cache of        *)
(* UserCache.  Every call waits for one of the tool slots of the process;   *)
(* search_code then waits for the lock of identityCache, and the pull       *)
(* request tools for pullMu, behind which the first of them asks Gogs who   *)
(* the user is; with slot and identity they go to the cache, where they     *)
(* meet each other and the cache clean of other processes.                  *)
(*                                                                         *)
(* A request p of UserCache is a call or a cache clean; a call whose tool   *)
(* has no use for the cache is one of Others, and may be another user's.    *)
(* That a deadline has passed, or that the caller has gone away, may turn   *)
(* out wherever the code looks at the context.  A request to Gogs ends by   *)
(* itself, because the client has a timeout (GogsClient).                   *)
(***************************************************************************)
EXTENDS UserCache, Naturals

CONSTANTS
  Others,    \* calls that do not use the cache
  Slots      \* capacity of toolSlots: 8 in the code

Calls == Procs \cup Others

ASSUME CallsAssumption ==
  /\ Others \cap Procs = {} /\ None \notin Calls
  /\ Slots \in Nat \ {0}

VARIABLES
  call,     \* call[c]: how far call c is
  tool,     \* tool[c]: "search", "pull" or "other"
  slots,    \* the calls that hold a slot
  holder,   \* holder[t]: who holds the lock of the identity of t
  known     \* the tools whose identity has been loaded

callVars == <<call, tool, slots, holder, known>>
toolVars == <<vars, callVars>>

-----------------------------------------------------------------------------
\* toolBudget.

Begin(c) ==
  /\ call[c] = "none" /\ (c \in Procs => pc[c] = "idle")
  /\ call' = [call EXCEPT ![c] = "queued"]
  /\ tool' \in {[tool EXCEPT ![c] = t] : t \in IF c \in Others THEN {"other"} ELSE {"search", "pull"}}
  /\ UNCHANGED <<vars, slots, holder, known>>

\* A slot is granted, also to a call whose context is done: select picks either.
Admit(c) ==
  /\ call[c] = "queued" /\ Cardinality(slots) < Slots
  /\ slots' = slots \cup {c}
  /\ call' = [call EXCEPT ![c] = IF c \in Others THEN "asking" ELSE "lock"]
  /\ UNCHANGED <<vars, tool, holder, known>>

\* The five minutes are over, or the caller has gone away.
GiveUp(c) ==
  /\ call[c] = "queued"
  /\ call' = [call EXCEPT ![c] = "none"]
  /\ tool' = [tool EXCEPT ![c] = "other"]
  /\ UNCHANGED <<vars, slots, holder, known>>

\* The deferred release of the slot, whatever the handler returned.
End(c) ==
  /\ slots' = slots \ {c}
  /\ call' = [call EXCEPT ![c] = "none"]
  /\ tool' = [tool EXCEPT ![c] = "other"]

-----------------------------------------------------------------------------
\* identityCache.userIDFor and Client.pullEngine: the lock is held while Gogs is
\* asked, and waits for it whatever the context says.

Lock(c) ==
  /\ call[c] = "lock" /\ holder[tool[c]] = None
  /\ IF tool[c] \in known
     THEN call' = [call EXCEPT ![c] = "ready"] /\ UNCHANGED holder
     ELSE /\ call' = [call EXCEPT ![c] = "asking"]
          /\ holder' = [holder EXCEPT ![tool[c]] = c]
  /\ UNCHANGED <<vars, tool, slots, known>>

Told(c) ==
  /\ call[c] = "asking" /\ c \in Procs
  /\ known' = known \cup {tool[c]}
  /\ holder' = [holder EXCEPT ![tool[c]] = None]
  /\ call' = [call EXCEPT ![c] = "ready"]
  /\ UNCHANGED <<vars, tool, slots>>

\* Mutant: the lock is kept when the request fails.
NotToldLocked(c) ==
  /\ call[c] = "asking" /\ c \in Procs
  /\ End(c)
  /\ UNCHANGED <<vars, holder, known>>

\* A failure is not remembered: the next call asks again.
NotTold(c) ==
  /\ call[c] = "asking" /\ c \in Procs
  /\ holder' = [holder EXCEPT ![tool[c]] = None]
  /\ End(c)
  /\ UNCHANGED <<vars, known>>

\* A tool without cache gets its answer, or none.
Answered(c) ==
  /\ call[c] = "asking" /\ c \in Others
  /\ End(c)
  /\ UNCHANGED <<vars, holder, known>>

-----------------------------------------------------------------------------
\* Into the cache and out of it: with the commit of the ref, or the pull request
\* and its base; list_pull_requests has done without.

UseCache(c) ==
  /\ call[c] = "ready"
  /\ call' = [call EXCEPT ![c] = "cache"]
  /\ \/ tool[c] = "search" /\ \E s \in Snapshots : StartEnsure(c, s)
     \/ tool[c] = "pull" /\ \E r \in Repos, b \in Bases : StartDiff(c, r, b)
  /\ UNCHANGED <<tool, slots, holder, known>>

NoCache(c) ==
  /\ call[c] = "ready"
  /\ End(c)
  /\ UNCHANGED <<vars, holder, known>>

Leave(c) ==
  /\ call[c] = "cache" /\ pc[c] = "idle"
  /\ End(c)
  /\ UNCHANGED <<vars, holder, known>>

-----------------------------------------------------------------------------
\* The requests in the cache, and the cache clean of other processes.
CacheStep(p) == Step(p) /\ UNCHANGED callVars

Clean(p) ==
  /\ call[p] = "none"
  /\ \E root \in {Entries, Repos} : StartRemove(p, root)
  /\ UNCHANGED callVars

CallStep(c) ==
  \/ Admit(c) \/ GiveUp(c) \/ Lock(c) \/ Told(c) \/ NotTold(c) \/ Answered(c)
  \/ UseCache(c) \/ NoCache(c) \/ Leave(c)

ToolCallsInit ==
  /\ Init
  /\ call = [c \in Calls |-> "none"]
  /\ tool = [c \in Calls |-> "other"]
  /\ slots = {}
  /\ holder = [t \in {"search", "pull"} |-> None]
  /\ known = {}

ToolCallsNext ==
  \/ \E c \in Calls : Begin(c) \/ CallStep(c)
  \/ \E p \in Procs : CacheStep(p) \/ Clean(p)

\* A call that waits for a slot gets one or gives up; the mutexes of Go are granted
\* in turn, so that who waits for one that is free again and again gets it.
ToolCallsSpec ==
  /\ ToolCallsInit /\ [][ToolCallsNext]_toolVars
  /\ \A c \in Calls : WF_toolVars(CallStep(c))
  /\ \A p \in Procs : SF_toolVars(Lock(p)) /\ WF_toolVars(CacheStep(p))

-----------------------------------------------------------------------------
\* Every call ends and gives its slot back: no ring of calls that wait for slots,
\* for the identity and for locks of the cache, nor one that keeps what others
\* wait for, whatever fails (budget.go:59, search.go:121, pull.go:283); and the
\* requests of the cache end as UserCache says.
CallsEnd ==
  /\ RequestsEnd
  /\ \A c \in Calls : call[c] # "none" ~> call[c] = "none" /\ c \notin slots
=============================================================================
