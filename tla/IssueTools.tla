------------------------------ MODULE IssueTools ------------------------------
(***************************************************************************)
(* create_issue and update_issue (mcpserver/issues.go): references to        *)
(* users, labels and milestones are looked up one by one, and the write is  *)
(* sent only if all of them exist, because Gogs drops in silence what the   *)
(* user may not set.  Between the lookups and the write others rename,      *)
(* delete and create what was looked up, take the permission to push away,  *)
(* and edit the issue.                                                      *)
(*                                                                         *)
(* Title, body and state need no lookup and are one field, text; that they  *)
(* are too long is refused before anything else, and left out.  What becomes *)
(* of the request is GogsClient's: here it is applied or not, and its        *)
(* outcome may be unknown.                                                  *)
(***************************************************************************)
EXTENDS Naturals, Sequences

CONSTANTS
  Users,       \* usernames
  LabelIds, Labels,          \* IDs and names of labels
  MilestoneIds, Titles,      \* IDs and titles of milestones
  Keep,        \* a field that is not given
  Nobody,      \* the empty string: a cleared field, a deleted label
  MaxMeddling    \* bound on what others do

ASSUME IssueAssumption ==
  /\ LabelIds \cap MilestoneIds = {} /\ Labels \cap Titles = {}
  /\ Keep # Nobody
  /\ {Keep, Nobody} \cap (Users \cup Labels \cup Titles \cup LabelIds \cup MilestoneIds) = {}

VARIABLES
  push,        \* may the user push to the repository?
  users,       \* the users that exist
  named,       \* named[id]: the name of a label or milestone, or Nobody
  issue,       \* the issue
  meddled,      \* what others did
  op,          \* "create" or "update"
  asked,       \* the input: text, assignee, labels, milestone
  step,        \* "start", "look", "sent", "refused"
  todo,        \* the lookups to come
  options,     \* what the request will carry
  outcome,     \* what the tool reports
  everPush, everUsers, everNamed   \* what was so at some time of the call

others == <<push, users, named, meddled, everPush, everUsers, everNamed>>
request == <<op, asked, step, todo, options, outcome>>
issueVars == <<others, issue, request>>

Managed(in) == in.assignee # Keep \/ in.labels # {} \/ in.milestone # Keep

-----------------------------------------------------------------------------
\* Mutant: a cleared field is left out, as one that is not given.
OptionsOmitCleared(in) ==
  [text |-> in.text, labels |-> {},
   assignee |-> Keep,
   milestone |-> Keep]

\* Fields that need no lookup: given ones, and those cleared by an empty string.
Options(in) ==
  [text |-> in.text, labels |-> {},
   assignee |-> IF in.assignee = Nobody THEN Nobody ELSE Keep,
   milestone |-> IF in.milestone = Nobody THEN Nobody ELSE Keep]

\* What has to be looked up before anything is sent.
Needed(in) ==
  {x \in {"push"} : Managed(in)}
  \cup {x \in {"labels"} : in.labels # {}}
  \cup {x \in {"milestone"} : in.milestone \in Titles}
  \cup {x \in {"assignee"} : in.assignee \in Users}

\* The order of resolveCreateIssueInput and of resolveUpdateIssueInput.
Lookups(in) ==
  LET If(x) == IF x \in Needed(in) THEN <<x>> ELSE <<>> IN
  If("push") \o IF op = "create" THEN If("labels") \o If("milestone") \o If("assignee")
                                 ELSE If("assignee") \o If("milestone")

Empty(in) == op = "update" /\ in.text = Keep /\ ~Managed(in)

\* Without a field to change an update is refused before Gogs is contacted.
Start ==
  /\ step = "start"
  /\ options' = Options(asked)
  /\ IF Empty(asked)
     THEN step' = "refused" /\ UNCHANGED todo
     ELSE step' = "look" /\ todo' = Lookups(asked)
  /\ UNCHANGED <<others, issue, op, asked, outcome>>

LookingUp(x) == step = "look" /\ todo # <<>> /\ Head(todo) = x

Passed == todo' = Tail(todo) /\ UNCHANGED step
Refused == step' = "refused" /\ UNCHANGED todo

\* GetRepository: Permissions.Push.
CheckPush ==
  /\ LookingUp("push")
  /\ IF push THEN Passed ELSE Refused
  /\ UNCHANGED <<others, issue, op, asked, options, outcome>>

\* ListRepositoryLabels: names are not unique, and the last of a name counts.
ResolveLabels ==
  /\ LookingUp("labels")
  /\ IF \A n \in asked.labels : \E i \in LabelIds : named[i] = n
     THEN /\ \E id \in [asked.labels -> LabelIds] :
               /\ \A n \in asked.labels : named[id[n]] = n
               /\ options' = [options EXCEPT !.labels = {id[n] : n \in asked.labels}]
          /\ Passed
     ELSE Refused /\ UNCHANGED options
  /\ UNCHANGED <<others, issue, op, asked, outcome>>

\* Mutant: a milestone that is not found is zero, and is sent.
ResolveMilestoneZero ==
  /\ LookingUp("milestone")
  /\ LET found == {i \in MilestoneIds : named[i] = asked.milestone} IN
     /\ options' \in {[options EXCEPT !.milestone = i] :
                        i \in IF found = {} THEN {Nobody} ELSE found}
     /\ Passed
  /\ UNCHANGED <<others, issue, op, asked, outcome>>

\* ListRepositoryMilestones: the first with the title.
ResolveMilestone ==
  /\ LookingUp("milestone")
  /\ LET found == {i \in MilestoneIds : named[i] = asked.milestone} IN
     IF found # {}
     THEN /\ options' \in {[options EXCEPT !.milestone = i] : i \in found}
          /\ Passed
     ELSE Refused /\ UNCHANGED options
  /\ UNCHANGED <<others, issue, op, asked, outcome>>

\* UserExists.
CheckUser ==
  /\ LookingUp("assignee")
  /\ IF asked.assignee \in users
     THEN options' = [options EXCEPT !.assignee = asked.assignee] /\ Passed
     ELSE Refused /\ UNCHANGED options
  /\ UNCHANGED <<others, issue, op, asked, outcome>>

LookupFails ==
  /\ step = "look" /\ todo # <<>>
  /\ Refused
  /\ UNCHANGED <<others, issue, op, asked, options, outcome>>

\* What Gogs makes of the request: without the permission only the text counts,
\* and so does a reference that is gone.
Applied(o) ==
  [text |-> IF o.text = Keep THEN issue.text ELSE o.text,
   assignee |-> IF push /\ o.assignee \in users \cup {Nobody} THEN o.assignee ELSE issue.assignee,
   labels |-> IF push /\ op = "create" THEN {i \in o.labels : named[i] # Nobody} ELSE issue.labels,
   milestone |-> IF push /\ o.milestone \in {i \in MilestoneIds : named[i] # Nobody} \cup {Nobody}
                 THEN o.milestone ELSE issue.milestone]

\* One request, once nothing is left to look up.
Send ==
  /\ step = "look" /\ todo = <<>>
  /\ step' = "sent"
  /\ \/ issue' = Applied(options) /\ outcome' \in {"success", "unknown"}
     \/ outcome' \in {"error", "unknown"} /\ UNCHANGED issue
  /\ UNCHANGED <<others, op, asked, todo, options>>

CreateIssue == op = "create" /\ Send
UpdateIssue == op = "update" /\ Send

-----------------------------------------------------------------------------
\* Others.

Others ==
  /\ step \in {"start", "look"}
  /\ meddled < MaxMeddling /\ meddled' = meddled + 1
  /\ everPush' = (everPush \/ push')
  /\ everUsers' = everUsers \cup users'
  /\ everNamed' = everNamed \cup {<<i, named'[i]>> : i \in DOMAIN named}
  /\ UNCHANGED request

ChangePush == push' = ~push /\ UNCHANGED <<users, named, issue>> /\ Others

ChangeUser ==
  /\ \E u \in Users : users' = IF u \in users THEN users \ {u} ELSE users \cup {u}
  /\ UNCHANGED <<push, named, issue>>
  /\ Others

\* Created, renamed or deleted.
ChangeName ==
  /\ \/ \E i \in LabelIds, n \in Labels \cup {Nobody} : named' = [named EXCEPT ![i] = n]
     \/ \E i \in MilestoneIds, n \in Titles \cup {Nobody} : named' = [named EXCEPT ![i] = n]
  /\ UNCHANGED <<push, users, issue>>
  /\ Others

EditIssue ==
  /\ op = "update"
  /\ \/ \E u \in users \cup {Nobody} : issue' = [issue EXCEPT !.assignee = u]
     \/ \E m \in MilestoneIds \cup {Nobody} : issue' = [issue EXCEPT !.milestone = m]
     \/ issue' = [issue EXCEPT !.text = "others"]
  /\ UNCHANGED <<push, users, named>>
  /\ Others

-----------------------------------------------------------------------------
Inputs(which) ==
  IF which = "create"
  THEN [text : {"new"}, assignee : Users \cup {Keep}, labels : SUBSET Labels,
        milestone : Titles \cup {Keep}]
  ELSE [text : {"new", Keep}, assignee : Users \cup {Keep, Nobody}, labels : {{}},
        milestone : Titles \cup {Keep, Nobody}]

IssueInit ==
  /\ push \in BOOLEAN
  /\ users \in SUBSET Users
  /\ named \in {f \in [LabelIds \cup MilestoneIds -> Labels \cup Titles \cup {Nobody}] :
                  /\ \A i \in LabelIds : f[i] \notin Titles
                  /\ \A i \in MilestoneIds : f[i] \notin Labels}
  /\ op \in {"create", "update"}
  /\ issue \in [text : {"old"}, assignee : users \cup {Nobody}, labels : {{}},
                milestone : {i \in MilestoneIds : named[i] # Nobody} \cup {Nobody}]
  /\ (op = "create" => issue.assignee = Nobody /\ issue.milestone = Nobody)
  /\ asked \in Inputs(op)
  /\ step = "start" /\ todo = <<>> /\ options = Options(asked) /\ outcome = "none"
  /\ meddled = 0
  /\ everPush = push /\ everUsers = users
  /\ everNamed = {<<i, named[i]>> : i \in DOMAIN named}

IssueNext ==
  \/ Start \/ CheckPush \/ ResolveLabels \/ ResolveMilestone \/ CheckUser \/ LookupFails
  \/ CreateIssue \/ UpdateIssue
  \/ ChangePush \/ ChangeUser \/ ChangeName \/ EditIssue

IssueSpec == IssueInit /\ [][IssueNext]_issueVars

-----------------------------------------------------------------------------
\* A request that is sent carries every reference that was asked for, each under
\* an ID that had the name during the call, and the user could push during the
\* call if it sets or clears any (issues.go:330, README.md:101).
ReferencesChecked ==
  step = "sent" =>
    /\ Managed(asked) => everPush
    /\ \A n \in asked.labels : \E i \in options.labels : <<i, n>> \in everNamed
    /\ \A i \in options.labels : \E n \in asked.labels : <<i, n>> \in everNamed
    /\ asked.milestone \in Titles => <<options.milestone, asked.milestone>> \in everNamed
    /\ asked.assignee \in Users => options.assignee = asked.assignee /\ asked.assignee \in everUsers

\* An update leaves what the caller did not give as it is then, others' edits of
\* the moment included; what it clears is cleared, if the user may still push;
\* and what fails, or is refused, changes nothing (issue.go:205, README.md:103).
UpdateIsExact ==
  [][op = "update" /\ step' \in {"sent", "refused"} /\ step' # step =>
       /\ asked.text = Keep => issue'.text = issue.text
       /\ asked.assignee = Keep => issue'.assignee = issue.assignee
       /\ asked.milestone = Keep => issue'.milestone = issue.milestone
       /\ outcome' \in {"none", "error"} => issue' = issue
       /\ outcome' = "success" /\ push =>
            /\ asked.assignee = Nobody => issue'.assignee = Nobody
            /\ asked.milestone = Nobody => issue'.milestone = Nobody]_issueVars
=============================================================================
