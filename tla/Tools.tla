-------------------------------- MODULE Tools --------------------------------
(***************************************************************************)
(* The tools that mcpserver.New registers, as their caller meets them:  one *)
(* caller uses one of them, and the handler of that tool does what its      *)
(* module says, while others change what it reads.  The handlers share no    *)
(* state but the client, the caches and the slots, which GogsClient,         *)
(* UserCache and ToolCalls model, so what is not used stays as it began.     *)
(***************************************************************************)
EXTENDS Paging, Contents, CodeSearch, PullHistory, PullDiff, IssueTools, Output

VARIABLE used  \* what the caller uses

-----------------------------------------------------------------------------
\* One initial state of each module, for what is not used.

PagingIdle ==
  list = "comments" /\ items = {} /\ newest = 0 /\ shown = {} /\ missing = {}
  /\ limit = CHOOSE l \in Limits : TRUE

ContentsIdle ==
  LET none == [n \in Names |-> Unset] IN
  branch = none /\ tag = none /\ default = (CHOOSE n \in Names : TRUE)
  /\ tool = "get_file" /\ ref = Unset

SearchIdle == tree = <<>>

HistoryIdle == parents = [c \in Commits |-> {}] /\ head = 1 /\ base = 1

DiffIdle == treeDiff = {} /\ similar = <<>> /\ baseSide = {} /\ filters = {} /\ maxBytes = 1

IssueIdle ==
  push = FALSE /\ users = {} /\ named = [i \in LabelIds \cup MilestoneIds |-> Nobody]
  /\ op = "update"
  /\ asked = [text |-> Keep, assignee |-> Keep, labels |-> {}, milestone |-> Keep]

OutputIdle == text = [kind |-> "body", len |-> 0, starts |-> {}]

-----------------------------------------------------------------------------
ToolsInit ==
  /\ used \in {"paging", "contents", "search", "history", "diff", "issue", "output"}
  /\ (used # "paging" => PagingIdle) /\ PagingInit
  /\ (used # "contents" => ContentsIdle) /\ ContentsInit
  /\ (used # "search" => SearchIdle) /\ SearchInit
  /\ (used # "history" => HistoryIdle) /\ Init
  /\ (used # "diff" => DiffIdle) /\ DiffInit
  /\ (used # "issue" => IssueIdle) /\ IssueInit
  /\ (used # "output" => OutputIdle) /\ OutputInit

ToolsNext ==
  \/ /\ used = "paging" /\ PagingNext
     /\ UNCHANGED <<used, contentsVars, searchVars, vars, diffVars, issueVars, outputVars>>
  \/ /\ used = "contents" /\ ContentsNext
     /\ UNCHANGED <<used, pagingVars, searchVars, vars, diffVars, issueVars, outputVars>>
  \/ /\ used = "search" /\ SearchNext
     /\ UNCHANGED <<used, pagingVars, contentsVars, vars, diffVars, issueVars, outputVars>>
  \/ /\ used = "history" /\ Next
     /\ UNCHANGED <<used, pagingVars, contentsVars, searchVars, diffVars, issueVars, outputVars>>
  \/ /\ used = "diff" /\ DiffNext
     /\ UNCHANGED <<used, pagingVars, contentsVars, searchVars, vars, issueVars, outputVars>>
  \/ /\ used = "issue" /\ IssueNext
     /\ UNCHANGED <<used, pagingVars, contentsVars, searchVars, vars, diffVars, outputVars>>
  \/ /\ used = "output" /\ OutputNext
     /\ UNCHANGED <<used, pagingVars, contentsVars, searchVars, vars, diffVars, issueVars>>

ToolsSpec == ToolsInit /\ [][ToolsNext]_<<used, pagingVars, contentsVars, searchVars, vars, diffVars, issueVars, outputVars>>
=============================================================================
