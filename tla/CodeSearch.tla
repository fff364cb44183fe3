------------------------------ MODULE CodeSearch ------------------------------
(***************************************************************************)
(* From the archive of a commit to the matches of search_code:              *)
(*                                                                         *)
(*   extractArchive  (snapshot/snapshot.go)  entries to files, within limits *)
(*   flattenArchivePrefix                    takes the top directory away    *)
(*   Search          (snapshot/search.go)    files to matches, until a limit *)
(*   search_code     (mcpserver/search.go)   matches to a result that fits   *)
(*                                                                         *)
(* A path has one or two names.  Of a file its class and its matches count:  *)
(* "text", "binary" and "large" files, "excluded" ones, which the globs      *)
(* leave out, and "link", which is no file.  That another request removes    *)
(* files during the search is kept out by the lock of UserCache.            *)
(***************************************************************************)
EXTENDS Naturals, Sequences, FiniteSets, FiniteSetsExt, Functions

CONSTANTS
  FileNames,   \* names of files and directories
  Wrapper,     \* the top directory of the archive, named for the repository
  MaxFiles,    \* longest tree
  MaxHits,     \* most matches in one file
  EntryLimit,  \* MaxEntries: 20000 in the code
  SizeLimit,   \* MaxDecompressedBytes, in blocks of the tar stream
  MaxResults,  \* the caller's max_results
  MaxReply     \* matches that fit into a result; 0 if one is too long

ASSUME SearchAssumption ==
  /\ IsFiniteSet(FileNames)
  /\ {MaxFiles, MaxHits, EntryLimit, SizeLimit, MaxReply} \subseteq Nat
  /\ MaxResults \in Nat \ {0}

VARIABLES
  tree,       \* the tree of the commit: what each path is
  archive,    \* entries to come: paths below the wrapper, and what they are
  entries,    \* headers read
  size,       \* blocks read
  disk,       \* files extracted, by their path below the destination
  skipped,    \* SkippedEntries
  stage,      \* "extract", "search", "reply", "done" or why it ended
  unread,     \* files the walk has still to come to
  found,      \* matches
  stats,      \* Stats of the search
  reply,      \* the matches returned
  truncated   \* Meta.Truncated

extraction == <<tree, archive, entries, size, disk, skipped>>
search == <<unread, found, stats>>
searchVars == <<extraction, search, stage, reply, truncated>>

-----------------------------------------------------------------------------
\* The archive.

Kinds == [class : {"text"}, hits : 0..MaxHits]
         \cup [class : {"binary", "large", "excluded", "link"}, hits : {0}]

TreePaths == {<<n>> : n \in FileNames} \cup {<<n, m>> : n, m \in FileNames}

\* A name is a file or a directory, not both.
Trees ==
  UNION {[ps -> Kinds] : ps \in {q \in UNION {kSubset(k, TreePaths) : k \in 0..MaxFiles} :
                                   \A p \in q : Len(p) = 2 => <<p[1]>> \notin q}}

Header == [path |-> <<>>, class |-> "header"]
Directory(p) == [path |-> p, class |-> "directory"]

\* What git archive puts into an archive: a header of its own, the wrapper, the
\* directories and the files.
Entries(t) ==
  {Header, Directory(<<Wrapper>>)}
  \cup {Directory(<<Wrapper, p[1]>>) : p \in {q \in DOMAIN t : Len(q) = 2}}
  \cup {[path |-> <<Wrapper>> \o p, class |-> t[p].class] : p \in DOMAIN t}

-----------------------------------------------------------------------------
\* extractArchive.

\* The blocks of the stream: a header, which brings its own content if it is the
\* archive's, what a file holds, two for a large one, and the two that end it.
HeaderBytes(entry) == IF entry.class = "header" THEN 2 ELSE 1

EntryBytes(entry) ==
  HeaderBytes(entry) + CASE entry.class = "large" -> 2
                         [] entry.class \in {"text", "binary", "excluded"} -> 1
                         [] OTHER -> 0

EndBytes == 2

StreamBytes(t) == EndBytes + SumFunction([e \in Entries(t) |-> EntryBytes(e)])

\* Why extraction ends at an entry.  boundedReader gives the stream up to its
\* maximum; the limit of entries is looked at between a header and its content.
Refusal(entry) ==
  IF size + HeaderBytes(entry) > SizeLimit THEN "tooLarge"
  ELSE IF entries + 1 > EntryLimit THEN "tooMany"
  ELSE IF size + EntryBytes(entry) > SizeLimit THEN "tooLarge"
  ELSE "none"

\* Mutant: links are written as the files they name.
IsFollowed(class) == class # "header"

\* isMaterializable: links and headers never are.
IsMaterializable(class) == class \notin {"header", "link"}

\* The next entry, within the limits: every header counts.
Extract ==
  /\ stage = "extract"
  /\ \E entry \in archive :
       IF Refusal(entry) # "none"
       THEN /\ stage' = Refusal(entry)
            /\ UNCHANGED <<archive, entries, size, disk, skipped>>
       ELSE /\ archive' = archive \ {entry}
            /\ entries' = entries + 1
            /\ size' = size + EntryBytes(entry)
            /\ IF IsMaterializable(entry.class)
               THEN disk' = disk \cup {entry} /\ UNCHANGED skipped
               ELSE skipped' = skipped + 1 /\ UNCHANGED disk
            /\ UNCHANGED stage
  /\ UNCHANGED <<tree, search, reply, truncated>>

\* The end of the stream lies beyond the limit.
EndRefused ==
  /\ stage = "extract" /\ archive = {}
  /\ size + EndBytes > SizeLimit
  /\ stage' = "tooLarge"
  /\ UNCHANGED <<extraction, search, reply, truncated>>

\* The request ends, the archive breaks off, the cache has no room, or a write
\* fails: the temporary directory is removed.
ExtractFails ==
  /\ stage = "extract"
  /\ stage' = "failed"
  /\ UNCHANGED <<extraction, search, reply, truncated>>

Below(d, names) == {e \in d : Len(e.path) > Len(names) /\ SubSeq(e.path, 1, Len(names)) = names}

Top(d) == {e.path[1] : e \in d}

\* flattenArchivePrefix: the content of the only directory moves up, unless the
\* directory holds an entry of its own name.  Then the walk may begin.
Flatten ==
  /\ stage = "extract" /\ archive = {}
  /\ size + EndBytes <= SizeLimit
  /\ IF Cardinality(Top(disk)) = 1 /\ \A e \in disk : Len(e.path) = 1 => e.class = "directory"
     THEN LET top == CHOOSE n \in Top(disk) : TRUE
              nested == {[path |-> Tail(e.path), class |-> e.class] : e \in Below(disk, <<top>>)}
          IN IF top \in Top(nested)
             THEN stage' = "clash" /\ UNCHANGED <<disk, unread>>
             ELSE /\ disk' = nested
                  /\ stage' = "search"
                  /\ unread' = {e \in nested : e.class # "directory"}
     ELSE /\ stage' = "search"
          /\ unread' = {e \in disk : e.class # "directory"}
          /\ UNCHANGED disk
  /\ UNCHANGED <<tree, archive, entries, size, skipped, found, stats, reply, truncated>>

-----------------------------------------------------------------------------
\* Search.

Hits(p) == {<<p, i>> : i \in 1..tree[p].hits}

\* The first matches of a file, as many as the limit allows in one file.
SearchContent(p) == {<<p, i>> : i \in 1..Min({tree[p].hits, MaxResults})}

\* One file of the walk: what it adds to the matches, and to the statistics.
SearchFile ==
  /\ stage = "search" /\ ~stats.stopped
  /\ \E e \in unread :
       /\ unread' = unread \ {e}
       /\ found' = found \cup IF e.class = "text" THEN SearchContent(e.path) ELSE {}
       /\ stats' = [binary |-> stats.binary + IF e.class = "binary" THEN 1 ELSE 0,
                    oversized |-> stats.oversized + IF e.class = "large" THEN 1 ELSE 0,
                    stopped |-> e.class = "text" /\ tree[e.path].hits > 0
                                /\ Cardinality(found') >= MaxResults,
                    timedOut |-> stats.timedOut]
  /\ UNCHANGED <<extraction, stage, reply, truncated>>

\* The deadline passes: the walk ends at the next entry, and what is left is not
\* read.
TimeOut ==
  /\ stage = "search" /\ ~stats.stopped /\ ~stats.timedOut
  /\ unread' = {}
  /\ stats' = [stats EXCEPT !.timedOut = TRUE]
  /\ UNCHANGED <<extraction, stage, found, reply, truncated>>

\* At most MaxResults matches, in the order of the walk, are kept.
SearchEnds ==
  /\ stage = "search" /\ (unread = {} \/ stats.stopped)
  /\ \E kept \in SUBSET found :
       /\ Cardinality(kept) = Min({Cardinality(found), MaxResults})
       /\ \A m \in kept : m[2] > 1 => <<m[1], m[2] - 1>> \in kept
       /\ found' = kept
  /\ stage' = IF stats.timedOut /\ found = {} THEN "timeout" ELSE "reply"
  /\ UNCHANGED <<extraction, unread, stats, reply, truncated>>

\* Mutant: only what is dropped from the result counts as truncated.
ReplyUnflagged ==
  /\ stage = "reply"
  /\ reply' \in {r \in SUBSET found : r = found \/ Cardinality(r) = MaxReply}
  /\ reply' = found <=> Cardinality(found) <= MaxReply
  /\ truncated' = (reply' # found)
  /\ stage' = "done"
  /\ UNCHANGED <<extraction, search>>

\* searchMatchesWithin, and the flags of the result.
Reply ==
  /\ stage = "reply"
  /\ reply' \in {r \in SUBSET found : r = found \/ Cardinality(r) = MaxReply}
  /\ reply' = found <=> Cardinality(found) <= MaxReply
  /\ truncated' = (stats.timedOut \/ stats.stopped \/ reply' # found)
  /\ stage' = "done"
  /\ UNCHANGED <<extraction, search>>

-----------------------------------------------------------------------------
SearchInit ==
  /\ tree \in Trees
  /\ archive = Entries(tree)
  /\ entries = 0 /\ size = 0 /\ disk = {} /\ skipped = 0
  /\ stage = "extract"
  /\ unread = {} /\ found = {}
  /\ stats = [binary |-> 0, oversized |-> 0, stopped |-> FALSE, timedOut |-> FALSE]
  /\ reply = {} /\ truncated = FALSE

SearchNext ==
  \/ Extract \/ EndRefused \/ ExtractFails \/ Flatten
  \/ SearchFile \/ TimeOut \/ SearchEnds \/ Reply

SearchSpec == SearchInit /\ [][SearchNext]_searchVars

-----------------------------------------------------------------------------
Regular == {p \in DOMAIN tree : tree[p].class # "link"}

\* A snapshot that is searched has the regular files of the commit under their
\* own paths, and nothing else, and its archive was within the limits; an archive
\* that is refused as too large, or as one of too many entries, is, by its whole
\* stream (snapshot.go:389, snapshot.go:484, snapshot.go:565).
SnapshotIsTree ==
  /\ stage \in {"search", "reply", "timeout", "done"} =>
       /\ {e.path : e \in {x \in disk : x.class # "directory"}} = Regular
       /\ \A e \in disk : e.class # "directory" => e.class = tree[e.path].class
       /\ skipped = 1 + Cardinality(DOMAIN tree \ Regular)
       /\ StreamBytes(tree) <= SizeLimit /\ Cardinality(Entries(tree)) <= EntryLimit
  /\ stage = "tooLarge" => StreamBytes(tree) > SizeLimit
  /\ stage = "tooMany" => Cardinality(Entries(tree)) > EntryLimit

\* A result that does not say it is truncated has every match of the files that
\* the globs let through, and counts every such file it left out; one that does
\* has matches all the same, unless not even one fits: ten lines of context on both
\* sides, of 500 characters that JSON escapes, are too long.  No result has matches
\* that are none, or more than were asked for.
\* A timeout is an error only if nothing was found (search.go:91, search.go:199
\* of mcpserver, README.md:79).
SearchFindsAll ==
  LET all == UNION {Hits(p) : p \in {q \in Regular : tree[q].class = "text"}}
      Count(class) == Cardinality({p \in Regular : tree[p].class = class})
  IN /\ stage = "done" =>
          /\ reply \subseteq all /\ Cardinality(reply) <= MaxResults
          /\ ~truncated => /\ reply = all
                           /\ stats.binary = Count("binary")
                           /\ stats.oversized = Count("large")
          /\ truncated => reply # {} \/ MaxReply = 0
          /\ truncated /\ ~stats.timedOut =>
               Cardinality(reply) \in {MaxReply, MaxResults}
     /\ stage = "timeout" => stats.timedOut /\ reply = {}

\* "A name clash cannot come from a prefix-wrapped archive" (snapshot.go:503).
WrappedNeverClashes == stage # "clash"
=============================================================================
