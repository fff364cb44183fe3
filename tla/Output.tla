-------------------------------- MODULE Output --------------------------------
(***************************************************************************)
(* Results that are too long: bodies read in chunks (bodyChunk), files read *)
(* by lines (boundedFile), and whatever is still too long when it leaves    *)
(* (toolBudget, trimOutput).                                                *)
(*                                                                         *)
(* A body is its length and the offsets at which a character starts; it may  *)
(* be edited between two chunks.  A file is the encoded length of each of    *)
(* its lines.  A result is the length of what trimOutput never touches, of  *)
(* its long texts, and of the members of its list, which have texts of their *)
(* own.                                                                     *)
(***************************************************************************)
EXTENDS Naturals, Sequences, SequencesExt, FiniteSets, FiniteSetsExt

CONSTANTS
  MaxBody,       \* longest body
  MaxRune,       \* longest character: 4 in UTF-8
  ChunkBytes,    \* defaultBodyBytes: 8192 in the code
  MaxLines,      \* longest file
  FileBytes,     \* maximumFileTextBytes: 56 KiB in the code
  Separator,     \* bytes of an encoded newline: 2
  MaxText,       \* longest text of a result
  TrimFrom,      \* the first limit of toolBudget: 4096 in the code
  OutputBytes,   \* the budget of a result: 64 KiB, or 4 MiB with a diff, in the code
  WarningBytes   \* what it costs to say that a result was cut

ASSUME OutputAssumption ==
  /\ {MaxBody, MaxLines, FileBytes, Separator, MaxText, OutputBytes, WarningBytes} \subseteq Nat
  /\ {MaxRune, ChunkBytes, TrimFrom} \subseteq Nat \ {0}

VARIABLES
  text,     \* what is read: a record whose kind says which
  pos,      \* the offset or line asked for next; the limit on texts
  progress, \* "more", "end" or "refused"
  got,      \* the bytes, or lines, returned so far, in order
  cut,      \* lines of which only a prefix was returned
  edited    \* was the body edited between two calls?

outputVars == <<text, pos, progress, got, cut, edited>>

-----------------------------------------------------------------------------
\* bodyChunk.

\* Where a chunk may begin or end.
Bounds(b) == b.starts \cup {b.len}

\* The chunk from offset, or from the next character if offset is inside one,
\* moved back to a character's start; but at least one character.
BodyEnd(b, offset, max) ==
  LET o == Min({p \in Bounds(b) : p >= offset})
      m == IF max = 0 \/ max > ChunkBytes THEN ChunkBytes ELSE max
      e == Max({p \in Bounds(b) : o <= p /\ p <= o + m})
  IN IF e = o /\ o < b.len THEN Min({p \in Bounds(b) : p > o}) ELSE e

\* validateBodyOffset: between two calls the body may have become another.
ValidOffset(b, offset) == offset \in Bounds(b)

\* get_issue, get_pull_request or one comment, with next_body_offset.
ReadBody ==
  /\ text.kind = "body" /\ progress = "more"
  /\ IF ~ValidOffset(text, pos)
     THEN progress' = "refused" /\ UNCHANGED <<pos, got>>
     ELSE \E max \in 0..(MaxRune + 1) :
            LET end == BodyEnd(text, pos, max) IN
            /\ got' = got \o [i \in 1..(end - pos) |-> pos + i - 1]
            /\ pos' = end
            /\ progress' = IF end < text.len THEN "more" ELSE "end"
  /\ UNCHANGED <<text, cut, edited>>

Bodies ==
  {b \in [kind : {"body"}, len : 0..MaxBody, starts : SUBSET (0..(MaxBody - 1))] :
     /\ \A p \in b.starts : p < b.len
     /\ b.len > 0 => 0 \in b.starts
     /\ \A p \in b.starts : \E q \in Bounds(b) : p < q /\ q <= p + MaxRune}

EditBody ==
  /\ text.kind = "body" /\ progress = "more" /\ ~edited
  /\ text' \in Bodies \ {text}
  /\ edited' = TRUE
  /\ UNCHANGED <<pos, progress, got, cut>>

-----------------------------------------------------------------------------
\* boundedFile.

\* Encoded length of the lines from first to last, joined.
Encoded(lines, first, last) ==
  MapThenSumSet(LAMBDA i : lines[i], first..last) + Separator * (last - first)

\* The last line of a range from first to end that still fits, or first - 1.
LastFitting(lines, first, end) ==
  Max({first - 1} \cup {k \in first..end : Encoded(lines, first, k) <= FileBytes})

\* Mutant: next_start_line follows the range that was asked for.
ReadFileRange ==
  /\ text.kind = "file" /\ progress = "more"
  /\ IF pos > Len(text.lines)
     THEN progress' = "end" /\ UNCHANGED <<pos, got, cut>>
     ELSE \E count \in 1..MaxLines :
            LET end == Min({pos + count - 1, Len(text.lines)})
                fit == LastFitting(text.lines, pos, end)
                last == IF fit < pos THEN pos ELSE fit
            IN /\ got' = got \o [i \in 1..(last - pos + 1) |-> pos + i - 1]
               /\ cut' = IF fit < pos THEN cut \cup {pos} ELSE cut
               /\ pos' = end + 1
               /\ progress' = IF end < Len(text.lines) THEN "more" ELSE "end"
  /\ UNCHANGED <<text, edited>>

\* One get_file: the lines that fit; of a first line that does not, a prefix.
ReadFile ==
  /\ text.kind = "file" /\ progress = "more"
  /\ IF pos > Len(text.lines)
     THEN progress' = "end" /\ UNCHANGED <<pos, got, cut>>
     ELSE \E count \in 1..MaxLines :
            LET end == Min({pos + count - 1, Len(text.lines)})
                fit == LastFitting(text.lines, pos, end)
                last == IF fit < pos THEN pos ELSE fit
            IN /\ got' = got \o [i \in 1..(last - pos + 1) |-> pos + i - 1]
               /\ cut' = IF fit < pos THEN cut \cup {pos} ELSE cut
               /\ pos' = last + 1
               /\ progress' = IF last < Len(text.lines) THEN "more" ELSE "end"
  /\ UNCHANGED <<text, edited>>

-----------------------------------------------------------------------------
\* toolBudget.

Trimmed(length, limit) == IF length > limit THEN limit ELSE length

Total(s) == FoldLeft(LAMBDA a, b : a + b, 0, s)

\* The length of a result.
Payload(r) == r.fixed + r.text + Total(r.members)

\* trimOutput: every long text is cut, also those of the members of a list; the
\* members stay, because a cursor may point behind them.  (A cut also goes back to
\* the start of a character; lengths here are of texts where each has one byte.)
TrimOutput(r, limit) ==
  [kind |-> r.kind, fixed |-> r.fixed, text |-> Trimmed(r.text, limit),
   members |-> [i \in DOMAIN r.members |-> Trimmed(r.members[i], limit)]]

Fits(r) == Payload(r) <= OutputBytes

\* That a result is cut is said in the result.
Warned(r) == [r EXCEPT !.fixed = @ + WarningBytes]

\* A result that fits is sent as it is; any other gets a warning first.
Measure ==
  /\ text.kind = "result" /\ progress = "more" /\ pos = 0
  /\ IF Fits(text)
     THEN progress' = "end" /\ UNCHANGED text
     ELSE text' = Warned(text) /\ UNCHANGED progress
  /\ pos' = TrimFrom
  /\ got' = <<text>>
  /\ UNCHANGED <<cut, edited>>

\* Mutant: the last limit of the loop is 2.
TrimAboveOne ==
  /\ text.kind = "result" /\ progress = "more" /\ pos > 0
  /\ text' = TrimOutput(text, pos)
  /\ pos' = pos \div 2
  /\ progress' = IF Fits(text') THEN "end"
                 ELSE IF pos > 2 THEN "more" ELSE "refused"
  /\ UNCHANGED <<got, cut, edited>>

\* One turn of the loop; RESPONSE_TOO_LARGE when a limit of 1 is not enough.
Trim ==
  /\ text.kind = "result" /\ progress = "more" /\ pos > 0
  /\ text' = TrimOutput(text, pos)
  /\ pos' = pos \div 2
  /\ progress' = IF Fits(text') THEN "end"
                 ELSE IF pos > 1 THEN "more" ELSE "refused"
  /\ UNCHANGED <<got, cut, edited>>

-----------------------------------------------------------------------------
Files == {[kind |-> "file", lines |-> s] : s \in SeqOf(0..(FileBytes + 1), MaxLines)}

Results ==
  {[kind |-> "result", fixed |-> f, text |-> t, members |-> s] :
     f \in 0..OutputBytes, t \in 0..MaxText, s \in SeqOf(0..MaxText, 2)}

OutputInit ==
  /\ text \in Bodies \cup Files \cup Results
  /\ pos = IF text.kind = "file" THEN 1 ELSE 0
  /\ progress = "more"
  /\ got = <<>> /\ cut = {} /\ edited = FALSE

OutputNext == ReadBody \/ EditBody \/ ReadFile \/ Measure \/ Trim

OutputSpec == OutputInit /\ [][OutputNext]_outputVars

-----------------------------------------------------------------------------
\* Whoever follows next_body_offset or next_start_line to the end has got every
\* byte or line once and in order: a body that was not edited meanwhile, and a
\* file but for the rest of lines that alone exceed the limit.  An offset that
\* was returned is refused only after an edit (budget.go:23, contents.go:166).
EveryPartOnce ==
  /\ text.kind = "body" /\ ~edited =>
       /\ progress # "refused"
       /\ progress = "end" => got = [i \in 1..text.len |-> i - 1]
       /\ got # <<>> => Len(got) \in Bounds(text)
  /\ text.kind = "file" /\ progress = "end" =>
       /\ got = [i \in 1..Len(text.lines) |-> i]
       /\ cut = {i \in DOMAIN text.lines : text.lines[i] > FileBytes}

\* A result that is sent fits, has all the members it had, and is as it was if it
\* fitted; it is refused only if, with the warning, it is too long even when no
\* text is longer than a byte (budget.go:109, README.md:216).
OutputFits ==
  text.kind = "result" =>
    /\ progress = "end" =>
         /\ Fits(text)
         /\ Len(text.members) = Len(got[1].members)
         /\ Fits(got[1]) => text = got[1]
    /\ progress = "refused" => ~Fits(TrimOutput(Warned(got[1]), 1))
=============================================================================
