-------------------------------- MODULE Diff --------------------------------
(***************************************************************************)
(* The parser of one file's unified diff (diff.rs): from lines to the      *)
(* positions a comment may be anchored at.  EXTENDS SnapshotEvidence for   *)
(* the change of a path and the anchor table that takes the positions.     *)
(*                                                                         *)
(* A line is a record with a kind: "git", "old", "new" and "meta" are the  *)
(* lines of the prelude (path is the file they name), "hunk" a header with *)
(* its ranges old and new, " ", "-" and "+" a line of a hunk with its      *)
(* content, "marker" the missing newline, "combined", "binary", "other".   *)
(* A parse is a fold over the lines; s.error is None while it goes well.   *)
(***************************************************************************)
EXTENDS SnapshotEvidence, SequencesExt

CONSTANTS
    MaxLine,        \* the largest 32 bit number
    MaxHunks, MaxHunkLines, MaxCommentable, Radius  \* UnifiedDiffLimits

NoHunk == [old |-> [start |-> 0, count |-> 0], new |-> [start |-> 0, count |-> 0]]

Start == [phase |-> "prelude", error |-> None, seen |-> {}, hunks |-> 0,
          header |-> NoHunk, old_seen |-> 0, new_seen |-> 0, old_line |-> 0, new_line |-> 0,
          records |-> <<>>, lines |-> <<>>]

Reject(s, error) == [s EXCEPT !.error = error]

\* expected_old_header, expected_new_header.
ExpectedOld(path) == IF path.kind = "Added" THEN "/dev/null" ELSE path.old
ExpectedNew(path) == IF path.kind = "Deleted" THEN "/dev/null" ELSE path.new

IncompleteHeader(s) ==
    \/ ("old" \in s.seen) # ("new" \in s.seen)
    \/ "git" \in s.seen /\ "new" \notin s.seen

-----------------------------------------------------------------------------
(* Hunks.                                                                  *)

RangeError(r) ==
    CASE r.start = 0 /\ r.count > 0 -> "InvalidRangeStart"
      [] r.count > 0 /\ r.start + (r.count - 1) > MaxLine -> "NumericOverflow"
      [] OTHER -> None

\* parse_hunk_header; fault is what is wrong with its text.
HeaderFault(l) ==
    CASE l.fault # None -> l.fault
      [] RangeError(l.old) # None -> RangeError(l.old)
      [] RangeError(l.new) # None -> RangeError(l.new)
      [] l.old.count = 0 /\ l.new.count = 0 -> "EmptyHunk"
      [] l.old.count > MaxHunkLines \/ l.new.count > MaxHunkLines -> "DeclaredHunkTooLarge"
      [] OTHER -> None

OpenHunk(s, l) ==
    CASE s.hunks = MaxHunks -> Reject(s, "TooManyHunks")
      [] HeaderFault(l) # None -> Reject(s, HeaderFault(l))
      [] OTHER -> [s EXCEPT !.phase = "hunk", !.header = [old |-> l.old, new |-> l.new],
                            !.old_seen = 0, !.new_seen = 0,
                            !.old_line = l.old.start, !.new_line = l.new.start,
                            !.records = <<>>]

Complete(s) == s.old_seen = s.header.old.count /\ s.new_seen = s.header.new.count

OldSide(kind) == kind \in {" ", "-"}
NewSide(kind) == kind \in {" ", "+"}

LineAllowed(path, kind) ==
    CASE path.kind = "Added" -> kind = "+"
      [] path.kind = "Deleted" -> kind = "-"
      [] OTHER -> TRUE

\* A line counter that moves on before the position is taken.
PositionAfter(s, kind) ==
    CASE kind = " " -> [kind |-> "Context", old |-> s.old_line + 1, new |-> s.new_line + 1]
      [] kind = "-" -> [kind |-> "Deletion", old |-> s.old_line + 1, new |-> None]
      [] kind = "+" -> [kind |-> "Addition", old |-> None, new |-> s.new_line + 1]

Position(s, kind) ==
    CASE kind = " " -> [kind |-> "Context", old |-> s.old_line, new |-> s.new_line]
      [] kind = "-" -> [kind |-> "Deletion", old |-> s.old_line, new |-> None]
      [] kind = "+" -> [kind |-> "Addition", old |-> None, new |-> s.new_line]

\* consume_old, consume_new: the line number moves on only within the range.
Consumed(s, kind) ==
    [s EXCEPT !.old_seen = IF OldSide(kind) THEN @ + 1 ELSE @,
              !.new_seen = IF NewSide(kind) THEN @ + 1 ELSE @,
              !.old_line = IF OldSide(kind) /\ s.old_seen + 1 < s.header.old.count
                           THEN @ + 1 ELSE @,
              !.new_line = IF NewSide(kind) /\ s.new_seen + 1 < s.header.new.count
                           THEN @ + 1 ELSE @]

RecordOf(s, l) == [position |-> Position(s, l.kind), content |-> l.content, newline |-> TRUE]

\* HunkAccounting::consume.
Consume(s, path, l) ==
    LET next == [Consumed(s, l.kind) EXCEPT !.records = Append(@, RecordOf(s, l))]
    IN  CASE l.kind \notin {" ", "-", "+"} -> Reject(s, "UnexpectedHunkLine")
          [] ~LineAllowed(path, l.kind) -> Reject(s, "FileChangeLineMismatch")
          [] \/ OldSide(l.kind) /\ s.old_seen >= s.header.old.count
             \/ NewSide(l.kind) /\ s.new_seen >= s.header.new.count ->
                Reject(s, "HunkCountExceeded")
          [] ~PositionValid(Position(s, l.kind)) -> Reject(s, "InvalidRangeStart")
          [] Len(next.records) > MaxHunkLines -> Reject(s, "TooManyLinesInHunk")
          [] OTHER -> [next EXCEPT !.phase = IF Complete(next) THEN "complete" ELSE "hunk"]

\* apply_no_newline_marker.
Mark(s) ==
    LET last == Len(s.records)
    IN  CASE s.records = <<>> -> Reject(s, "NoNewlineMarkerWithoutContent")
          [] ~s.records[last].newline -> Reject(s, "DuplicateNoNewlineMarker")
          [] OTHER -> [s EXCEPT !.records[last].newline = FALSE]

\* append_commentable_lines: the digests of a line and of its surroundings
\* stand for the records they are made of.
Around(records, i) ==
    LET first == IF i - Radius < 1 THEN 1 ELSE i - Radius
        last == IF i + Radius > Len(records) THEN Len(records) ELSE i + Radius
    IN  <<i - first, SubSeq(records, first, last)>>

Close(s, path) ==
    IF Len(s.lines) + Len(s.records) > MaxCommentable
    THEN Reject(s, "TooManyCommentableLines")
    ELSE [s EXCEPT !.phase = "between", !.hunks = @ + 1,
                   !.lines = @ \o [i \in DOMAIN s.records |->
                        [path |-> path, position |-> s.records[i].position,
                         line |-> s.records[i], context |-> Around(s.records, i)]]]

-----------------------------------------------------------------------------
(* The parse.                                                              *)

Prelude(s, path, l) ==
    CASE l.kind = "hunk" ->
            IF IncompleteHeader(s) THEN Reject(s, "IncompleteFileHeader") ELSE OpenHunk(s, l)
      [] l.kind = "old" ->
            (CASE s.seen \cap {"old", "new"} # {} -> Reject(s, "DuplicateFileHeader")
               [] l.path # ExpectedOld(path) -> Reject(s, "FileHeaderMismatch")
               [] OTHER -> [s EXCEPT !.seen = @ \cup {"old"}])
      [] l.kind = "new" ->
            (CASE "old" \notin s.seen \/ "new" \in s.seen -> Reject(s, "DuplicateFileHeader")
               [] l.path # ExpectedNew(path) -> Reject(s, "FileHeaderMismatch")
               [] OTHER -> [s EXCEPT !.seen = @ \cup {"new"}])
      [] l.kind = "git" /\ s.seen = {} -> [s EXCEPT !.seen = {"git"}]
      [] l.kind = "meta" /\ "old" \notin s.seen -> s
      [] OTHER -> Reject(s, "UnexpectedPrelude")

Between(s, l) ==
    IF l.kind = "hunk" THEN OpenHunk(s, l) ELSE Reject(s, "UnexpectedTrailingContent")

\* After the last line of a hunk one marker may follow.
AfterHunk(s, path, l) ==
    IF l.kind = "marker" THEN Mark(s)
    ELSE LET closed == Close(s, path)
         IN  IF closed.error # None THEN closed ELSE Between(closed, l)

Step(s, path, l) ==
    CASE s.error # None -> s
      [] s.error = None /\ l.kind = "combined" -> Reject(s, "CombinedDiff")
      [] s.error = None /\ l.kind = "binary" -> Reject(s, "BinaryDiff")
      [] s.error = None /\ l.kind \notin {"combined", "binary"} ->
            CASE s.phase = "prelude" -> Prelude(s, path, l)
              [] s.phase = "hunk" /\ l.kind = "hunk" -> Reject(s, "HunkCountMismatch")
              [] s.phase = "hunk" /\ l.kind = "marker" -> Mark(s)
              [] s.phase = "hunk" /\ l.kind \notin {"hunk", "marker"} -> Consume(s, path, l)
              [] s.phase = "complete" -> AfterHunk(s, path, l)
              [] s.phase = "between" -> Between(s, l)

AtEnd(s, path) ==
    CASE s.error # None -> s
      [] s.phase = "prelude" ->
            Reject(s, IF IncompleteHeader(s) THEN "IncompleteFileHeader" ELSE "NoHunks")
      [] s.phase = "hunk" -> Reject(s, "HunkCountMismatch")
      [] OTHER -> Close(s, path)

Parsed(path, s) ==
    [error |-> IF SemanticIssue(path) # None THEN "InvalidChangedPath" ELSE s.error,
     hunks |-> s.hunks, lines |-> s.lines]

\* parse_gitlab_file_diff: the error, or the commentable lines.
ParseDiff(path, lines) ==
    Parsed(path, AtEnd(FoldLeft(LAMBDA t, l : Step(t, path, l), Start, lines), path))
=============================================================================
