----------------------------- MODULE DocsDiff -----------------------------
(***************************************************************************)
(* The proof that a Markdown change is documentation only                  *)
(* (.github/scripts/docs-diff.mjs), on which check selection skips the     *)
(* framework jobs, against the blocks a CommonMark reader extracts.        *)
(*                                                                         *)
(* A document is a sequence of lines, and a line one of the kinds that the *)
(* scanner tells apart.  The two revisions of a document grow together, and *)
(* differ in at most MaxEdits places.                                      *)
(***************************************************************************)
EXTENDS Naturals, Sequences, SequencesExt

CONSTANTS
  Kinds,     \* the kinds of line a document may have
  MaxLines,  \* bound: lines of a document
  MaxEdits   \* bound: places where the revisions differ

AllKinds == {
  "blank", "prose", "words",        \* nothing, and two ordinary texts
  "heading",                        \* a line kept as it is
  "ticks", "longTicks", "info",     \* ```  ````  ```sh
  "tildes",                         \* ~~~
  "dashes", "plus",                 \* ---  +++
  "lone",                           \* text with one backquote
  "html",                           \* text with < or >
  "open", "close", "tail",          \* <!-- a    b -->    b --> c
  "indentedOpen" }                  \* <!-- a, four spaces in

VARIABLES before, after, edits
vars == <<before, after, edits>>

NoFence == [char |-> "none", len |-> 0]

\* The run of backquotes or tildes that starts a line.
FenceMark(line) ==
  CASE line \in {"ticks", "info"} -> [char |-> "backquote", len |-> 3]
    [] line = "longTicks"         -> [char |-> "backquote", len |-> 4]
    [] line = "tildes"            -> [char |-> "tilde", len |-> 3]
    [] OTHER                      -> NoFence

\* Mutant: only backquotes open and close a fence.
OnlyBackquotes(line) == IF line = "tildes" THEN NoFence ELSE FenceMark(line)

FenceOf(line) == FenceMark(line)

\* Mutant: a shorter fence closes a longer one.
ClosesAny(line, fence) == line # "info" /\ FenceOf(line).char = fence.char

Closes(line, fence) ==
  /\ line # "info"
  /\ FenceOf(line).char = fence.char
  /\ FenceOf(line).len >= fence.len

(* The scanner: one record for its local variables, one step per line *)

Scanner == [result |-> <<>>, fence |-> NoFence, inline |-> FALSE, comment |-> FALSE,
            frontmatter |-> FALSE, prose |-> FALSE, previous |-> "none", refused |-> FALSE]

Ordinary(line) == line \in {"prose", "words"}

\* What the scanner's refusals look at, in the order of the branches.
Refuses(s, line) ==
  \/ line = "plus"
  \/ s.inline /\ FenceOf(line) # NoFence
  \/ s.comment /\ line = "tail"
  \/ /\ ~s.frontmatter /\ s.fence = NoFence /\ ~s.comment
     /\ \/ line = "dashes" /\ s.previous \notin {"none", "blank"}
        \/ ~s.inline /\ line \in {"html", "close", "tail"}

Kept(s, line) == [s EXCEPT !.result = Append(@, line), !.prose = FALSE, !.previous = line]

ScanLine(s, line) ==
  LET kept == Kept(s, line)
      first == s.previous = "none"
  IN IF s.refused THEN s
     ELSE IF Refuses(s, line) THEN [s EXCEPT !.refused = TRUE]
     ELSE IF s.frontmatter \/ (first /\ line = "dashes")
     THEN [kept EXCEPT !.frontmatter = first \/ line # "dashes"]
     ELSE IF s.fence # NoFence
     THEN [kept EXCEPT !.fence = IF Closes(line, s.fence) THEN NoFence ELSE @]
     ELSE IF s.comment THEN [kept EXCEPT !.comment = line # "close"]
     ELSE IF FenceOf(line) # NoFence THEN [kept EXCEPT !.fence = FenceOf(line)]
     ELSE IF line \in {"open", "indentedOpen"} THEN [kept EXCEPT !.comment = TRUE]
     ELSE IF s.inline \/ line = "lone" THEN [kept EXCEPT !.inline = s.inline # (line = "lone")]
     ELSE IF Ordinary(line)
     THEN [s EXCEPT !.result = IF s.prose THEN @ ELSE Append(@, "any prose"),
                    !.prose = TRUE, !.previous = line]
     ELSE kept

Refused == <<"refused">>

MarkdownProof(document) ==
  LET s == FoldLeft(ScanLine, Scanner, document)
  IN IF s.refused \/ s.fence # NoFence \/ s.inline \/ s.comment \/ s.frontmatter
     THEN Refused ELSE s.result

IsDocumentationOnlyChange(left, right) ==
  MarkdownProof(left) # Refused /\ MarkdownProof(left) = MarkdownProof(right)

(* The reference: the fenced blocks of a document, as CommonMark reads it *)

Reader == [mode |-> "start", fence |-> NoFence, blocks |-> <<>>]

ReadLine(r, line) ==
  IF r.mode = "start" /\ line = "dashes" THEN [r EXCEPT !.mode = "frontmatter"]
  ELSE IF r.mode = "frontmatter"
  THEN [r EXCEPT !.mode = IF line = "dashes" THEN "text" ELSE @]
  ELSE IF r.mode = "comment"
  THEN [r EXCEPT !.mode = IF line \in {"close", "tail"} THEN "text" ELSE @]
  ELSE IF r.mode = "fence"
  THEN IF line # "info" /\ FenceMark(line).char = r.fence.char /\ FenceMark(line).len >= r.fence.len
       THEN [r EXCEPT !.mode = "text", !.blocks = Append(@, "end")]
       ELSE [r EXCEPT !.blocks = Append(@, line)]
  ELSE IF FenceMark(line) # NoFence
  THEN [mode |-> "fence", fence |-> FenceMark(line), blocks |-> Append(r.blocks, line)]
  ELSE IF line = "open" THEN [r EXCEPT !.mode = "comment"]
  \* Four spaces make a line code or a continuation, never a comment.
  ELSE [r EXCEPT !.mode = "text"]

Executable(document) == FoldLeft(ReadLine, Reader, document).blocks

(* The two revisions of a document *)

Init == before = <<>> /\ after = <<>> /\ edits = 0

Longer == Len(before) < MaxLines /\ Len(after) < MaxLines

\* A line that both revisions have.
Same(line) ==
  /\ Longer
  /\ before' = Append(before, line)
  /\ after' = Append(after, line)
  /\ UNCHANGED edits

\* A line that the new revision changed, added or removed.
Edit(old, new) ==
  /\ Longer /\ edits < MaxEdits /\ old # new
  /\ before' = before \o old
  /\ after' = after \o new
  /\ edits' = edits + 1

Next ==
  \/ \E line \in Kinds : Same(line)
  \/ \E old, new \in {<<line>> : line \in Kinds} \cup {<<>>} : Edit(old, new)

Spec == Init /\ [][Next]_vars

\* A change the scanner proves to be documentation only leaves every fenced
\* block as it was: everything affecting block parsing or executable
\* extraction stays exact (docs-diff.mjs:52).
ExecutableStaysExact ==
  IsDocumentationOnlyChange(before, after) => Executable(before) = Executable(after)
=============================================================================
