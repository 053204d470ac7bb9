------------------------------ MODULE PdfMarking ------------------------------
(* audit.py decides whether the page of a PDF is blank by a lexer of its own   *)
(* that jumps over strings, comments, names and containers, and that sees the  *)
(* first ScanLimit characters of the content only.  Here it runs, one loop     *)
(* iteration a step, on every content up to that bound, against a definition   *)
(* by a character-by-character automaton.                                      *)
(*                                                                             *)
(* Characters: "(" ")" "\" "%" "/" "[" "]" "<" ">" as in PDF; "n" a line end;  *)
(* the word "f" paints, the word "I" begins an inline image (BI), and every    *)
(* other word does neither.                                                    *)
EXTENDS Naturals, Sequences, FiniteSetsExt, SequencesExt

CONSTANTS
  Characters,   \* the characters of the contents that are tried
  ScanLimit     \* MAX_MARKING_SCAN_BYTES

ASSUME MarkingAssumption == ScanLimit \in Nat

Delimiters == {"(", ")", "%", "/", "[", "]", "<", ">"}
WordEnds == Delimiters \cup {"n"}
Painting == {<<"f">>, <<"I">>}

VARIABLES
  content,      \* the decoded content of the page, up to the limit
  cut,          \* whether it goes on
  index,        \* where the lexer is, counted from 1
  containers,   \* the closing brackets it waits for
  found,        \* a painting operator was met
  verdict       \* "scanning", then "marked", "unmarked", "malformed" or "limit"

markingVars == <<content, cut, index, containers, found, verdict>>

MarkingInit ==
  /\ content \in BoundedSeq(Characters, ScanLimit)
  /\ cut \in IF Len(content) = ScanLimit THEN BOOLEAN ELSE {FALSE}
  /\ index = 1 /\ containers = <<>> /\ found = FALSE
  /\ verdict = "scanning"

length == Len(content)
At(i) == IF i <= length THEN content[i] ELSE "end"

\* The first place from i on where one of some characters is, or just after the end.
FirstFrom(i, Stops) == Min({k \in i .. length : content[k] \in Stops} \cup {length + 1})

\* A seeded fault: an escaped bracket counts.
SkipUnescaped(from) ==
  LET skip[i \in 1 .. length + 2] == [depth \in Nat |->
        IF depth = 0 \/ i > length THEN <<i, depth>>
        ELSE skip[i + 1][CASE At(i) = "(" -> depth + 1
                           [] At(i) = ")" -> depth - 1
                           [] OTHER -> depth]]
  IN  skip[from][1]

\* _skip_pdf_literal_string: from a place and a depth of brackets, the place after
\* the string and the depth there.
Skipping ==
  LET skip[i \in 1 .. length + 2] == [depth \in Nat |->
        IF depth = 0 \/ i > length THEN <<i, depth>>
        ELSE IF At(i) = "\\" THEN skip[i + 2][depth]
        ELSE skip[i + 1][CASE At(i) = "(" -> depth + 1
                           [] At(i) = ")" -> depth - 1
                           [] OTHER -> depth]]
  IN  skip
Skip(from) == Skipping[from][1]

Conclude(v) == verdict' = v /\ UNCHANGED <<content, cut, index, containers, found>>
Jump(i, stack) ==
  index' = i /\ containers' = stack /\ UNCHANGED <<content, cut, found, verdict>>

\* pdf_page_marking_evidence: what an error, or no mark, means for a cut content.
Unreadable == Conclude(IF cut THEN "limit" ELSE "malformed")

Close(bracket, width) ==
  IF containers # <<>> /\ Last(containers) = bracket
  THEN Jump(index + width, Front(containers)) ELSE Unreadable

Word ==
  LET end == FirstFrom(index, WordEnds)
      word == SubSeq(content, index, end - 1)
      paints == containers = <<>> /\ word \in Painting
  IN  /\ index' = end
      /\ found' = (found \/ paints)
      /\ verdict' = IF paints /\ word = <<"I">> THEN "marked" ELSE verdict
      /\ UNCHANGED <<content, cut, containers>>

\* One iteration of _count_marking_operators.
Scan ==
  /\ verdict = "scanning" /\ index <= length
  /\ LET c == At(index)
         twice == At(index + 1) = c
     IN  CASE c = "n" -> Jump(index + 1, containers)
           [] c = "%" -> Jump(FirstFrom(index + 1, {"n"}), containers)
           [] c = "(" -> LET after == Skip(index + 1)
                         IN  IF after[2] > 0 THEN Unreadable ELSE Jump(after[1], containers)
           [] c = "<" /\ twice -> Jump(index + 2, Append(containers, ">>"))
           [] c = "<" /\ ~twice ->
                LET end == FirstFrom(index + 1, {">"})
                IN  IF end > length THEN Unreadable ELSE Jump(end + 1, containers)
           [] c = "/" -> Jump(FirstFrom(index + 1, WordEnds), containers)
           [] c = "[" -> Jump(index + 1, Append(containers, "]"))
           [] c = "]" -> Close("]", 1)
           [] c = ">" /\ twice -> Close(">>", 2)
           [] c = ")" \/ (c = ">" /\ ~twice) -> Unreadable
           [] OTHER -> Word

Finished ==
  /\ verdict = "scanning" /\ index > length
  /\ IF containers # <<>> THEN Unreadable
     ELSE Conclude(IF found THEN "marked" ELSE IF cut THEN "limit" ELSE "unmarked")

MarkingNext == Scan \/ Finished
MarkingSpec == MarkingInit /\ [][MarkingNext]_markingVars

-----------------------------------------------------------------------------
MarkingTypeOK ==
  /\ content \in Seq(Characters) /\ (cut => length = ScanLimit)
  /\ index \in 1 .. length + 2
  /\ containers \in Seq({">>", "]"})
  /\ found \in BOOLEAN /\ verdict \in {"scanning", "marked", "unmarked", "malformed", "limit"}

(* The definition: what one character does to the state of a reader.  mode is  *)
(* between words, in a word, a name, a comment, a string (with its depth), a   *)
(* hexadecimal string, or after the first of a pair of angle brackets.         *)
Outside == [mode |-> "between", word |-> <<>>, depth |-> 0, open |-> <<>>, marked |-> FALSE,
            over |-> FALSE, bad |-> FALSE]
EndWord(s) ==
  LET paints == s.mode = "word" /\ s.open = <<>> /\ s.word \in Painting
  IN  [s EXCEPT !.mode = "between", !.word = <<>>, !.marked = @ \/ paints,
                !.over = @ \/ (paints /\ s.word = <<"I">>)]
Enter(s, c) ==
  CASE c = "n" -> s
    [] c = "%" -> [s EXCEPT !.mode = "comment"]
    [] c = "/" -> [s EXCEPT !.mode = "name"]
    [] c = "(" -> [s EXCEPT !.mode = "string", !.depth = 1]
    [] c \in {"<", ">"} -> [s EXCEPT !.mode = c]
    [] c = "[" -> [s EXCEPT !.open = Append(@, "]")]
    [] c = "]" -> IF s.open # <<>> /\ Last(s.open) = "]" THEN [s EXCEPT !.open = Front(@)]
                  ELSE [s EXCEPT !.bad = TRUE]
    [] c = ")" -> [s EXCEPT !.bad = TRUE]
    [] OTHER -> [s EXCEPT !.mode = "word", !.word = <<c>>]
Feed(s, c) ==
  IF s.over \/ s.bad THEN s
  ELSE CASE s.mode = "between" -> Enter(s, c)
         [] s.mode \in {"word", "name"} ->
              IF c \in WordEnds
              THEN LET ended == EndWord(s) IN IF ended.over THEN ended ELSE Enter(ended, c)
              ELSE [s EXCEPT !.word = Append(@, c)]
         [] s.mode = "comment" -> IF c = "n" THEN [s EXCEPT !.mode = "between"] ELSE s
         [] s.mode = "escape" -> [s EXCEPT !.mode = "string"]
         [] s.mode = "string" ->
              CASE c = "\\" -> [s EXCEPT !.mode = "escape"]
                [] c = "(" -> [s EXCEPT !.depth = @ + 1]
                [] c = ")" -> [s EXCEPT !.depth = @ - 1,
                                        !.mode = IF s.depth = 1 THEN "between" ELSE "string"]
                [] OTHER -> s
         [] s.mode = "hex" -> IF c = ">" THEN [s EXCEPT !.mode = "between"] ELSE s
         [] s.mode = "<" -> CASE c = "<" -> [s EXCEPT !.mode = "between", !.open = Append(@, ">>")]
                              [] c = ">" -> [s EXCEPT !.mode = "between"]
                              [] OTHER -> [s EXCEPT !.mode = "hex"]
         [] s.mode = ">" -> IF c = ">" /\ s.open # <<>> /\ Last(s.open) = ">>"
                            THEN [s EXCEPT !.mode = "between", !.open = Front(@)]
                            ELSE [s EXCEPT !.bad = TRUE]
\* What has been read after each character of a text.
Reading(text) ==
  LET read[k \in 0 .. Len(text)] == IF k = 0 THEN Outside ELSE Feed(read[k - 1], text[k])
  IN  read
Judgement(text) ==
  LET read == Reading(text)[Len(text)]
      last == IF read.mode \in {"word", "name"} /\ ~read.bad THEN EndWord(read) ELSE read
  IN  IF last.over THEN "marked"
      ELSE IF last.bad \/ last.open # <<>> \/ last.mode \in {"string", "escape", "hex", "<", ">"}
      THEN "malformed"
      ELSE IF last.marked THEN "marked" ELSE "unmarked"

\* The lexer agrees with the definition on every content it sees whole; of a
\* content it sees only the beginning of, it never says that it is blank, and it
\* calls it marked only when the beginning alone is well formed and marked.
LexerIsRight ==
  verdict # "scanning" =>
    IF cut THEN verdict = (IF Judgement(content) = "marked" THEN "marked" ELSE "limit")
    ELSE verdict = Judgement(content)
=============================================================================
