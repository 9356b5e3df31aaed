---------------------------- MODULE PageWindows ----------------------------
(***************************************************************************)
(* The page-window chunker (infrastructure/document_chunker/page_window):  *)
(* it walks over the form-feed-delimited pages of an extracted text and    *)
(* cuts each into overlapping windows that prefer to end after whitespace. *)
(* One step is one turn of one of its two loops.                           *)
(*                                                                         *)
(* A text is the sequence of the kinds of its characters.  A page is the   *)
(* sequence of the positions (from 0) its characters have in the text, so  *)
(* that what a passage quotes can be compared with the offsets computed    *)
(* for it.  Positions inside a page count from 0, as in the code.          *)
(***************************************************************************)
EXTENDS Naturals, Sequences, FiniteSets

CONSTANTS
  Inputs      \* the calls considered: [text, maxChars, overlapChars, ...]

Characters == {"letter", "space", "formfeed"}

\* ChunkingConfiguration.validate_overlap, and the chunker's own check.
ASSUME InputsAssumption ==
  \A input \in Inputs :
    /\ input.text \in Seq(Characters)
    /\ input.maxChars \in Nat
    /\ input.overlapChars \in Nat
    /\ input.overlapChars < input.maxChars

VARIABLES
  input,      \* the text and the profile snapshot's configuration
  cursor,     \* position of the next raw page; beyond the text: no more pages
  pageNumber, \* number of the page being cut
  page,       \* the stripped page, <<>> between pages
  pageStart,  \* position of its first character
  start,      \* where the current window begins in the page
  passages    \* the chunks built so far

chunkerVars == <<input, cursor, pageNumber, page, pageStart, start, passages>>

-----------------------------------------------------------------------------
Lesser(a, b)  == IF a <= b THEN a ELSE b
Greater(a, b) == IF a >= b THEN a ELSE b

\* str.isspace of the character at position p of the text
IsSpace(p) == input.text[p + 1] = "space"

\* len(s) - len(s.lstrip()), as a relation
IsLeading(s, leading) ==
  /\ leading \in 0..Len(s)
  /\ \A i \in 1..leading : IsSpace(s[i])
  /\ leading < Len(s) => ~IsSpace(s[leading + 1])

\* The end of s.rstrip(), given how much whitespace leads.
IsStrippedEnd(s, leading, last) ==
  /\ last \in leading..Len(s)
  /\ \A i \in last + 1..Len(s) : IsSpace(s[i])
  /\ leading < last => ~IsSpace(s[last])

\* The whitespace boundary nearest to the end of the window, if there is one
\* in its second half; otherwise the maximum size.
IsPreferredBreak(limit, end) ==
  LET minimum == start + (limit - start) \div 2
  IN  \/ /\ end \in minimum + 1..limit
         /\ IsSpace(page[end])
         /\ \A i \in end + 1..limit : ~IsSpace(page[i])
      \/ /\ end = limit
         /\ \A i \in minimum + 1..limit : ~IsSpace(page[i])

IsWindowEnd(end) ==
  LET limit == Lesser(start + input.maxChars, Len(page))
  IN  IF limit < Len(page) THEN IsPreferredBreak(limit, end) ELSE end = limit

\* Keep the overlap, moving back to the beginning of a word but never to or
\* before the beginning of the current window.
IsNextStartMistake(end, next) ==
  LET candidate == Greater(end, start + 1)
  IN  /\ next \in start + 1..candidate
      /\ next = start + 1 \/ IsSpace(page[next])
      /\ \A i \in next + 1..candidate : ~IsSpace(page[i])

IsNextStart(end, next) ==
  LET candidate == Greater(end - input.overlapChars, start + 1)
  IN  /\ next \in start + 1..candidate
      /\ next = start + 1 \/ IsSpace(page[next])
      /\ \A i \in next + 1..candidate : ~IsSpace(page[i])

-----------------------------------------------------------------------------
\* chunk() was called with this text by a chunker of this configuration.
ChunkerInit ==
  /\ input \in Inputs
  /\ cursor = 0
  /\ pageNumber = 0
  /\ page = <<>>
  /\ pageStart = 0
  /\ start = 0
  /\ passages = <<>>

\* The next page is split off and stripped; a blank one is passed over.
TakePage ==
  /\ page = <<>>
  /\ cursor <= Len(input.text)
  /\ \E finish \in cursor..Len(input.text) :
       /\ \A i \in cursor + 1..finish : input.text[i] # "formfeed"
       /\ finish < Len(input.text) => input.text[finish + 1] = "formfeed"
       /\ LET raw == [i \in 1..finish - cursor |-> cursor + i - 1]
          IN  \E leading, last \in 0..Len(raw) :
                /\ IsLeading(raw, leading)
                /\ IsStrippedEnd(raw, leading, last)
                /\ page' = SubSeq(raw, leading + 1, last)
                /\ pageStart' = cursor + leading
       /\ cursor' = finish + 1
  /\ pageNumber' = pageNumber + 1
  /\ start' = 0
  /\ UNCHANGED <<input, passages>>

\* The stripped text of a window, raw[leading + 1..last], and where it is.
PassageMistake(raw, leading, last) ==
  [ordinal |-> Len(passages), page |-> pageNumber,
   quotes  |-> SubSeq(raw, leading + 1, last),
   from    |-> pageStart + start,
   to      |-> pageStart + start + last]

Passage(raw, leading, last) ==
  LET from == pageStart + start + leading
  IN  [ordinal |-> Len(passages), page |-> pageNumber,
       quotes  |-> SubSeq(raw, leading + 1, last),
       from    |-> from,
       to      |-> from + (last - leading)]

\* One window becomes a passage unless it is blank; the last one ends the page.
CutWindow ==
  /\ page # <<>>
  /\ \E end \in 1..Len(page) :
       /\ IsWindowEnd(end)
       /\ LET raw == SubSeq(page, start + 1, end)
          IN  \E leading, last \in 0..Len(raw) :
                /\ IsLeading(raw, leading)
                /\ IsStrippedEnd(raw, leading, last)
                /\ passages' = IF leading < last
                               THEN Append(passages, Passage(raw, leading, last))
                               ELSE passages
       /\ IF end = Len(page)
          THEN page' = <<>> /\ start' = 0
          ELSE page' = page /\ IsNextStart(end, start')
  /\ UNCHANGED <<input, cursor, pageNumber, pageStart>>

ChunkerDone == page = <<>> /\ cursor > Len(input.text)

-----------------------------------------------------------------------------
(* Properties *)

\* Types, and where the walk over the text and its windows may be.
ChunkerTypeOK ==
  /\ input.text \in Seq(Characters)
  /\ input.maxChars \in Nat
  /\ input.overlapChars \in 0..input.maxChars - 1
  /\ cursor \in 0..Len(input.text) + 1
  /\ pageNumber \in Nat
  /\ page \in Seq(Nat)
  /\ pageStart \in Nat
  /\ start \in Nat
  /\ page = <<>> => start = 0
  /\ page # <<>> => start < Len(page)

\* How many pages end among the first n characters
PagesBefore(n) == Cardinality({i \in 1..n : input.text[i] = "formfeed"})

\* What a citation points at is what the passage says: the characters between
\* its offsets are, one by one, those it quotes, it stays on one page, and
\* ordinals number the passages from 0 in reading order.
PassagesQuoteText ==
  \A k \in DOMAIN passages :
    LET passage == passages[k]
    IN  /\ passage.ordinal = k - 1
        /\ passage.quotes =
             [i \in 1..passage.to - passage.from |-> passage.from + i - 1]
        /\ passage.from < passage.to
        /\ passage.to <= Len(input.text)
        /\ passage.to - passage.from <= input.maxChars
        /\ passage.page = 1 + PagesBefore(passage.from)
        /\ \A i \in passage.from + 1..passage.to : input.text[i] # "formfeed"
        /\ k > 1 => /\ passages[k - 1].from <= passage.from
                    /\ passages[k - 1].to <= passage.to

Holds(passage, first, last) == passage.from < first /\ last <= passage.to

\* Nothing is lost between two windows: once the chunker is done, a phrase of
\* one page no longer than the overlap and half a window is found whole in a
\* passage, and so is every single printed character.
PhraseLimit == Greater(1, Lesser(input.overlapChars, input.maxChars \div 2))

NothingIsSkipped ==
  ChunkerDone =>
    \A first \in 1..Len(input.text) :
      \A last \in first..Lesser(first + PhraseLimit - 1, Len(input.text)) :
        (/\ \A i \in first..last : input.text[i] # "formfeed"
         /\ input.text[first] = "letter"
         /\ input.text[last] = "letter")
        => \E k \in DOMAIN passages : Holds(passages[k], first, last)

=============================================================================
