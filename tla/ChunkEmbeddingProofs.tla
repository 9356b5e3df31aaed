------------------------- MODULE ChunkEmbeddingProofs -------------------------
(***************************************************************************)
(* Theorems about the chunker (PageWindows) for every text, window and     *)
(* overlap, and about ChunkEmbedding for every number of workers, every    *)
(* batch size and every retry limit.                                       *)
(***************************************************************************)
EXTENDS ScoredPassages, FiniteSetTheorems, SequenceTheorems, TLAPS

\* The n positions of a text from position p on.
From(p, n) == [i \in 1..n |-> p + i - 1]

PassageRecord == [ordinal : Nat, page : Nat, quotes : Seq(Nat), from : Nat, to : Nat]

\* A passage is a stretch of one page that begins and ends with a printed
\* character, and knows the number of that page.
QuotesText(passage) ==
  /\ passage.from < passage.to
  /\ passage.to <= Len(input.text)
  /\ passage.to - passage.from <= input.maxChars
  /\ passage.quotes = From(passage.from, passage.to - passage.from)
  /\ passage.page = 1 + PagesBefore(passage.from)
  /\ \A i \in passage.from + 1..passage.to : input.text[i] # "formfeed"
  /\ input.text[passage.from + 1] # "space"
  /\ input.text[passage.to] # "space"

\* The page being cut lies behind the cursor, and what is left of it begins at
\* start.
PageInv ==
  /\ start < Len(page)
  /\ page = From(pageStart, Len(page))
  /\ pageStart + Len(page) < cursor
  /\ \A i \in pageStart + 1..pageStart + Len(page) : input.text[i] # "formfeed"
  /\ \A n \in pageStart..pageStart + Len(page) : pageNumber = 1 + PagesBefore(n)

\* No passage reaches beyond any end the current window may have, and what lies
\* between its beginning and that of a passage is whitespace.
OrderInv ==
  \A k \in DOMAIN passages :
    /\ passages[k].to < cursor
    /\ page # <<>> =>
         /\ \A end \in 1..Len(page) : IsWindowEnd(end) => passages[k].to <= pageStart + end
         /\ \A p \in pageStart + start..passages[k].from - 1 : input.text[p + 1] = "space"

IsPhrase(first, last) ==
  /\ \A i \in first..last : input.text[i] # "formfeed"
  /\ input.text[first] = "letter"
  /\ input.text[last] = "letter"

\* A phrase is in a passage, or ahead on the page being cut, or on a later page.
PhraseInv ==
  \A first \in 1..Len(input.text) :
    \A last \in first..Lesser(first + PhraseLimit - 1, Len(input.text)) :
      IsPhrase(first, last) =>
        \/ \E k \in DOMAIN passages : Holds(passages[k], first, last)
        \/ first > cursor
        \/ page # <<>> /\ pageStart + start < first /\ last <= pageStart + Len(page)

WalkInv ==
  /\ input \in Inputs
  /\ cursor \in 0..Len(input.text) + 1
  /\ pageNumber \in Nat
  /\ page \in Seq(Nat)
  /\ pageStart \in Nat
  /\ start \in Nat
  /\ page = <<>> => start = 0
  /\ cursor <= Len(input.text) => pageNumber = PagesBefore(cursor)
  /\ page # <<>> => PageInv

PassagesInv ==
  /\ passages \in Seq(PassageRecord)
  /\ \A k \in DOMAIN passages : passages[k].ordinal = k - 1 /\ QuotesText(passages[k])
  /\ \A k \in DOMAIN passages : k > 1 => /\ passages[k - 1].from <= passages[k].from
                                         /\ passages[k - 1].to <= passages[k].to

ChunkerInv ==
  /\ WalkInv
  /\ PassagesInv
  /\ OrderInv
  /\ PhraseInv

-----------------------------------------------------------------------------
(* Stretches of a text, what is stripped from them, and page numbers. *)

LEMMA InputFacts ==
  ASSUME WalkInv
  PROVE  /\ input.text \in Seq(Characters)
         /\ Len(input.text) \in Nat
         /\ \A i \in 1..Len(input.text) : input.text[i] \in Characters
         /\ input.maxChars \in Nat
         /\ input.overlapChars \in Nat
         /\ input.overlapChars < input.maxChars
BY InputsAssumption DEF WalkInv

LEMMA StretchType ==
  ASSUME NEW p \in Nat, NEW n \in Nat
  PROVE  From(p, n) \in Seq(Nat) /\ Len(From(p, n)) = n
BY DEF From

LEMMA SubStretch ==
  ASSUME NEW p \in Nat, NEW n \in Nat, NEW a \in 0..n, NEW b \in a..n
  PROVE  SubSeq(From(p, n), a + 1, b) = From(p + a, b - a)
BY DEF From

\* lstrip and rstrip leave out whitespace only, and what they leave begins and
\* ends with something else.
LEMMA Stripped ==
  ASSUME NEW p \in Nat, NEW n \in Nat, NEW leading \in 0..n, NEW last \in 0..n,
         IsLeading(From(p, n), leading), IsStrippedEnd(From(p, n), leading, last)
  PROVE  /\ leading <= last
         /\ \A i \in p + 1..p + leading : input.text[i] = "space"
         /\ \A i \in p + 1..p + n :
              input.text[i] # "space" => p + leading < i /\ i <= p + last
         /\ leading < last => /\ input.text[p + leading + 1] # "space"
                              /\ input.text[p + last] # "space"
<1> DEFINE s == From(p, n)
<1>1. Len(s) = n /\ \A i \in 1..n : s[i] = p + i - 1
  BY StretchType DEF From
<1>2. \A i \in 1..n : IsSpace(s[i]) <=> input.text[p + i] = "space"
  BY <1>1 DEF IsSpace
<1> HIDE DEF s
<1>3. leading <= last
  BY <1>1 DEF IsStrippedEnd, s
<1>4. \A i \in 1..leading : input.text[p + i] = "space"
  BY <1>2 DEF IsLeading, s
<1>5. \A i \in last + 1..n : input.text[p + i] = "space"
  <2>1. \A i \in last + 1..n : i \in 1..n
    OBVIOUS
  <2>2. \A i \in last + 1..Len(s) : IsSpace(s[i])
    BY DEF IsStrippedEnd, s
  <2> QED BY <1>1, <1>2, <2>1, <2>2
<1>6. \A i \in p + 1..p + n : i - p \in 1..n /\ p + (i - p) = i
  OBVIOUS
<1>7. \A i \in p + 1..p + leading : input.text[i] = "space"
  BY <1>4, <1>6
<1>8. ASSUME NEW i \in p + 1..p + n, input.text[i] # "space"
      PROVE  p + leading < i /\ i <= p + last
  BY <1>3, <1>4, <1>5, <1>6, <1>8
<1>9. leading < last => /\ input.text[p + leading + 1] # "space"
                        /\ input.text[p + last] # "space"
  <2> SUFFICES ASSUME leading < last
               PROVE  /\ input.text[p + leading + 1] # "space"
                      /\ input.text[p + last] # "space"
    OBVIOUS
  <2>1. ~IsSpace(s[leading + 1]) /\ ~IsSpace(s[last])
    BY <1>1 DEF IsLeading, IsStrippedEnd, s
  <2>2. leading + 1 \in 1..n /\ last \in 1..n /\ p + (leading + 1) = p + leading + 1
    OBVIOUS
  <2> QED BY <1>2, <2>1, <2>2
<1> QED BY <1>3, <1>7, <1>8, <1>9

LEMMA PagesBeforeType ==
  ASSUME NEW n \in Nat PROVE PagesBefore(n) \in Nat
<1>1. IsFiniteSet({i \in 1..n : input.text[i] = "formfeed"})
  BY FS_Interval, FS_Subset, 0 \in Int, 1 \in Int, n \in Int
<1> QED BY <1>1, FS_CardinalityType DEF PagesBefore

LEMMA PagesBeforeNone == PagesBefore(0) = 0
<1>1. {i \in 1..0 : input.text[i] = "formfeed"} = {}
  OBVIOUS
<1> QED BY <1>1, FS_EmptySet DEF PagesBefore

\* Within a page the number of pages before does not change ...
LEMMA PagesBeforeSame ==
  ASSUME NEW m \in Nat, NEW n \in Nat, m <= n,
         \A i \in m + 1..n : input.text[i] # "formfeed"
  PROVE  PagesBefore(n) = PagesBefore(m)
<1>1. {i \in 1..n : input.text[i] = "formfeed"} = {i \in 1..m : input.text[i] = "formfeed"}
  OBVIOUS
<1> QED BY <1>1 DEF PagesBefore

\* ... and behind a form feed there is one more.
LEMMA PagesBeforeNext ==
  ASSUME NEW n \in Nat, input.text[n + 1] = "formfeed"
  PROVE  PagesBefore(n + 1) = PagesBefore(n) + 1
<1> DEFINE S == {i \in 1..n : input.text[i] = "formfeed"}
<1>1. {i \in 1..n + 1 : input.text[i] = "formfeed"} = S \cup {n + 1}
  OBVIOUS
<1>2. n + 1 \notin S
  OBVIOUS
<1>3. IsFiniteSet(S)
  BY FS_Interval, FS_Subset, 0 \in Int, 1 \in Int, n \in Int
<1> QED BY <1>1, <1>2, <1>3, FS_AddElement DEF PagesBefore

-----------------------------------------------------------------------------
(* The chunker's walk over pages and windows. *)

\* Where a window may end.
LEMMA WindowEnds ==
  ASSUME WalkInv, page # <<>>, NEW end \in 1..Len(page), IsWindowEnd(end)
  PROVE  /\ start < end
         /\ end <= start + input.maxChars
         /\ end < Len(page) => /\ start + input.maxChars < Len(page)
                               /\ start + input.maxChars \div 2 < end
<1>1. /\ input.maxChars \in Nat /\ input.maxChars > 0
      /\ start \in Nat /\ Len(page) \in Nat /\ start < Len(page)
  BY InputFacts DEF WalkInv, PageInv
<1>2. CASE start + input.maxChars < Len(page)
  <2>1. IsPreferredBreak(start + input.maxChars, end)
    BY <1>1, <1>2 DEF IsWindowEnd, Lesser
  <2>2. \/ end \in (start + input.maxChars \div 2) + 1..start + input.maxChars
        \/ end = start + input.maxChars
    <3>1. PICK minimum, limit :
            /\ limit = start + input.maxChars
            /\ minimum = start + (limit - start) \div 2
            /\ end \in minimum + 1..limit \/ end = limit
      BY Zenon, <2>1 DEF IsPreferredBreak
    <3>2. limit - start = input.maxChars
      BY <1>1, <3>1
    <3>3. (limit - start) \div 2 = input.maxChars \div 2
      BY <3>2
    <3> QED BY <3>1, <3>3
  <2>3. input.maxChars \div 2 \in Nat /\ input.maxChars \div 2 < input.maxChars
    BY <1>1
  <2> QED BY <1>1, <1>2, <2>2, <2>3
<1>3. CASE ~(start + input.maxChars < Len(page))
  <2>1. end = Len(page)
    BY <1>1, <1>3 DEF IsWindowEnd, Lesser
  <2> QED BY <1>1, <1>3, <2>1
<1> QED BY <1>2, <1>3

\* Where the next one begins.
LEMMA NextStarts ==
  ASSUME WalkInv, page # <<>>, NEW end \in 1..Len(page), start < end, NEW next,
         IsNextStart(end, next)
  PROVE  /\ next \in Nat
         /\ start < next
         /\ next <= end
         /\ next <= end - input.overlapChars \/ next = start + 1
BY InputFacts DEF WalkInv, IsNextStart, Greater

\* A page that has been taken, up to the position finish of its form feed.
PageTaken(finish, leading, last) ==
  /\ page = <<>> /\ cursor <= Len(input.text)
  /\ finish \in cursor..Len(input.text)
  /\ \A i \in cursor + 1..finish : input.text[i] # "formfeed"
  /\ finish < Len(input.text) => input.text[finish + 1] = "formfeed"
  /\ leading \in 0..finish - cursor /\ last \in leading..finish - cursor
  /\ page' = From(cursor + leading, last - leading)
  /\ Len(page') = last - leading
  /\ pageStart' = cursor + leading
  /\ \A i \in cursor + 1..finish :
       input.text[i] # "space" => cursor + leading < i /\ i <= cursor + last
  /\ cursor' = finish + 1
  /\ pageNumber' = pageNumber + 1
  /\ start' = 0
  /\ UNCHANGED <<input, passages>>

LEMMA TakePageIs ==
  ASSUME WalkInv, TakePage
  PROVE  \E finish, leading, last : PageTaken(finish, leading, last)
<1>1. Len(input.text) \in Nat /\ cursor \in Nat
  BY InputFacts DEF WalkInv
<1>2. PICK finish \in cursor..Len(input.text) :
        /\ page = <<>> /\ cursor <= Len(input.text)
        /\ \A i \in cursor + 1..finish : input.text[i] # "formfeed"
        /\ finish < Len(input.text) => input.text[finish + 1] = "formfeed"
        /\ \E leading, last \in 0..Len(From(cursor, finish - cursor)) :
             /\ IsLeading(From(cursor, finish - cursor), leading)
             /\ IsStrippedEnd(From(cursor, finish - cursor), leading, last)
             /\ page' = SubSeq(From(cursor, finish - cursor), leading + 1, last)
             /\ pageStart' = cursor + leading
        /\ cursor' = finish + 1
        /\ pageNumber' = pageNumber + 1
        /\ start' = 0
        /\ UNCHANGED <<input, passages>>
  BY Zenon DEF TakePage, From
<1>3. finish - cursor \in Nat /\ cursor + (finish - cursor) = finish
  BY <1>1
<1>4. Len(From(cursor, finish - cursor)) = finish - cursor
  BY <1>1, <1>3, StretchType
<1>5. PICK leading \in 0..finish - cursor, last \in 0..finish - cursor :
        /\ IsLeading(From(cursor, finish - cursor), leading)
        /\ IsStrippedEnd(From(cursor, finish - cursor), leading, last)
        /\ page' = SubSeq(From(cursor, finish - cursor), leading + 1, last)
        /\ pageStart' = cursor + leading
  BY <1>2, <1>4
<1>6. /\ leading <= last
      /\ \A i \in cursor + 1..finish :
           input.text[i] # "space" => cursor + leading < i /\ i <= cursor + last
  BY <1>1, <1>3, <1>5, Stripped
<1>7. last \in leading..finish - cursor
  BY <1>3, <1>6
<1>8. page' = From(cursor + leading, last - leading)
  BY <1>1, <1>3, <1>5, <1>7, SubStretch
<1>9. Len(page') = last - leading
  BY <1>1, <1>7, <1>8, StretchType, cursor + leading \in Nat, last - leading \in Nat
<1>10. PageTaken(finish, leading, last)
  BY <1>2, <1>5, <1>6, <1>7, <1>8, <1>9 DEF PageTaken
<1> QED BY <1>10

\* The passage cut from a window by stripping it.
CutPassage(leading, last) ==
  [ordinal |-> Len(passages), page |-> pageNumber,
   quotes |-> From(pageStart + start + leading, last - leading),
   from |-> pageStart + start + leading,
   to |-> pageStart + start + leading + (last - leading)]

\* A window that has been cut, up to the position end of the page.
WindowCut(end, leading, last) ==
  /\ page # <<>> /\ end \in 1..Len(page) /\ IsWindowEnd(end)
  /\ start < end
  /\ leading \in 0..end - start /\ last \in leading..end - start
  /\ \A i \in pageStart + start + 1..pageStart + start + leading : input.text[i] = "space"
  /\ \A i \in pageStart + start + 1..pageStart + end :
       input.text[i] # "space" => /\ pageStart + start + leading < i
                                  /\ i <= pageStart + start + last
  /\ leading < last => /\ input.text[pageStart + start + leading + 1] # "space"
                       /\ input.text[pageStart + start + last] # "space"
  /\ passages' = IF leading < last THEN Append(passages, CutPassage(leading, last))
                 ELSE passages
  /\ \/ end = Len(page) /\ page' = <<>> /\ start' = 0
     \/ end < Len(page) /\ page' = page /\ IsNextStart(end, start')
  /\ UNCHANGED <<input, cursor, pageNumber, pageStart>>

LEMMA CutWindowIs ==
  ASSUME WalkInv, CutWindow
  PROVE  \E end, leading, last : WindowCut(end, leading, last)
<1>1. PICK end \in 1..Len(page) :
        /\ page # <<>>
        /\ IsWindowEnd(end)
        /\ \E leading, last \in 0..Len(SubSeq(page, start + 1, end)) :
             /\ IsLeading(SubSeq(page, start + 1, end), leading)
             /\ IsStrippedEnd(SubSeq(page, start + 1, end), leading, last)
             /\ passages' =
                  IF leading < last
                  THEN Append(passages, Passage(SubSeq(page, start + 1, end), leading, last))
                  ELSE passages
        /\ IF end = Len(page)
           THEN page' = <<>> /\ start' = 0
           ELSE page' = page /\ IsNextStart(end, start')
        /\ UNCHANGED <<input, cursor, pageNumber, pageStart>>
  BY Zenon DEF CutWindow
<1>2. /\ start \in Nat /\ pageStart \in Nat /\ Len(page) \in Nat
      /\ page = From(pageStart, Len(page)) /\ start < end
  BY <1>1, WindowEnds DEF WalkInv, PageInv
<1>3. SubSeq(page, start + 1, end) = From(pageStart + start, end - start)
  <2>1. PICK n : n = Len(page)
    OBVIOUS
  <2>2. n \in Nat /\ page = From(pageStart, n) /\ start \in 0..n /\ end \in start..n
    BY <1>2, <2>1
  <2>3. SubSeq(From(pageStart, n), start + 1, end) = From(pageStart + start, end - start)
    BY <1>2, <2>2, SubStretch
  <2> QED BY <2>2, <2>3
<1>4. Len(From(pageStart + start, end - start)) = end - start
  BY <1>2, StretchType, pageStart + start \in Nat, end - start \in Nat
<1>5. PICK leading \in 0..end - start, last \in 0..end - start :
        /\ IsLeading(From(pageStart + start, end - start), leading)
        /\ IsStrippedEnd(From(pageStart + start, end - start), leading, last)
        /\ passages' =
             IF leading < last
             THEN Append(passages, Passage(From(pageStart + start, end - start), leading, last))
             ELSE passages
  BY <1>1, <1>3, <1>4
<1>6. /\ pageStart + start \in Nat /\ end - start \in Nat
      /\ pageStart + start + (end - start) = pageStart + end
  BY <1>2
<1>7. /\ leading <= last
      /\ \A i \in pageStart + start + 1..pageStart + start + leading : input.text[i] = "space"
      /\ \A i \in pageStart + start + 1..pageStart + end :
           input.text[i] # "space" => /\ pageStart + start + leading < i
                                      /\ i <= pageStart + start + last
      /\ leading < last => /\ input.text[pageStart + start + leading + 1] # "space"
                           /\ input.text[pageStart + start + last] # "space"
  <2>1. PICK p, n : p = pageStart + start /\ n = end - start
    OBVIOUS
  <2>2. p \in Nat /\ n \in Nat /\ p + n = pageStart + end
    BY <1>6, <2>1
  <2>3. /\ leading <= last
        /\ \A i \in p + 1..p + leading : input.text[i] = "space"
        /\ \A i \in p + 1..p + n :
             input.text[i] # "space" => p + leading < i /\ i <= p + last
        /\ leading < last => /\ input.text[p + leading + 1] # "space"
                             /\ input.text[p + last] # "space"
    <3>1. /\ leading \in 0..n /\ last \in 0..n
          /\ IsLeading(From(p, n), leading) /\ IsStrippedEnd(From(p, n), leading, last)
      BY <1>5, <2>1
    <3> QED BY <2>2, <3>1, Stripped
  <2> QED BY <2>1, <2>2, <2>3
<1>8. last \in leading..end - start
  BY <1>6, <1>7
<1>9. SubSeq(From(pageStart + start, end - start), leading + 1, last)
        = From(pageStart + start + leading, last - leading)
  BY <1>6, <1>8, SubStretch
<1>10. end = Len(page) \/ end < Len(page)
  BY <1>2
<1>11. WindowCut(end, leading, last)
  BY <1>1, <1>2, <1>5, <1>7, <1>8, <1>9, <1>10 DEF WindowCut, Passage, CutPassage
<1> QED BY <1>11

LEMMA TakePageWalk ==
  ASSUME WalkInv, TakePage
  PROVE  WalkInv'
<1>1. PICK finish, leading, last : PageTaken(finish, leading, last)
  BY TakePageIs
<1> USE <1>1 DEF PageTaken
<1>2. /\ Len(input.text) \in Nat /\ cursor \in Nat /\ finish \in Nat
      /\ leading \in Nat /\ last \in Nat
  BY InputFacts DEF WalkInv
<1>3. /\ input' \in Inputs
      /\ cursor' \in 0..Len(input'.text) + 1
      /\ pageNumber' \in Nat
      /\ pageStart' \in Nat
      /\ start' = 0
  BY <1>2 DEF WalkInv
<1>4. page' \in Seq(Nat)
  BY <1>2, StretchType, cursor + leading \in Nat, last - leading \in Nat
<1>5. pageNumber = PagesBefore(cursor)
  BY DEF WalkInv
<1>6. \A n \in cursor..finish : PagesBefore(n) = PagesBefore(cursor)
  <2> SUFFICES ASSUME NEW n \in cursor..finish PROVE PagesBefore(n) = PagesBefore(cursor)
    OBVIOUS
  <2>1. n \in Nat /\ cursor <= n /\ \A i \in cursor + 1..n : input.text[i] # "formfeed"
    BY <1>2
  <2> QED BY <1>2, <2>1, PagesBeforeSame
<1>7. cursor' <= Len(input'.text) => pageNumber' = PagesBefore(cursor)'
  <2> SUFFICES ASSUME finish < Len(input.text) PROVE pageNumber' = PagesBefore(cursor)'
    BY <1>2
  <2>1. PagesBefore(finish + 1) = PagesBefore(finish) + 1
    BY <1>2, PagesBeforeNext
  <2>2. pageNumber' = PagesBefore(finish + 1)
    BY <1>2, <1>5, <1>6, <2>1
  <2> QED BY <2>2 DEF PagesBefore
<1>8. ASSUME page' # <<>> PROVE PageInv'
  <2>1. Len(page') > 0
    BY <1>4, <1>8
  <2>2. /\ start' < Len(page')
        /\ page' = From(pageStart', Len(page'))
        /\ pageStart' + Len(page') < cursor'
    BY <1>2, <2>1
  <2>3. \A i \in pageStart' + 1..pageStart' + Len(page') : input'.text[i] # "formfeed"
    BY <1>2
  <2>4. \A n \in pageStart'..pageStart' + Len(page') : n \in cursor..finish
    BY <1>2
  <2>5. \A n \in pageStart'..pageStart' + Len(page') : pageNumber' = 1 + PagesBefore(n)
    BY <1>5, <1>6, <2>4 DEF WalkInv
  <2>6. \A n \in pageStart'..pageStart' + Len(page') : pageNumber' = 1 + PagesBefore(n)'
    BY <2>5 DEF PagesBefore
  <2> QED BY <2>2, <2>3, <2>6 DEF PageInv, From
<1> QED BY <1>3, <1>4, <1>7, <1>8 DEF WalkInv

LEMMA CutWindowWalk ==
  ASSUME WalkInv, NEW end, NEW leading, NEW last, WindowCut(end, leading, last)
  PROVE  WalkInv'
<1>1. /\ UNCHANGED <<input, cursor, pageNumber, pageStart>>
      /\ page # <<>> /\ end \in 1..Len(page) /\ start < end
      /\ \/ end = Len(page) /\ page' = <<>> /\ start' = 0
         \/ end < Len(page) /\ page' = page /\ IsNextStart(end, start')
  BY DEF WindowCut
<1>2. CASE end = Len(page) /\ page' = <<>> /\ start' = 0
  BY <1>1, <1>2 DEF WalkInv, PagesBefore
<1>3. CASE end < Len(page) /\ page' = page /\ IsNextStart(end, start')
  <2>1. start' \in Nat /\ start' <= end
    BY <1>1, <1>3, NextStarts
  <2>2. start' < Len(page)
    BY <1>1, <1>3, <2>1 DEF WalkInv
  <2>3. PageInv'
    BY <1>1, <1>3, <2>2 DEF WalkInv, PageInv, PagesBefore, From
  <2> QED BY <1>1, <1>3, <2>1, <2>3 DEF WalkInv, PagesBefore
<1> QED BY <1>1, <1>2, <1>3

-----------------------------------------------------------------------------
(* The passages cut. *)

LEMMA NewPassage ==
  ASSUME WalkInv, passages \in Seq(PassageRecord),
         NEW end, NEW leading, NEW last, WindowCut(end, leading, last), leading < last,
         NEW new, new = CutPassage(leading, last)
  PROVE  /\ new \in PassageRecord
         /\ new.ordinal = Len(passages)
         /\ new.from = pageStart + start + leading
         /\ new.to = pageStart + start + last
         /\ new.to <= pageStart + end
         /\ QuotesText(new)
<1> DEFINE from == pageStart + start + leading
<1>1. /\ pageStart \in Nat /\ start \in Nat /\ Len(page) \in Nat /\ pageNumber \in Nat
      /\ cursor \in Nat /\ Len(input.text) \in Nat /\ input.maxChars \in Nat
      /\ page # <<>> /\ PageInv /\ cursor <= Len(input.text) + 1
  BY InputFacts DEF WalkInv, WindowCut
<1>2. /\ end \in 1..Len(page) /\ IsWindowEnd(end) /\ start < end
      /\ leading \in Nat /\ last \in Nat /\ last <= end - start
  BY <1>1 DEF WindowCut
<1>3. /\ from \in Nat /\ last - leading \in Nat
      /\ from + (last - leading) = pageStart + start + last
  BY <1>1, <1>2
<1>4. From(from, last - leading) \in Seq(Nat) /\ Len(passages) \in Nat
  BY <1>3, StretchType
<1>5. /\ new \in PassageRecord
      /\ new.ordinal = Len(passages)
      /\ new.page = pageNumber
      /\ new.quotes = From(from, last - leading)
      /\ new.from = from
      /\ new.to = from + (last - leading)
  BY <1>1, <1>3, <1>4 DEF CutPassage, PassageRecord
<1>6. /\ new.to = pageStart + start + last
      /\ new.to - new.from = last - leading
      /\ new.to <= pageStart + end
      /\ new.from < new.to
  BY <1>1, <1>2, <1>3, <1>5
<1>7. end <= start + input.maxChars
  BY <1>1, <1>2, WindowEnds
<1>8. /\ new.to <= Len(input.text)
      /\ new.to - new.from <= input.maxChars
  BY <1>1, <1>2, <1>3, <1>6, <1>7 DEF PageInv
<1>9. from \in pageStart..pageStart + Len(page)
  BY <1>1, <1>2
<1>10. new.page = 1 + PagesBefore(new.from)
  BY <1>1, <1>5, <1>9 DEF PageInv
<1>11. \A i \in new.from + 1..new.to : i \in pageStart + 1..pageStart + Len(page)
  BY <1>1, <1>2, <1>3, <1>5, <1>6
<1>12. \A i \in new.from + 1..new.to : input.text[i] # "formfeed"
  BY <1>1, <1>11 DEF PageInv
<1>13. input.text[new.from + 1] # "space" /\ input.text[new.to] # "space"
  BY <1>5, <1>6 DEF WindowCut
<1> QED BY <1>5, <1>6, <1>8, <1>10, <1>12, <1>13 DEF QuotesText

\* The end of the next window is not before that of the last one, although it may
\* be moved back to whitespace.
LEMMA EndsGrow ==
  ASSUME WalkInv, NEW end, NEW leading, NEW last, WindowCut(end, leading, last),
         page' # <<>>, NEW next \in 1..Len(page'), IsWindowEnd(next)'
  PROVE  end <= next
<1> DEFINE Space(i) == input.text[page[i] + 1] = "space"
<1>1. PICK half : half = input.maxChars \div 2
  OBVIOUS
<1>2. /\ end < Len(page) /\ page' = page /\ input' = input /\ IsNextStart(end, start')
      /\ page # <<>> /\ end \in 1..Len(page) /\ IsWindowEnd(end) /\ start < end
  BY DEF WindowCut
<1>3. start' \in Nat /\ start < start'
  BY <1>2, NextStarts
<1>4. /\ start \in Nat /\ Len(page) \in Nat /\ next \in 1..Len(page)
      /\ input.maxChars \in Nat /\ half \in Nat
  BY <1>1, <1>2, InputFacts DEF WalkInv
<1>5. start + input.maxChars < Len(page) /\ end <= start + input.maxChars
  BY <1>2, WindowEnds
<1>6. \/ Space(end)
      \/ /\ end = start + input.maxChars
         /\ \A i \in start + half + 1..start + input.maxChars : ~Space(i)
  <2>1. IsPreferredBreak(start + input.maxChars, end)
    BY <1>2, <1>4, <1>5 DEF IsWindowEnd, Lesser
  <2>2. PICK minimum, limit :
          /\ limit = start + input.maxChars
          /\ minimum = start + (limit - start) \div 2
          /\ \/ Space(end)
             \/ end = limit /\ \A i \in minimum + 1..limit : ~Space(i)
    BY Zenon, <2>1 DEF IsPreferredBreak, IsSpace
  <2>3. limit - start = input.maxChars
    BY <1>4, <2>2
  <2>4. (limit - start) \div 2 = half
    BY <1>1, <2>3
  <2> QED BY <2>2, <2>4
<1>7. CASE start' + input.maxChars < Len(page)
  <2>1. IsPreferredBreak(start + input.maxChars, next)'
    BY <1>2, <1>3, <1>4, <1>7 DEF IsWindowEnd, Lesser
  <2>2. PICK minimum, limit :
          /\ limit = start' + input.maxChars
          /\ minimum = start' + (limit - start') \div 2
          /\ \/ /\ next \in minimum + 1..limit
                /\ Space(next)
                /\ \A i \in next + 1..limit : ~Space(i)
             \/ next = limit
    BY Zenon, <1>2, <2>1 DEF IsPreferredBreak, IsSpace
  <2>3. limit - start' = input.maxChars
    BY <1>3, <1>4, <2>2
  <2>4. minimum = start' + half
    <3>1. (limit - start') \div 2 = half
      BY <1>1, <2>3
    <3> QED BY <2>2, <3>1
  <2> HIDE DEF Space
  <2>5. start \in Int /\ start' \in Int /\ input.maxChars \in Int /\ half \in Int
    BY <1>3, <1>4
  <2>6. /\ limit \in Int /\ start + input.maxChars < limit
        /\ minimum \in Int /\ start + half < minimum
    <3>1. PICK s, t : s = start /\ t = start'
      OBVIOUS
    <3>2. s \in Int /\ t \in Int /\ s < t /\ limit = t + input.maxChars /\ minimum = t + half
      BY <1>3, <2>2, <2>4, <2>5, <3>1
    <3>3. /\ limit \in Int /\ s + input.maxChars < limit
          /\ minimum \in Int /\ s + half < minimum
      BY <2>5, <3>2
    <3> QED BY <3>1, <3>3
  <2>7. end \in Nat /\ next \in Nat
    BY <1>2, <1>4
  <2>8. CASE next = limit
    BY <1>5, <2>5, <2>6, <2>7, <2>8
  <2>9. CASE /\ next \in minimum + 1..limit
             /\ Space(next)
             /\ \A i \in next + 1..limit : ~Space(i)
    <3> SUFFICES ASSUME next < end PROVE FALSE
      BY <1>2, <1>4
    <3>1. end \in next + 1..limit
      BY <1>5, <2>5, <2>6, <2>7
    <3>2. next \in start + half + 1..start + input.maxChars
      BY <1>5, <2>5, <2>6, <2>7, <2>9
    <3> QED BY <1>6, <2>9, <3>1, <3>2
  <2> QED BY <2>2, <2>8, <2>9
<1>8. CASE ~(start' + input.maxChars < Len(page))
  <2>1. next = Len(page)
    BY <1>2, <1>3, <1>4, <1>8 DEF IsWindowEnd, Lesser
  <2> QED BY <1>2, <1>4, <2>1
<1> QED BY <1>7, <1>8

LEMMA PassageFacts ==
  ASSUME PassagesInv
  PROVE  /\ Len(passages) \in Nat
         /\ DOMAIN passages = 1..Len(passages)
         /\ \A k \in DOMAIN passages : /\ passages[k].from \in Nat
                                       /\ passages[k].to \in Nat
                                       /\ passages[k].from < passages[k].to
<1>1. passages \in Seq(PassageRecord)
  BY DEF PassagesInv
<1>2. ASSUME NEW k \in DOMAIN passages
      PROVE  /\ passages[k].from \in Nat
             /\ passages[k].to \in Nat
             /\ passages[k].from < passages[k].to
  <2>1. passages[k] \in PassageRecord
    BY <1>1
  <2> QED BY <1>2, <2>1 DEF PassagesInv, PassageRecord, QuotesText
<1> QED BY <1>1, <1>2

\* A passage is appended, or all stay as they are.
LEMMA PassagesCut ==
  ASSUME WalkInv, PassagesInv,
         NEW end, NEW leading, NEW last, WindowCut(end, leading, last)
  PROVE  \/ UNCHANGED passages
         \/ /\ leading < last
            /\ passages' = Append(passages, CutPassage(leading, last))
            /\ DOMAIN passages' = 1..Len(passages) + 1
            /\ \A k \in DOMAIN passages : passages'[k] = passages[k]
            /\ passages'[Len(passages) + 1] = CutPassage(leading, last)
<1>1. passages \in Seq(PassageRecord)
  BY DEF PassagesInv
<1>2. CASE leading < last
  <2>1. passages' = Append(passages, CutPassage(leading, last))
    BY <1>2 DEF WindowCut
  <2> QED BY <1>1, <1>2, <2>1
<1>3. CASE ~(leading < last)
  BY <1>3 DEF WindowCut
<1> QED BY <1>2, <1>3

\* Passages come in the order in which they begin and end in the text.
LEMMA NewPassageOrder ==
  ASSUME WalkInv, PassagesInv, OrderInv, NEW end, NEW leading, NEW last,
         WindowCut(end, leading, last), leading < last, NEW k \in DOMAIN passages
  PROVE  /\ passages[k].from <= pageStart + start + leading
         /\ passages[k].to <= pageStart + start + last
<1>1. /\ pageStart \in Nat /\ start \in Nat /\ Len(page) \in Nat /\ page # <<>>
      /\ end \in 1..Len(page) /\ IsWindowEnd(end) /\ leading \in Nat /\ last \in Nat
      /\ input.text[pageStart + start + leading + 1] # "space"
      /\ \A i \in pageStart + start + 1..pageStart + end :
           input.text[i] # "space" => i <= pageStart + start + last
  BY DEF WindowCut, WalkInv
<1>2. /\ passages[k].from \in Nat /\ passages[k].to \in Nat
      /\ input.text[passages[k].to] # "space"
  BY PassageFacts DEF PassagesInv, QuotesText
<1>3. /\ passages[k].to <= pageStart + end
      /\ \A p \in pageStart + start..passages[k].from - 1 : input.text[p + 1] = "space"
  BY <1>1 DEF OrderInv
<1>4. pageStart + start + leading \notin pageStart + start..passages[k].from - 1
  BY <1>1, <1>3
<1>5. passages[k].from <= pageStart + start + leading
  BY <1>1, <1>2, <1>4
<1>6. ASSUME pageStart + start + last < passages[k].to PROVE FALSE
  <2>1. passages[k].to \in pageStart + start + 1..pageStart + end
    BY <1>1, <1>2, <1>3, <1>6
  <2> QED BY <1>1, <1>2, <1>6, <2>1
<1> QED BY <1>1, <1>2, <1>5, <1>6

LEMMA TakePagePassages ==
  ASSUME WalkInv, PassagesInv, OrderInv, TakePage
  PROVE  PassagesInv' /\ OrderInv'
<1>1. PICK finish, leading, last : PageTaken(finish, leading, last)
  BY TakePageIs
<1>2. /\ UNCHANGED <<input, passages>> /\ cursor' = finish + 1 /\ start' = 0
      /\ pageStart' = cursor + leading /\ finish \in Nat /\ cursor <= finish
      /\ cursor \in Nat /\ leading \in Nat
  BY <1>1, InputFacts DEF PageTaken, WalkInv
<1>3. PassagesInv'
  BY <1>2 DEF PassagesInv, QuotesText, PagesBefore
<1>4. ASSUME NEW k \in DOMAIN passages
      PROVE  /\ passages[k].to < cursor'
             /\ \A end \in 1..Len(page') : passages[k].to <= pageStart' + end
             /\ \A p \in pageStart' + start'..passages[k].from - 1 : input.text[p + 1] = "space"
  <2>1. passages[k].to < cursor /\ passages[k].from < passages[k].to
        /\ passages[k].from \in Nat /\ passages[k].to \in Nat
    BY PassageFacts DEF OrderInv
  <2>2. \A p \in pageStart' + start'..passages[k].from - 1 : FALSE
    BY <1>2, <2>1
  <2>3. \A end \in 1..Len(page') : passages[k].to <= pageStart' + end
    <3> SUFFICES ASSUME NEW end \in Nat PROVE passages[k].to <= pageStart' + end
      OBVIOUS
    <3> QED BY <1>2, <2>1
  <2> QED BY <1>2, <2>1, <2>2, <2>3
<1>5. OrderInv'
  BY <1>2, <1>4 DEF OrderInv
<1> QED BY <1>3, <1>5

LEMMA CutWindowPassages ==
  ASSUME WalkInv, PassagesInv, OrderInv,
         NEW end, NEW leading, NEW last, WindowCut(end, leading, last)
  PROVE  PassagesInv' /\ OrderInv'
<1>1. /\ UNCHANGED <<input, cursor, pageNumber, pageStart>>
      /\ page # <<>> /\ PageInv /\ end \in 1..Len(page) /\ IsWindowEnd(end) /\ start < end
      /\ pageStart \in Nat /\ start \in Nat /\ Len(page) \in Nat /\ cursor \in Nat
      /\ \/ end = Len(page) /\ page' = <<>>
         \/ end < Len(page) /\ page' = page /\ IsNextStart(end, start')
  BY InputFacts DEF WindowCut, WalkInv
<1> DEFINE new == CutPassage(leading, last)
           n == Len(passages)
<1>2. n \in Nat /\ DOMAIN passages = 1..n /\ passages \in Seq(PassageRecord)
  BY PassageFacts DEF PassagesInv
<1>3. ASSUME leading < last
      PROVE  /\ new \in PassageRecord /\ new.ordinal = n /\ QuotesText(new)
             /\ new.from = pageStart + start + leading
             /\ new.to = pageStart + start + last
             /\ new.to <= pageStart + end
             /\ new.from \in Nat /\ new.to \in Nat
  BY <1>2, <1>3, NewPassage DEF PassageRecord
<1> HIDE DEF new
<1>4. \/ UNCHANGED passages
      \/ /\ leading < last
         /\ passages' = Append(passages, new)
         /\ DOMAIN passages' = 1..n + 1
         /\ \A k \in DOMAIN passages : passages'[k] = passages[k]
         /\ passages'[n + 1] = new
  BY PassagesCut DEF new
<1>5. PassagesInv'
  <2>0. \A passage : QuotesText(passage) => QuotesText(passage)'
    BY <1>1 DEF QuotesText, PagesBefore
  <2>1. CASE UNCHANGED passages
    BY <1>1, <2>1 DEF PassagesInv, QuotesText, PagesBefore
  <2>2. CASE /\ leading < last
             /\ passages' = Append(passages, new)
             /\ DOMAIN passages' = 1..n + 1
             /\ \A k \in DOMAIN passages : passages'[k] = passages[k]
             /\ passages'[n + 1] = new
    <3>1. passages' \in Seq(PassageRecord)
      BY <1>2, <1>3, <2>2
    <3>2. \A k \in DOMAIN passages' :
            passages'[k].ordinal = k - 1 /\ QuotesText(passages'[k])
      BY <1>2, <1>3, <2>2 DEF PassagesInv
    <3>3. \A k \in DOMAIN passages : /\ passages[k].from <= new.from
                                     /\ passages[k].to <= new.to
      BY <1>3, <2>2, NewPassageOrder
    <3>4. \A k \in DOMAIN passages' :
            k > 1 => /\ passages'[k - 1].from <= passages'[k].from
                     /\ passages'[k - 1].to <= passages'[k].to
      <4> SUFFICES ASSUME NEW k \in 2..n + 1
                   PROVE  /\ passages'[k - 1].from <= passages'[k].from
                          /\ passages'[k - 1].to <= passages'[k].to
        BY <1>2, <2>2
      <4>1. CASE k = n + 1
        <5>1. n \in DOMAIN passages /\ k - 1 = n
          BY <1>2, <4>1
        <5>2. passages'[n] = passages[n] /\ passages'[k] = new
          BY <2>2, <4>1, <5>1
        <5> QED BY <3>3, <5>1, <5>2
      <4>2. CASE k <= n
        <5>1. k \in DOMAIN passages /\ k - 1 \in DOMAIN passages /\ k > 1
          BY <1>2, <4>2
        <5>2. /\ passages[k - 1].from <= passages[k].from
              /\ passages[k - 1].to <= passages[k].to
          BY <5>1 DEF PassagesInv
        <5> QED BY <2>2, <5>1, <5>2
      <4> QED BY <1>2, <4>1, <4>2
    <3>5. PICK all : all = passages'
      OBVIOUS
    <3>6. \A k \in DOMAIN all : all[k].ordinal = k - 1 /\ QuotesText(all[k])'
      BY <2>0, <3>2, <3>5
    <3> QED BY <3>1, <3>4, <3>5, <3>6 DEF PassagesInv, QuotesText
  <2> QED BY <1>4, <2>1, <2>2
<1>6. ASSUME NEW k \in DOMAIN passages'
      PROVE  passages'[k].to \in Nat /\ passages'[k].to <= pageStart + end
  <2>1. CASE k \in DOMAIN passages /\ passages'[k] = passages[k]
    BY <1>1, <2>1, PassageFacts DEF OrderInv
  <2>2. CASE leading < last /\ passages'[k] = new
    BY <1>3, <2>2
  <2> QED BY <1>2, <1>4, <2>1, <2>2
<1>7. ASSUME NEW k \in DOMAIN passages',
             NEW p \in pageStart + start..passages'[k].from - 1
      PROVE  input.text[p + 1] = "space"
  <2>1. CASE k \in DOMAIN passages /\ passages'[k] = passages[k]
    BY <1>1, <1>7, <2>1 DEF OrderInv
  <2>2. CASE leading < last /\ passages'[k] = new
    <3>1. p + 1 \in pageStart + start + 1..pageStart + start + leading
      BY <1>1, <1>3, <2>2
    <3> QED BY <3>1 DEF WindowCut
  <2> QED BY <1>2, <1>4, <2>1, <2>2
<1>8. OrderInv'
  <2>1. \A k \in DOMAIN passages' : passages'[k].to < cursor'
    BY <1>1, <1>6 DEF PageInv
  <2>2. ASSUME NEW k \in DOMAIN passages', page' # <<>>,
               NEW next \in 1..Len(page'), IsWindowEnd(next)'
        PROVE  passages'[k].to <= pageStart' + next
    <3>1. end <= next
      BY <2>2, EndsGrow
    <3> QED BY <1>1, <1>6, <2>2, <3>1
  <2>3. ASSUME NEW k \in DOMAIN passages', page' # <<>>,
               NEW p \in pageStart' + start'..passages'[k].from - 1
        PROVE  input'.text[p + 1] = "space"
    <3>1. start' \in Nat /\ start < start'
      BY <1>1, <2>3, NextStarts
    <3>2. p \in pageStart + start..passages'[k].from - 1
      BY <1>1, <3>1
    <3> QED BY <1>1, <1>7, <3>2
  <2> QED BY <2>1, <2>2, <2>3 DEF OrderInv
<1> QED BY <1>5, <1>8

-----------------------------------------------------------------------------
(* No phrase is passed over. *)

LEMMA TakePagePhrases ==
  ASSUME WalkInv, PassagesInv, PhraseInv, TakePage
  PROVE  PhraseInv'
<1>1. PICK finish, leading, end : PageTaken(finish, leading, end)
  BY TakePageIs
<1>2. PICK size, limit : size = Len(input.text) /\ limit = PhraseLimit
  OBVIOUS
<1>3. /\ UNCHANGED <<input, passages>> /\ page = <<>>
      /\ cursor \in Nat /\ size \in Nat
      /\ finish \in cursor..size /\ leading \in Nat /\ end \in leading..finish - cursor
      /\ finish < size => input.text[finish + 1] = "formfeed"
      /\ Len(page') = end - leading /\ pageStart' = cursor + leading /\ start' = 0
      /\ cursor' = finish + 1 /\ limit \in Nat
  BY <1>1, <1>2, InputFacts DEF PageTaken, WalkInv, PhraseLimit, Greater, Lesser
<1>4. ASSUME NEW first \in 1..size, NEW last \in first..Lesser(first + limit - 1, size),
             IsPhrase(first, last), first > cursor
      PROVE  \/ first > cursor'
             \/ page' # <<>> /\ pageStart' + start' < first /\ last <= pageStart' + Len(page')
  <2>1. last \in first..size
    BY <1>3 DEF Lesser
  <2>2. \A i \in first..last : input.text[i] # "formfeed"
    BY <1>4 DEF IsPhrase
  <2>3. finish + 1 \notin first..last
    <3>1. finish < size => finish + 1 \notin first..last
      BY <1>3, <2>2
    <3> QED BY <1>3, <2>1, <3>1
  <2>4. CASE first > finish + 1
    BY <1>3, <2>4
  <2>5. CASE last <= finish
    <3>1. first \in cursor + 1..finish /\ last \in cursor + 1..finish
      BY <1>3, <1>4, <2>1, <2>5
    <3>2. cursor + leading < first /\ last <= cursor + end
      BY <1>1, <1>4, <3>1 DEF PageTaken, IsPhrase
    <3>3. end - leading > 0 /\ cursor + leading + (end - leading) = cursor + end
      BY <1>3, <2>1, <3>2
    <3> QED BY <1>3, <3>2, <3>3
  <2> QED BY <1>3, <2>1, <2>3, <2>4, <2>5
<1>5. limit' = limit /\ PhraseLimit' = limit /\ Len(input'.text) = size
  BY <1>2, <1>3 DEF PhraseLimit
<1>6. ASSUME NEW first \in 1..size, NEW last \in first..Lesser(first + limit - 1, size),
             IsPhrase(first, last)
      PROVE  \/ \E k \in DOMAIN passages : Holds(passages[k], first, last)
             \/ first > cursor
  BY <1>2, <1>3, <1>6 DEF PhraseInv
<1>7. \A first, last : IsPhrase(first, last)' => IsPhrase(first, last)
  BY <1>3 DEF IsPhrase
<1> QED BY <1>3, <1>4, <1>5, <1>6, <1>7 DEF PhraseInv, Holds

LEMMA CutWindowPhrases ==
  ASSUME WalkInv, PassagesInv, PhraseInv,
         NEW end, NEW leading, NEW cut, WindowCut(end, leading, cut)
  PROVE  PhraseInv'
<1>1. PICK size, limit, half :
        size = Len(input.text) /\ limit = PhraseLimit /\ half = input.maxChars \div 2
  OBVIOUS
<1>2. /\ UNCHANGED <<input, cursor, pageNumber, pageStart>>
      /\ page # <<>> /\ PageInv /\ end \in 1..Len(page) /\ IsWindowEnd(end) /\ start < end
      /\ pageStart \in Nat /\ start \in Nat /\ Len(page) \in Nat /\ cursor \in Nat
      /\ leading \in Nat /\ cut \in Nat
      /\ end < Len(page) => page' = page /\ IsNextStart(end, start')
  BY InputFacts DEF WindowCut, WalkInv
<1>3. size \in Nat /\ input.maxChars \in Nat /\ input.overlapChars \in Nat /\ half \in Nat
  BY <1>1, InputFacts
<1>4. /\ limit \in Nat
      /\ limit > 1 => limit <= input.overlapChars /\ limit <= half
  BY <1>1, <1>3 DEF PhraseLimit, Greater, Lesser
<1>5. ASSUME NEW k \in DOMAIN passages
      PROVE  k \in DOMAIN passages' /\ passages'[k] = passages[k]
  BY PassagesCut, PassageFacts
<1>6. ASSUME NEW first \in 1..size, NEW last \in first..Lesser(first + limit - 1, size),
             IsPhrase(first, last), pageStart + start < first, last <= pageStart + Len(page)
      PROVE  \/ \E k \in DOMAIN passages' : Holds(passages'[k], first, last)
             \/ page' # <<>> /\ pageStart' + start' < first /\ last <= pageStart' + Len(page')
  <2>1. last \in first..size /\ last <= first + limit - 1
    BY <1>3, <1>4 DEF Lesser
  <2>2. CASE last <= pageStart + end
    <3>1. /\ first \in pageStart + start + 1..pageStart + end
          /\ last \in pageStart + start + 1..pageStart + end
      BY <1>2, <1>6, <2>1, <2>2
    <3>2. pageStart + start + leading < first /\ last <= pageStart + start + cut
      BY <1>6, <3>1 DEF WindowCut, IsPhrase
    <3>3. leading < cut
      BY <1>2, <2>1, <3>2
    <3>4. PICK new : new = CutPassage(leading, cut)
      OBVIOUS
    <3>5. new.from = pageStart + start + leading /\ new.to = pageStart + start + cut
      BY <3>3, <3>4, NewPassage DEF PassagesInv
    <3>6. Len(passages) + 1 \in DOMAIN passages' /\ passages'[Len(passages) + 1] = new
      <4>1. passages \in Seq(PassageRecord) /\ passages' = Append(passages, new)
        BY <3>3, <3>4 DEF PassagesInv, WindowCut
      <4> QED BY <4>1
    <3> QED BY <3>2, <3>5, <3>6 DEF Holds
  <2>3. CASE last > pageStart + end
    <3>1. end < Len(page)
      BY <1>2, <1>6, <2>1, <2>3
    <3>2. PICK next : next = start'
      OBVIOUS
    <3>3. /\ next \in Nat /\ next <= end
          /\ next <= end - input.overlapChars \/ next = start + 1
      BY <1>2, <3>1, <3>2, NextStarts
    <3>4. start + half < end
      BY <1>1, <1>2, <3>1, WindowEnds
    <3>5. pageStart + next < first
      BY <1>2, <1>3, <1>4, <2>1, <2>3, <3>3, <3>4
    <3> QED BY <1>2, <1>6, <3>1, <3>2, <3>5
  <2> QED BY <1>2, <2>1, <2>2, <2>3
<1>7. PhraseLimit' = limit /\ Len(input'.text) = size
  BY <1>1, <1>2 DEF PhraseLimit
<1>8. \A first, last : IsPhrase(first, last)' => IsPhrase(first, last)
  BY <1>2 DEF IsPhrase
<1>9. ASSUME NEW first \in 1..size, NEW last \in first..Lesser(first + limit - 1, size),
             IsPhrase(first, last)
      PROVE  \/ \E k \in DOMAIN passages' : Holds(passages'[k], first, last)
             \/ first > cursor'
             \/ page' # <<>> /\ pageStart' + start' < first /\ last <= pageStart' + Len(page')
  <2>1. \/ \E k \in DOMAIN passages : Holds(passages[k], first, last)
        \/ first > cursor
        \/ page # <<>> /\ pageStart + start < first /\ last <= pageStart + Len(page)
    BY <1>1, <1>9 DEF PhraseInv
  <2>2. CASE \E k \in DOMAIN passages : Holds(passages[k], first, last)
    BY <1>5, <2>2
  <2> QED BY <1>2, <1>6, <1>9, <2>1, <2>2
<1> QED BY <1>7, <1>8, <1>9 DEF PhraseInv, Holds

-----------------------------------------------------------------------------
(* The chunker's invariant and what it implies. *)

LEMMA ChunkerStarts == ChunkerInit => ChunkerInv
<1> SUFFICES ASSUME ChunkerInit PROVE ChunkerInv
  OBVIOUS
<1>1. WalkInv
  BY PagesBeforeNone, InputsAssumption DEF ChunkerInit, WalkInv
<1>2. PassagesInv /\ OrderInv
  BY DEF ChunkerInit, PassagesInv, OrderInv
<1>3. \A first \in 1..Len(input.text) : first > cursor
  BY <1>1, InputFacts DEF ChunkerInit
<1>4. PhraseInv
  BY <1>3 DEF PhraseInv
<1> QED BY <1>1, <1>2, <1>4 DEF ChunkerInv

LEMMA ChunkerSteps ==
  ASSUME ChunkerInv, TakePage \/ CutWindow
  PROVE  ChunkerInv'
<1>1. WalkInv /\ PassagesInv /\ OrderInv /\ PhraseInv
  BY DEF ChunkerInv
<1>2. CASE TakePage
  BY <1>1, <1>2, TakePageWalk, TakePagePassages, TakePagePhrases DEF ChunkerInv
<1>3. CASE CutWindow
  <2>1. PICK end, leading, last : WindowCut(end, leading, last)
    BY <1>1, <1>3, CutWindowIs
  <2> QED BY <1>1, <2>1, CutWindowWalk, CutWindowPassages, CutWindowPhrases DEF ChunkerInv
<1> QED BY <1>2, <1>3

LEMMA ChunkerRests ==
  ASSUME ChunkerInv, UNCHANGED chunkerVars
  PROVE  ChunkerInv'
<1>1. WalkInv'
  BY DEF ChunkerInv, WalkInv, PageInv, PagesBefore, chunkerVars
<1>2. PassagesInv'
  BY DEF ChunkerInv, PassagesInv, QuotesText, PagesBefore, chunkerVars
<1>3. OrderInv'
  BY DEF ChunkerInv, OrderInv, IsWindowEnd, IsPreferredBreak, IsSpace, chunkerVars
<1>4. PhraseInv'
  BY DEF ChunkerInv, PhraseInv, PhraseLimit, IsPhrase, chunkerVars
<1> QED BY <1>1, <1>2, <1>3, <1>4 DEF ChunkerInv

LEMMA ChunkerAlwaysSound == Spec => []ChunkerInv
<1>1. Init => ChunkerInv
  BY ChunkerStarts DEF Init
<1>2. ChunkerInv /\ [Next]_vars => ChunkerInv'
  <2> SUFFICES ASSUME ChunkerInv, [Next]_vars PROVE ChunkerInv'
    OBVIOUS
  <2>1. CASE Chunker
    BY <2>1, ChunkerSteps DEF Chunker
  <2>2. ASSUME NEW c \in Callers, Progress(c) \/ Crash(c)
        PROVE  UNCHANGED chunkerVars
    BY <2>2 DEF Progress, AnswerUsable, AnswerUnusable, RateLimited, Wake,
         AskInteractively, ReturnAnswer, StartStages, RecheckChunked, InsertChunks,
         ListChunks, RecheckEmbedded, StoreVectors, Crash
  <2> QED BY <2>1, <2>2, ChunkerRests DEF Next, vars
<1> QED BY <1>1, <1>2, PTL DEF Spec

LEMMA PassagesInvQuotes ==
  ASSUME ChunkerInv PROVE PassagesQuoteText
<1>1. WalkInv /\ PassagesInv
  BY DEF ChunkerInv
<1>2. ASSUME NEW k \in DOMAIN passages
      PROVE  /\ passages[k].ordinal = k - 1
             /\ QuotesText(passages[k])
             /\ k > 1 => /\ passages[k - 1].from <= passages[k].from
                         /\ passages[k - 1].to <= passages[k].to
  BY <1>1 DEF PassagesInv
<1> QED BY <1>2 DEF PassagesQuoteText, QuotesText, From

LEMMA PhraseInvFinds ==
  ASSUME ChunkerInv PROVE NothingIsSkipped
<1>1. WalkInv /\ PhraseInv
  BY DEF ChunkerInv
<1> SUFFICES ASSUME ChunkerDone,
                    NEW first \in 1..Len(input.text),
                    NEW last \in first..Lesser(first + PhraseLimit - 1, Len(input.text)),
                    IsPhrase(first, last)
             PROVE  \E k \in DOMAIN passages : Holds(passages[k], first, last)
  BY DEF NothingIsSkipped, IsPhrase
<1>2. ~(first > cursor)
  BY <1>1, InputFacts DEF ChunkerDone, WalkInv
<1> QED BY <1>1, <1>2 DEF PhraseInv, ChunkerDone

\* What a citation points at is what the passage says: on one page, no longer
\* than the profile's maximum, in reading order, and numbered with the page the
\* characters are on, for every text, window and overlap.
THEOREM PassagesAreQuotes == Spec => []PassagesQuoteText
BY ChunkerAlwaysSound, PassagesInvQuotes, PTL

\* Whatever the text and the profile: a phrase of one page that fits the overlap
\* and half a window is whole in some passage once the chunker is done.
THEOREM NoPhraseIsSkipped == Spec => []NothingIsSkipped
BY ChunkerAlwaysSound, PhraseInvFinds, PTL

-----------------------------------------------------------------------------
(* Powers of two: the prover has no rules for them, but sets of subsets have  *)
(* their number.                                                              *)

LEMMA PowerIs ==
  ASSUME NEW n \in Nat
  PROVE  /\ IsFiniteSet(SUBSET (1..n))
         /\ Cardinality(SUBSET (1..n)) = 2 ^ n
         /\ 2 ^ n \in Nat
<1>1. IsFiniteSet(1..n) /\ Cardinality(1..n) = n
  BY FS_Interval, 1 \in Int, n \in Int
<1>2. IsFiniteSet(SUBSET (1..n)) /\ Cardinality(SUBSET (1..n)) = 2 ^ Cardinality(1..n)
  BY <1>1, FS_SUBSET
<1> QED BY <1>1, <1>2, FS_CardinalityType

LEMMA PowerZero == 2 ^ 0 = 1
<1>1. SUBSET (1..0) = {{}}
  OBVIOUS
<1>2. Cardinality({{}}) = 1
  BY FS_Singleton
<1> QED BY <1>1, <1>2, PowerIs, 0 \in Nat

LEMMA PowerGrows ==
  ASSUME NEW m \in Nat, NEW n \in Nat, m <= n
  PROVE  2 ^ m <= 2 ^ n
<1>1. SUBSET (1..m) \subseteq SUBSET (1..n)
  OBVIOUS
<1>2. Cardinality(SUBSET (1..m)) <= Cardinality(SUBSET (1..n))
  BY <1>1, PowerIs, FS_Subset
<1> QED BY <1>2, PowerIs

LEMMA PowerNext ==
  ASSUME NEW n \in Nat
  PROVE  2 ^ (n + 1) = 2 * 2 ^ n
<1> DEFINE Without == SUBSET (1..n)
           With    == {S \cup {n + 1} : S \in Without}
           f       == [S \in Without |-> S \cup {n + 1}]
<1>1. SUBSET (1..n + 1) = Without \cup With
  <2>1. ASSUME NEW T \in SUBSET (1..n + 1) PROVE T \in Without \cup With
    <3>1. CASE n + 1 \in T
      <4>1. T \ {n + 1} \in Without /\ T = (T \ {n + 1}) \cup {n + 1}
        BY <3>1
      <4> QED BY <4>1
    <3>2. CASE n + 1 \notin T
      BY <3>2
    <3> QED BY <3>1, <3>2
  <2>2. ASSUME NEW T \in Without \cup With PROVE T \in SUBSET (1..n + 1)
    OBVIOUS
  <2> QED BY <2>1, <2>2
<1>2. Without \cap With = {}
  <2>1. n + 1 \notin 1..n
    OBVIOUS
  <2> QED BY <2>1
<1>3. f \in Bijection(Without, With)
  <2>1. \A S \in Without : n + 1 \notin S
    OBVIOUS
  <2>2. f \in [Without -> With]
    OBVIOUS
  <2>3. ASSUME NEW S \in Without, NEW T \in Without, f[S] = f[T] PROVE S = T
    <3>1. S \cup {n + 1} = T \cup {n + 1}
      BY <2>3
    <3> QED BY <2>1, <3>1
  <2>4. \A T \in With : \E S \in Without : f[S] = T
    OBVIOUS
  <2> HIDE DEF With, Without, f
  <2> QED BY <2>2, <2>3, <2>4 DEF Bijection, Injection, Surjection, IsInjective
<1>4. /\ IsFiniteSet(Without) /\ Cardinality(Without) = 2 ^ n
      /\ Cardinality(Without) \in Nat
  BY PowerIs
<1>5. IsFiniteSet(With) /\ Cardinality(With) = Cardinality(Without)
  BY <1>3, <1>4, FS_Bijection DEF ExistsBijection
<1>6. Cardinality(Without \cup With)
        = Cardinality(Without) + Cardinality(With) - Cardinality(Without \cap With)
  BY <1>4, <1>5, FS_Union
<1>7. Cardinality(SUBSET (1..n + 1)) = 2 ^ (n + 1)
  BY PowerIs, n + 1 \in Nat
<1>8. Cardinality(Without \cap With) = 0
  BY <1>2, FS_EmptySet
<1>9. Cardinality(Without \cup With) = 2 ^ (n + 1)
  BY <1>1, <1>7
<1> HIDE DEF With, Without, f
<1>10. PICK a, b : a = Cardinality(Without) /\ b = Cardinality(Without \cup With)
  OBVIOUS
<1>11. a \in Nat /\ b = a + a - 0
  BY <1>4, <1>5, <1>6, <1>8, <1>10
<1>12. b = 2 * a
  BY <1>11
<1> QED BY <1>4, <1>9, <1>10, <1>12

\* What a request has slept after n rejections: 5 + 10 + ... seconds.
SleptAfter(n) == 5 * (2 ^ n - 1)

LEMMA Slept ==
  /\ SleptAfter(0) = 0
  /\ \A n \in Nat : SleptAfter(n) \in Nat
  /\ \A n \in Nat : SleptAfter(n + 1) = SleptAfter(n) + RetryDelay(n)
  /\ \A m, n \in Nat : m <= n => SleptAfter(m) <= SleptAfter(n)
<1>1. SleptAfter(0) = 0
  BY PowerZero DEF SleptAfter
<1>2. ASSUME NEW n \in Nat PROVE SleptAfter(n) \in Nat
  <2>1. 2 ^ n \in Nat /\ 1 <= 2 ^ n
    BY PowerIs, PowerZero, PowerGrows, 0 \in Nat, 0 <= n
  <2> QED BY <2>1 DEF SleptAfter
<1>3. ASSUME NEW n \in Nat PROVE SleptAfter(n + 1) = SleptAfter(n) + RetryDelay(n)
  BY PowerIs, PowerNext DEF SleptAfter, RetryDelay
<1>4. ASSUME NEW m \in Nat, NEW n \in Nat, m <= n PROVE SleptAfter(m) <= SleptAfter(n)
  BY <1>4, PowerIs, PowerGrows DEF SleptAfter
<1> QED BY <1>1, <1>2, <1>3, <1>4

-----------------------------------------------------------------------------
(* Provider calls. *)

Vector == [of : Nat, by : Callers]

CallRecord ==
  [step : Steps, todo : Seq(Nat), vectors : Seq(Vector), attempt : Nat, slept : Nat]

GenerationRecord ==
  [chunked : BOOLEAN, chunks : Seq(PassageRecord),
   embedded : BOOLEAN, vectors : Seq(Vector)]

\* The vectors a caller has are those of the first texts it has to send, and it
\* has slept for the rejections of its current request only.
FitsCaller(c, r) ==
  /\ Len(r.vectors) <= Len(r.todo)
  /\ \A i \in 1..Len(r.vectors) : r.vectors[i].of = r.todo[i]
  /\ r.step \in {"idle", "chunking", "inserting", "listing"} => r.vectors = <<>>
  /\ r.attempt < Limit(c)
  /\ r.slept <= SleptAfter(Limit(c) - 1)
  /\ r.step \notin {"sleeping", "failed"} => r.slept = SleptAfter(r.attempt)
  /\ r.step = "sleeping" => /\ r.attempt + 1 < Limit(c)
                            /\ r.slept = SleptAfter(r.attempt + 1)
  /\ c \notin Workers => r.step \in {"idle", "asking", "sleeping", "done", "failed"}

\* What a worker's step implies of the generation: it asks for the texts of
\* committed chunks, in their order, and stores when every one is answered.
FitsGeneration(r) ==
  /\ r.step = "inserting" => ChunkerDone
  /\ r.step \in {"listing", "asking", "sleeping", "storing"} => generation.chunked
  /\ r.step \in {"asking", "sleeping", "storing"} =>
       r.todo = [i \in DOMAIN generation.chunks |-> i]
  /\ r.step = "storing" => Len(r.vectors) = Len(r.todo)

GenerationInv ==
  /\ generation.chunked => generation.chunks = passages /\ ChunkerDone
  /\ generation.embedded => generation.chunked
  /\ Len(generation.vectors) = IF generation.embedded THEN Len(generation.chunks) ELSE 0
  /\ \A i \in 1..Len(generation.vectors) : generation.vectors[i].of = i

RecordsInv ==
  /\ generation \in GenerationRecord
  /\ call \in [Callers -> CallRecord]

EmbeddingInv ==
  /\ RecordsInv
  /\ GenerationInv
  /\ \A c \in Callers : FitsCaller(c, call[c])
  /\ \A w \in Workers : FitsGeneration(call[w])

LEMMA LimitType ==
  ASSUME NEW c PROVE Limit(c) \in Nat /\ Limit(c) > 0
BY CallersAssumption DEF Limit

\* A batch is the next texts to send; there is none when all are answered.
LEMMA BatchIs ==
  ASSUME ChunkerInv, NEW c \in Callers, NEW r, r = call[c], r \in CallRecord,
         Len(r.vectors) <= Len(r.todo), NEW texts, texts = Batch(c)
  PROVE  /\ texts \in Seq(Nat)
         /\ Len(r.vectors) + Len(texts) <= Len(r.todo)
         /\ \A i \in 1..Len(texts) : texts[i] = r.todo[Len(r.vectors) + i]
         /\ texts = <<>> => Len(r.vectors) = Len(r.todo)
<1>1. PICK done, all, size : done = Len(r.vectors) /\ all = Len(r.todo) /\ size = input.batchSize
  OBVIOUS
<1>2. size \in Nat /\ size > 0
  BY <1>1, CallersAssumption DEF ChunkerInv, WalkInv
<1>3. done \in Nat /\ all \in Nat /\ r.todo \in Seq(Nat) /\ done <= all
  BY <1>1 DEF CallRecord
<1>4. PICK end : end = Lesser(done + size, all)
  OBVIOUS
<1>5. end \in done..all /\ (end = done => done = all)
  BY <1>2, <1>3, <1>4 DEF Lesser
<1>6. texts = SubSeq(r.todo, done + 1, end)
  BY <1>1, <1>4 DEF Batch
<1>7. /\ texts \in Seq(Nat) /\ Len(texts) = end - done
      /\ \A i \in 1..Len(texts) : texts[i] = r.todo[done + i]
  <2>1. PICK todo : todo = r.todo
    OBVIOUS
  <2>2. todo \in Seq(Nat) /\ Len(todo) = all
    BY <1>1, <1>3, <2>1
  <2>3. texts = [i \in 1..end - done |-> todo[done + i]]
    <3>1. end - (done + 1) + 1 = end - done /\ \A i \in Nat : (done + 1) + i - 1 = done + i
      BY <1>3, <1>5
    <3>2. SubSeq(todo, done + 1, end) = [i \in 1..end - done |-> todo[done + i]]
      BY <1>3, <1>5, <2>2, <3>1
    <3> QED BY <1>6, <2>1, <3>2
  <2>4. end - done \in Nat /\ \A i \in 1..end - done : done + i \in 1..all
    BY <1>3, <1>5
  <2>5. \A i \in 1..end - done : todo[done + i] \in Nat
    BY <2>2, <2>4
  <2> QED BY <2>1, <2>3, <2>4, <2>5
<1>8. texts = <<>> => end = done
  BY <1>3, <1>5, <1>7
<1> QED BY <1>1, <1>3, <1>5, <1>7, <1>8

\* However the provider orders its items, an answer that is accepted has the
\* vector of each text at the text's place.
LEMMA AcceptedIs ==
  ASSUME NEW texts \in Seq(Nat), NEW items \in Answers(texts),
         NEW ordered \in Accepted(items, texts)
  PROVE  /\ DOMAIN ordered = 1..Len(texts)
         /\ Len(ordered) = Len(texts)
         /\ \A i \in 1..Len(texts) : ordered[i].of = texts[i]
<1> DEFINE Item(i) == [index |-> i, of |-> IF i < Len(texts) THEN texts[i + 1] ELSE 0]
<1>1. DOMAIN texts = 1..Len(texts) /\ Len(texts) \in Nat
  OBVIOUS
<1>2. PICK n \in 0..Len(texts) + 1 : items \in [1..n -> {Item(i) : i \in 0..Len(texts)}]
  BY DEF Answers
<1>3. /\ ordered \in [1..Len(texts) -> {items[i] : i \in DOMAIN items}]
      /\ \A i \in 1..Len(texts) : ordered[i].index = i - 1
  BY <1>1 DEF Accepted
<1>4. Len(ordered) = Len(texts)
  <2>1. ordered \in Seq({items[i] : i \in DOMAIN items})
    BY <1>1, <1>3
  <2> QED BY <1>1, <1>3, <2>1
<1>5. ASSUME NEW i \in 1..Len(texts) PROVE ordered[i].of = texts[i]
  <2>1. PICK k \in 0..Len(texts) : ordered[i] = Item(k)
    BY <1>2, <1>3
  <2>2. k = i - 1
    BY <1>1, <1>3, <2>1
  <2> QED BY <1>1, <2>1, <2>2
<1> QED BY <1>3, <1>4, <1>5

-----------------------------------------------------------------------------
(* One lemma per action: the embedding invariant is preserved. *)

\* A caller moves on, and the generation stays as it is.
LEMMA OneCallMoves ==
  ASSUME EmbeddingInv, NEW c \in Callers, NEW r \in CallRecord,
         UNCHANGED <<chunkerVars, generation>>,
         call' \in [Callers -> CallRecord], call'[c] = r,
         \A d \in Callers \ {c} : call'[d] = call[d],
         FitsCaller(c, r), c \in Workers => FitsGeneration(r)
  PROVE  EmbeddingInv'
<1>1. RecordsInv' /\ GenerationInv'
  BY DEF EmbeddingInv, RecordsInv, GenerationInv, ChunkerDone, chunkerVars
<1>2. \A d \in Callers : FitsCaller(d, call'[d])
  BY DEF EmbeddingInv
<1>3. \A w \in Workers : FitsGeneration(call'[w])
  BY DEF EmbeddingInv, Callers
<1>4. PICK all : all = call'
  OBVIOUS
<1>5. \A d \in Callers : FitsCaller(d, all[d])'
  BY <1>2, <1>4 DEF FitsCaller, Limit, SleptAfter
<1>6. \A w \in Workers : FitsGeneration(all[w])'
  BY <1>3, <1>4 DEF FitsGeneration, ChunkerDone, chunkerVars
<1>7. /\ \A d \in Callers : FitsCaller(d, call[d])'
      /\ \A w \in Workers : FitsGeneration(call[w])'
  BY <1>4, <1>5, <1>6 DEF FitsCaller, FitsGeneration
<1> QED BY <1>1, <1>7 DEF EmbeddingInv

LEMMA Going ==
  ASSUME RecordsInv, NEW c \in Callers, NEW s \in Steps, Go(c, s), NEW r, r = call'[c]
  PROVE  /\ call' \in [Callers -> CallRecord]
         /\ r \in CallRecord
         /\ \A d \in Callers \ {c} : call'[d] = call[d]
         /\ r = [call[c] EXCEPT !.step = s]
         /\ r.step = s /\ r.todo = call[c].todo /\ r.vectors = call[c].vectors
         /\ r.attempt = call[c].attempt /\ r.slept = call[c].slept
<1>1. call \in [Callers -> CallRecord] /\ call[c] \in CallRecord
  BY DEF RecordsInv
<1>2. call' = [call EXCEPT ![c] = [call[c] EXCEPT !.step = s]]
  BY DEF Go
<1>3. [call[c] EXCEPT !.step = s] \in CallRecord
  BY <1>1 DEF CallRecord
<1>4. r = [call[c] EXCEPT !.step = s]
  BY <1>1, <1>2
<1> QED BY <1>1, <1>2, <1>3, <1>4 DEF CallRecord

\* A step that only goes on, to a step that asks no more of the record.
LEMMA GoingOn ==
  ASSUME EmbeddingInv, NEW c \in Callers, NEW s \in Steps, Go(c, s),
         UNCHANGED <<chunkerVars, generation>>,
         s # "sleeping", call[c].step \notin {"sleeping", "failed"} \/ s = "failed",
         s \in {"idle", "chunking", "inserting", "listing"} =>
           call[c].step \in {"idle", "chunking", "inserting", "listing"},
         c \in Workers \/ s \in {"done", "failed"},
         c \in Workers => FitsGeneration([call[c] EXCEPT !.step = s])
  PROVE  EmbeddingInv'
<1>1. PICK r : r = call'[c]
  OBVIOUS
<1>2. RecordsInv /\ FitsCaller(c, call[c])
  BY DEF EmbeddingInv
<1>3. /\ call' \in [Callers -> CallRecord]
      /\ r \in CallRecord
      /\ \A d \in Callers \ {c} : call'[d] = call[d]
      /\ r = [call[c] EXCEPT !.step = s]
      /\ r.step = s /\ r.todo = call[c].todo /\ r.vectors = call[c].vectors
      /\ r.attempt = call[c].attempt /\ r.slept = call[c].slept
  BY <1>1, <1>2, Going
<1>4. FitsCaller(c, r)
  BY <1>2, <1>3 DEF FitsCaller
<1> QED BY <1>1, <1>3, <1>4, OneCallMoves

LEMMA AnswerUsableStep ==
  ASSUME ChunkerInv, EmbeddingInv, NEW c \in Callers, AnswerUsable(c)
  PROVE  EmbeddingInv'
<1>1. PICK old, texts : old = call[c] /\ texts = Batch(c)
  OBVIOUS
<1>2. /\ old \in CallRecord /\ call \in [Callers -> CallRecord]
      /\ FitsCaller(c, old) /\ (c \in Workers => FitsGeneration(old))
  BY <1>1 DEF EmbeddingInv, RecordsInv
<1>3. old.step = "asking"
  BY <1>1 DEF AnswerUsable, Asking
<1>4. /\ texts \in Seq(Nat)
      /\ Len(old.vectors) + Len(texts) <= Len(old.todo)
      /\ \A i \in 1..Len(texts) : texts[i] = old.todo[Len(old.vectors) + i]
  BY <1>1, <1>2, BatchIs DEF FitsCaller
<1>5. PICK items \in Answers(texts) : \E ordered \in Accepted(items, texts) :
        call' = [call EXCEPT
          ![c].vectors = @ \o [i \in 1..Len(ordered) |-> [of |-> ordered[i].of, by |-> c]],
          ![c].attempt = 0,
          ![c].slept = 0]
  BY <1>1 DEF AnswerUsable
<1>6. PICK ordered \in Accepted(items, texts) :
        call' = [call EXCEPT
          ![c].vectors = @ \o [i \in 1..Len(ordered) |-> [of |-> ordered[i].of, by |-> c]],
          ![c].attempt = 0,
          ![c].slept = 0]
  BY <1>5
<1>7. /\ Len(ordered) = Len(texts) /\ Len(texts) \in Nat
      /\ \A i \in 1..Len(texts) : ordered[i].of = texts[i] /\ texts[i] \in Nat
  <2>1. /\ DOMAIN ordered = 1..Len(texts) /\ Len(ordered) = Len(texts)
        /\ \A i \in 1..Len(texts) : ordered[i].of = texts[i]
    BY <1>4, AcceptedIs
  <2>2. Len(texts) \in Nat /\ \A i \in 1..Len(texts) : texts[i] \in Nat
    BY <1>4
  <2> QED BY <2>1, <2>2
<1>8. PICK new : new = [i \in 1..Len(texts) |-> [of |-> ordered[i].of, by |-> c]]
  OBVIOUS
<1>9. /\ new \in Seq(Vector) /\ Len(new) = Len(texts)
      /\ \A i \in 1..Len(texts) : new[i].of = texts[i]
  BY <1>7, <1>8 DEF Vector
<1>10. PICK r : r = [old EXCEPT !.vectors = old.vectors \o new, !.attempt = 0, !.slept = 0]
  OBVIOUS
<1>11. call' = [call EXCEPT ![c] = r]
  BY <1>1, <1>2, <1>6, <1>7, <1>8, <1>10 DEF CallRecord
<1>12. /\ r.step = "asking" /\ r.todo = old.todo /\ r.vectors = old.vectors \o new
       /\ r.attempt = 0 /\ r.slept = 0 /\ r \in CallRecord
  <2>1. old.vectors \in Seq(Vector)
    BY <1>2 DEF CallRecord
  <2>2. old.vectors \o new \in Seq(Vector)
    BY <1>9, <2>1, ConcatProperties
  <2> QED BY <1>2, <1>3, <1>10, <2>2 DEF CallRecord
<1>13. FitsCaller(c, r)
  <2>1. old.vectors \in Seq(Vector) /\ new \in Seq(Vector) /\ old.todo \in Seq(Nat)
    BY <1>2, <1>9 DEF CallRecord
  <2>2. PICK a, b, v : a = Len(old.vectors) /\ b = Len(texts) /\ v = old.vectors
    OBVIOUS
  <2>3. /\ a \in Nat /\ b \in Nat /\ a + b <= Len(old.todo)
        /\ v \in Seq(Vector) /\ Len(v) = a /\ Len(new) = b
    BY <1>4, <1>7, <1>9, <2>1, <2>2
  <2>4. /\ Len(v \o new) = a + b
        /\ \A i \in 1..a + b : (v \o new)[i] = IF i <= a THEN v[i] ELSE new[i - a]
    BY <2>1, <2>3, ConcatProperties
  <2>5. ASSUME NEW i \in 1..a + b PROVE (v \o new)[i].of = old.todo[i]
    <3>1. CASE i <= a
      <4>1. i \in 1..a
        BY <2>3, <3>1
      <4>2. v[i].of = old.todo[i]
        BY <1>2, <2>2, <4>1 DEF FitsCaller
      <4> QED BY <2>4, <3>1, <4>2
    <3>2. CASE i > a
      <4>1. i - a \in 1..b /\ a + (i - a) = i
        BY <2>3, <3>2
      <4>2. (v \o new)[i] = new[i - a]
        BY <2>3, <2>4, <3>2
      <4>3. new[i - a].of = texts[i - a] /\ texts[i - a] = old.todo[a + (i - a)]
        BY <1>4, <1>9, <2>2, <4>1
      <4> QED BY <4>1, <4>2, <4>3
    <3> QED BY <2>3, <3>1, <3>2
  <2>6. 0 < Limit(c) /\ Limit(c) - 1 \in Nat
    BY LimitType
  <2>7. SleptAfter(0) = 0 /\ 0 <= SleptAfter(Limit(c) - 1)
    BY <2>6, Slept
  <2>8. Len(r.vectors) = a + b /\ r.vectors = v \o new
    BY <1>12, <2>2, <2>4
  <2> QED BY <1>2, <1>3, <1>12, <2>3, <2>5, <2>6, <2>7, <2>8 DEF FitsCaller
<1>14. c \in Workers => FitsGeneration(r)
  BY <1>2, <1>3, <1>12 DEF FitsGeneration
<1>15. /\ call' \in [Callers -> CallRecord] /\ call'[c] = r
       /\ \A d \in Callers \ {c} : call'[d] = call[d]
  BY <1>2, <1>11, <1>12
<1> QED BY <1>12, <1>13, <1>14, <1>15, OneCallMoves DEF AnswerUsable

LEMMA RateLimitedStep ==
  ASSUME EmbeddingInv, NEW c \in Callers, RateLimited(c)
  PROVE  EmbeddingInv'
<1>1. PICK old : old = call[c]
  OBVIOUS
<1>2. /\ old \in CallRecord /\ call \in [Callers -> CallRecord]
      /\ FitsCaller(c, old) /\ (c \in Workers => FitsGeneration(old))
  BY <1>1 DEF EmbeddingInv, RecordsInv
<1>3. old.step = "asking"
  BY <1>1 DEF RateLimited, Asking
<1>4. CASE ~(old.attempt + 1 < Limit(c))
  <2>1. Go(c, "failed") /\ UNCHANGED <<chunkerVars, generation>>
    BY <1>1, <1>4 DEF RateLimited
  <2>2. c \in Workers => FitsGeneration([old EXCEPT !.step = "failed"])
    BY <1>2 DEF FitsGeneration, CallRecord
  <2> QED BY <1>1, <2>1, <2>2, GoingOn DEF Steps
<1>5. CASE old.attempt + 1 < Limit(c)
  <2>1. PICK slept : slept = old.slept + RetryDelay(old.attempt)
    OBVIOUS
  <2>2. PICK r : r = [old EXCEPT !.step = "sleeping", !.slept = slept]
    OBVIOUS
  <2>3. call' = [call EXCEPT ![c] = r]
    BY <1>1, <1>2, <1>5, <2>1, <2>2 DEF RateLimited, CallRecord
  <2>4. slept = SleptAfter(old.attempt + 1) /\ slept \in Nat
    <3>1. old.slept = SleptAfter(old.attempt) /\ old.attempt \in Nat
      BY <1>2, <1>3 DEF FitsCaller, CallRecord
    <3>2. slept = SleptAfter(old.attempt + 1) /\ old.attempt + 1 \in Nat
      BY <2>1, <3>1, Slept
    <3> QED BY <3>2, Slept
  <2>5. slept <= SleptAfter(Limit(c) - 1)
    <3>1. old.attempt + 1 \in Nat /\ Limit(c) - 1 \in Nat /\ old.attempt + 1 <= Limit(c) - 1
      BY <1>2, <1>5, LimitType DEF CallRecord
    <3> QED BY <2>4, <3>1, Slept
  <2>6. /\ r.step = "sleeping" /\ r.todo = old.todo /\ r.vectors = old.vectors
        /\ r.attempt = old.attempt /\ r.slept = slept /\ r \in CallRecord
    BY <1>2, <2>2, <2>4 DEF CallRecord, Steps
  <2>7. FitsCaller(c, r)
    BY <1>2, <1>5, <2>4, <2>5, <2>6 DEF FitsCaller
  <2>8. c \in Workers => FitsGeneration(r)
    BY <1>2, <1>3, <2>6 DEF FitsGeneration
  <2>9. /\ call' \in [Callers -> CallRecord] /\ call'[c] = r
        /\ \A d \in Callers \ {c} : call'[d] = call[d]
    BY <1>2, <2>3, <2>6
  <2> QED BY <2>6, <2>7, <2>8, <2>9, OneCallMoves DEF RateLimited
<1> QED BY <1>4, <1>5

LEMMA WakeStep ==
  ASSUME EmbeddingInv, NEW c \in Callers, Wake(c)
  PROVE  EmbeddingInv'
<1>1. PICK old : old = call[c]
  OBVIOUS
<1>2. /\ old \in CallRecord /\ call \in [Callers -> CallRecord]
      /\ FitsCaller(c, old) /\ (c \in Workers => FitsGeneration(old))
  BY <1>1 DEF EmbeddingInv, RecordsInv
<1>3. PICK r : r = [old EXCEPT !.step = "asking", !.attempt = old.attempt + 1]
  OBVIOUS
<1>4. old.step = "sleeping" /\ call' = [call EXCEPT ![c] = r]
  BY <1>1, <1>2, <1>3 DEF Wake, CallRecord
<1>5. /\ r.step = "asking" /\ r.todo = old.todo /\ r.vectors = old.vectors
      /\ r.attempt = old.attempt + 1 /\ r.slept = old.slept /\ r \in CallRecord
  <2>1. "asking" \in Steps /\ old.attempt + 1 \in Nat
    BY <1>2 DEF Steps, CallRecord
  <2> QED BY <1>2, <1>3, <2>1 DEF CallRecord
<1>6. FitsCaller(c, r)
  BY <1>2, <1>4, <1>5 DEF FitsCaller
<1>7. c \in Workers => FitsGeneration(r)
  BY <1>2, <1>4, <1>5 DEF FitsGeneration
<1>8. /\ call' \in [Callers -> CallRecord] /\ call'[c] = r
      /\ \A d \in Callers \ {c} : call'[d] = call[d]
  BY <1>2, <1>4, <1>5
<1> QED BY <1>5, <1>6, <1>7, <1>8, OneCallMoves DEF Wake

LEMMA FailingStep ==
  ASSUME EmbeddingInv, NEW c \in Callers, AnswerUnusable(c) \/ Crash(c)
  PROVE  EmbeddingInv'
<1>1. Go(c, "failed") /\ UNCHANGED <<chunkerVars, generation>>
  BY DEF AnswerUnusable, Crash
<1>2. call[c] \in CallRecord
  BY DEF EmbeddingInv, RecordsInv
<1>3. FitsGeneration([call[c] EXCEPT !.step = "failed"])
  BY <1>2 DEF FitsGeneration, CallRecord
<1> QED BY <1>1, <1>3, GoingOn DEF Steps

LEMMA InteractiveStep ==
  ASSUME EmbeddingInv, NEW c \in Callers, AskInteractively(c) \/ ReturnAnswer(c)
  PROVE  EmbeddingInv'
<1>1. PICK old : old = call[c]
  OBVIOUS
<1>2. /\ old \in CallRecord /\ call \in [Callers -> CallRecord] /\ FitsCaller(c, old)
  BY <1>1 DEF EmbeddingInv, RecordsInv
<1>3. c \notin Workers
  BY CallersAssumption DEF AskInteractively, ReturnAnswer
<1>4. CASE AskInteractively(c)
  <2>1. PICK r : r = [old EXCEPT !.step = "asking", !.todo = <<1>>]
    OBVIOUS
  <2>2. old.step = "idle" /\ call' = [call EXCEPT ![c] = r]
    BY <1>1, <1>2, <1>4, <2>1 DEF AskInteractively, CallRecord
  <2>3. /\ r.step = "asking" /\ r.todo = <<1>> /\ r.vectors = old.vectors
        /\ r.attempt = old.attempt /\ r.slept = old.slept /\ r \in CallRecord
    <3>1. "asking" \in Steps /\ <<1>> \in Seq(Nat)
      BY DEF Steps
    <3> QED BY <1>2, <2>1, <3>1 DEF CallRecord
  <2>4. FitsCaller(c, r)
    BY <1>2, <2>2, <2>3 DEF FitsCaller
  <2>5. /\ call' \in [Callers -> CallRecord] /\ call'[c] = r
        /\ \A d \in Callers \ {c} : call'[d] = call[d]
    BY <1>2, <2>2, <2>3
  <2> QED BY <1>3, <1>4, <2>3, <2>4, <2>5, OneCallMoves DEF AskInteractively
<1>5. CASE ReturnAnswer(c)
  BY <1>3, <1>5, GoingOn DEF ReturnAnswer, Steps
<1> QED BY <1>4, <1>5

\* A worker's steps that leave the generation as it is.
LEMMA StageStep ==
  ASSUME ChunkerInv, EmbeddingInv, NEW w \in Workers,
         StartStages(w) \/ RecheckChunked(w) \/ RecheckEmbedded(w)
  PROVE  EmbeddingInv'
<1>1. PICK old : old = call[w]
  OBVIOUS
<1>2. w \in Callers
  BY DEF Callers
<1>3. /\ old \in CallRecord /\ FitsCaller(w, old) /\ FitsGeneration(old)
      /\ GenerationInv /\ UNCHANGED <<chunkerVars, generation>>
  BY <1>1, <1>2 DEF EmbeddingInv, RecordsInv, StartStages, RecheckChunked, RecheckEmbedded
<1>4. CASE StartStages(w)
  <2>1. PICK s : s = IF ~generation.chunked THEN "chunking"
                     ELSE IF ~generation.embedded THEN "listing" ELSE "done"
    OBVIOUS
  <2>2. old.step = "idle" /\ Go(w, s)
    BY <1>1, <1>4, <2>1 DEF StartStages
  <2>3. FitsGeneration([old EXCEPT !.step = s])
    BY <1>3, <2>1 DEF FitsGeneration, CallRecord
  <2> QED BY <1>1, <1>2, <1>3, <2>1, <2>2, <2>3, GoingOn DEF Steps
<1>5. CASE RecheckChunked(w)
  <2>1. PICK s : s = IF generation.chunked THEN "listing" ELSE "inserting"
    OBVIOUS
  <2>2. old.step = "chunking" /\ Go(w, s) /\ ChunkerDone
    BY <1>1, <1>5, <2>1 DEF RecheckChunked
  <2>3. FitsGeneration([old EXCEPT !.step = s])
    BY <1>3, <2>1, <2>2 DEF FitsGeneration, CallRecord
  <2> QED BY <1>1, <1>2, <1>3, <2>1, <2>2, <2>3, GoingOn DEF Steps
<1>6. CASE RecheckEmbedded(w)
  <2>1. PICK s : s = IF generation.embedded THEN "done" ELSE "storing"
    OBVIOUS
  <2>2. old.step = "asking" /\ Go(w, s) /\ Batch(w) = <<>>
    BY <1>1, <1>6, <2>1 DEF RecheckEmbedded
  <2>3. Len(old.vectors) = Len(old.todo)
    BY <1>1, <1>2, <1>3, <2>2, BatchIs DEF FitsCaller
  <2>4. FitsGeneration([old EXCEPT !.step = s])
    BY <1>3, <2>1, <2>2, <2>3 DEF FitsGeneration, CallRecord
  <2> QED BY <1>1, <1>2, <1>3, <2>1, <2>2, <2>4, GoingOn DEF Steps
<1> QED BY <1>4, <1>5, <1>6

LEMMA ListChunksStep ==
  ASSUME EmbeddingInv, NEW w \in Workers, ListChunks(w)
  PROVE  EmbeddingInv'
<1>1. PICK old, todo : old = call[w] /\ todo = [i \in DOMAIN generation.chunks |-> i]
  OBVIOUS
<1>2. w \in Callers
  BY DEF Callers
<1>3. /\ old \in CallRecord /\ call \in [Callers -> CallRecord]
      /\ FitsCaller(w, old) /\ FitsGeneration(old) /\ old.step = "listing"
  BY <1>1, <1>2 DEF EmbeddingInv, RecordsInv, ListChunks
<1>4. todo \in Seq(Nat)
  <2>1. PICK n \in Nat : DOMAIN generation.chunks = 1..n
    BY DEF EmbeddingInv, RecordsInv, GenerationRecord
  <2> QED BY <1>1, <2>1
<1>5. PICK r : r = [old EXCEPT !.step = "asking", !.todo = todo]
  OBVIOUS
<1>6. call' = [call EXCEPT ![w] = r]
  BY <1>1, <1>2, <1>3, <1>5 DEF ListChunks, CallRecord
<1>7. /\ r.step = "asking" /\ r.todo = todo /\ r.vectors = old.vectors
      /\ r.attempt = old.attempt /\ r.slept = old.slept /\ r \in CallRecord
  <2>1. "asking" \in Steps
    BY DEF Steps
  <2> QED BY <1>3, <1>4, <1>5, <2>1 DEF CallRecord
<1>8. FitsCaller(w, r)
  <2>1. r.vectors = <<>> /\ Len(r.vectors) = 0 /\ 0 <= Len(r.todo)
    BY <1>3, <1>4, <1>7 DEF FitsCaller
  <2> QED BY <1>3, <1>7, <2>1 DEF FitsCaller
<1>9. FitsGeneration(r)
  BY <1>1, <1>3, <1>7 DEF FitsGeneration
<1>10. /\ call' \in [Callers -> CallRecord] /\ call'[w] = r
       /\ \A d \in Callers \ {w} : call'[d] = call[d]
  BY <1>2, <1>3, <1>6, <1>7
<1> QED BY <1>2, <1>7, <1>8, <1>9, <1>10, OneCallMoves DEF ListChunks

\* A worker commits rows: chunks that were there stay.
LEMMA GenerationMoves ==
  ASSUME EmbeddingInv, NEW w \in Workers, NEW s \in {"listing", "done"}, Go(w, s),
         call[w].step \in {"inserting", "storing"},
         s = "listing" => call[w].step = "inserting",
         UNCHANGED chunkerVars, generation' \in GenerationRecord, GenerationInv',
         generation'.chunked,
         generation.chunked => generation'.chunks = generation.chunks
  PROVE  EmbeddingInv'
<1>1. PICK r : r = call'[w]
  OBVIOUS
<1>2. w \in Callers /\ s \in Steps
  BY DEF Callers, Steps
<1>3. RecordsInv /\ FitsCaller(w, call[w])
  BY <1>2 DEF EmbeddingInv
<1>4. /\ call' \in [Callers -> CallRecord]
      /\ r \in CallRecord
      /\ \A d \in Callers \ {w} : call'[d] = call[d]
      /\ r.step = s /\ r.todo = call[w].todo /\ r.vectors = call[w].vectors
      /\ r.attempt = call[w].attempt /\ r.slept = call[w].slept
  BY <1>1, <1>2, <1>3, Going
<1>5. FitsCaller(w, r)
  BY <1>3, <1>4 DEF FitsCaller
<1>6. PICK all : all = call'
  OBVIOUS
<1>7. ASSUME NEW d \in Callers PROVE FitsCaller(d, all[d])'
  <2>1. FitsCaller(d, all[d])
    BY <1>1, <1>4, <1>5, <1>6 DEF EmbeddingInv
  <2> QED BY <2>1 DEF FitsCaller, Limit, SleptAfter
<1>8. ASSUME NEW d \in Workers PROVE FitsGeneration(all[d])'
  <2>1. CASE d = w
    BY <1>1, <1>4, <1>6, <2>1 DEF FitsGeneration
  <2>2. CASE d # w
    <3>1. all[d] = call[d] /\ FitsGeneration(call[d])
      BY <1>4, <1>6, <2>2 DEF EmbeddingInv, Callers
    <3> QED BY <3>1 DEF FitsGeneration, ChunkerDone, chunkerVars
  <2> QED BY <2>1, <2>2
<1>9. /\ \A d \in Callers : FitsCaller(d, call[d])'
      /\ \A d \in Workers : FitsGeneration(call[d])'
  BY <1>6, <1>7, <1>8 DEF FitsCaller, FitsGeneration
<1> QED BY <1>4, <1>9 DEF EmbeddingInv, RecordsInv

\* What rows an insertion and a store leave.
LEMMA Inserted ==
  ASSUME ChunkerInv, EmbeddingInv, NEW w \in Workers, InsertChunks(w),
         ~(generation.chunks # <<>> /\ passages # <<>>)
  PROVE  /\ generation' \in GenerationRecord
         /\ generation'.chunked
         /\ generation'.chunks = passages
         /\ generation'.embedded = generation.embedded
         /\ generation'.vectors = generation.vectors
         /\ generation.chunked => generation'.chunks = generation.chunks
<1>1. generation \in GenerationRecord /\ GenerationInv
  BY DEF EmbeddingInv, RecordsInv
<1>2. passages \in Seq(PassageRecord)
  BY DEF ChunkerInv, PassagesInv
<1>3. generation' = [generation EXCEPT !.chunked = TRUE, !.chunks = passages]
  BY DEF InsertChunks
<1> QED BY <1>1, <1>2, <1>3 DEF GenerationRecord, GenerationInv

LEMMA Stored ==
  ASSUME EmbeddingInv, NEW w \in Workers, StoreVectors(w)
  PROVE  /\ generation' \in GenerationRecord
         /\ generation.chunked /\ generation'.chunked
         /\ generation'.chunks = generation.chunks
         /\ generation'.embedded
         /\ Len(generation'.vectors) = Len(generation.chunks)
         /\ \A i \in 1..Len(generation.chunks) : generation'.vectors[i].of = i
         /\ \A i \in 1..Len(generation.vectors) :
              /\ i \in 1..Len(generation.chunks)
              /\ generation'.vectors[i] = generation.vectors[i]
<1>1. PICK r, n, old : r = call[w] /\ n = Len(generation.chunks) /\ old = generation.vectors
  OBVIOUS
<1>2. w \in Callers
  BY DEF Callers
<1>3. /\ generation \in GenerationRecord /\ GenerationInv
      /\ r \in CallRecord /\ FitsCaller(w, r) /\ FitsGeneration(r) /\ r.step = "storing"
  BY <1>1, <1>2 DEF EmbeddingInv, RecordsInv, StoreVectors
<1>4. n \in Nat /\ DOMAIN generation.chunks = 1..n
  BY <1>1, <1>3 DEF GenerationRecord
<1>5. /\ generation.chunked
      /\ r.todo = [i \in 1..n |-> i]
      /\ Len(r.vectors) = Len(r.todo)
  BY <1>3, <1>4 DEF FitsGeneration
<1>6. Len(r.todo) = n /\ r.vectors \in Seq(Vector)
  BY <1>3, <1>4, <1>5 DEF CallRecord
<1>7. DOMAIN r.vectors = 1..n /\ \A i \in 1..n : r.vectors[i] \in Vector /\ r.vectors[i].of = i
  <2>1. DOMAIN r.vectors = 1..n /\ \A i \in 1..n : r.vectors[i] \in Vector
    <3>1. PICK v : v = r.vectors
      OBVIOUS
    <3>2. v \in Seq(Vector) /\ Len(v) = n
      BY <1>5, <1>6, <3>1
    <3>3. DOMAIN v = 1..n /\ \A i \in 1..n : v[i] \in Vector
      BY <3>2
    <3> QED BY <3>1, <3>3
  <2>2. \A i \in 1..n : r.vectors[i].of = r.todo[i]
    BY <1>3, <1>5, <1>6 DEF FitsCaller
  <2> QED BY <1>5, <2>1, <2>2
<1>8. /\ old \in Seq(Vector) /\ Len(old) \in 0..n
      /\ \A i \in 1..Len(old) : old[i].of = i
  BY <1>1, <1>3, <1>4 DEF GenerationInv, GenerationRecord
<1>9. PICK new : new = [i \in 1..n |-> IF i \in DOMAIN old THEN old[i] ELSE r.vectors[i]]
  OBVIOUS
<1>10. generation' = [generation EXCEPT !.embedded = TRUE, !.vectors = new]
  <2>1. generation' = [generation EXCEPT
          !.embedded = TRUE,
          !.vectors = [i \in DOMAIN call[w].vectors |->
                         IF i \in DOMAIN @ THEN @[i] ELSE call[w].vectors[i]]]
    BY DEF StoreVectors
  <2> QED BY <1>1, <1>3, <1>7, <1>9, <2>1 DEF GenerationRecord
<1>11. /\ new \in Seq(Vector) /\ Len(new) = n
       /\ \A i \in 1..n : new[i].of = i
       /\ \A i \in 1..Len(old) : i \in 1..n /\ new[i] = old[i]
  <2>1. DOMAIN old = 1..Len(old) /\ Len(old) \in Nat /\ \A i \in 1..Len(old) : old[i] \in Vector
    BY <1>8
  <2>2. \A i \in 1..n : new[i] \in Vector
    BY <1>7, <1>9, <2>1
  <2>3. new \in Seq(Vector) /\ Len(new) = n
    BY <1>4, <1>9, <2>2
  <2> QED BY <1>4, <1>7, <1>8, <1>9, <2>1, <2>3
<1> QED BY <1>1, <1>3, <1>5, <1>10, <1>11 DEF GenerationRecord

LEMMA InsertChunksStep ==
  ASSUME ChunkerInv, EmbeddingInv, NEW w \in Workers, InsertChunks(w)
  PROVE  EmbeddingInv'
<1>1. /\ w \in Callers /\ call[w].step = "inserting" /\ UNCHANGED chunkerVars
      /\ FitsGeneration(call[w]) /\ GenerationInv /\ call[w] \in CallRecord
      /\ generation \in GenerationRecord
  BY DEF Callers, EmbeddingInv, RecordsInv, InsertChunks
<1>2. CASE generation.chunks # <<>> /\ passages # <<>>
  <2>1. Go(w, "failed") /\ UNCHANGED generation
    BY <1>2 DEF InsertChunks
  <2>2. FitsGeneration([call[w] EXCEPT !.step = "failed"])
    BY <1>1 DEF FitsGeneration, CallRecord
  <2> QED BY <1>1, <2>1, <2>2, GoingOn DEF Steps
<1>3. CASE ~(generation.chunks # <<>> /\ passages # <<>>)
  <2>1. Go(w, "listing")
    BY <1>3 DEF InsertChunks
  <2>2. /\ generation' \in GenerationRecord
        /\ generation'.chunked
        /\ generation'.chunks = passages
        /\ generation'.embedded = generation.embedded
        /\ generation'.vectors = generation.vectors
        /\ generation.chunked => generation'.chunks = generation.chunks
    BY <1>3, Inserted
  <2>3. ChunkerDone
    BY <1>1 DEF FitsGeneration
  <2>4. GenerationInv'
    BY <1>1, <2>2, <2>3 DEF GenerationInv, ChunkerDone, chunkerVars
  <2> QED BY <1>1, <2>1, <2>2, <2>4, GenerationMoves
<1> QED BY <1>2, <1>3

LEMMA StoreVectorsStep ==
  ASSUME EmbeddingInv, NEW w \in Workers, StoreVectors(w)
  PROVE  EmbeddingInv'
<1>1. /\ call[w].step = "storing" /\ UNCHANGED chunkerVars /\ Go(w, "done")
      /\ GenerationInv
  BY DEF EmbeddingInv, StoreVectors
<1>2. GenerationInv'
  BY <1>1, Stored DEF GenerationInv, ChunkerDone, chunkerVars
<1> QED BY <1>1, <1>2, Stored, GenerationMoves

\* Once chunks are committed the chunker has nothing more to cut.
LEMMA ChunkerStep ==
  ASSUME ChunkerInv, EmbeddingInv, Chunker
  PROVE  EmbeddingInv' /\ ~generation.chunked
<1>1. ~ChunkerDone /\ UNCHANGED <<generation, call>>
  <2>1. cursor \in Nat /\ Len(input.text) \in Nat
    BY InputFacts DEF ChunkerInv, WalkInv
  <2>2. cursor <= Len(input.text) \/ page # <<>>
    BY Zenon DEF Chunker, TakePage, CutWindow
  <2> QED BY <2>1, <2>2, InputFacts DEF Chunker, ChunkerDone, ChunkerInv, TakePage
<1>2. ~generation.chunked /\ \A w \in Workers : call[w].step # "inserting"
  BY <1>1 DEF EmbeddingInv, GenerationInv, FitsGeneration
<1> QED BY <1>1, <1>2 DEF EmbeddingInv, RecordsInv, GenerationInv, FitsCaller, Limit,
      SleptAfter, FitsGeneration

-----------------------------------------------------------------------------
(* The embedding invariant and what it implies. *)

EmbeddingSound == ChunkerInv /\ EmbeddingInv

LEMMA EmbeddingStarts == Init => EmbeddingInv
<1> SUFFICES ASSUME Init PROVE EmbeddingInv
  OBVIOUS
<1>1. /\ generation \in GenerationRecord /\ GenerationInv
  BY DEF Init, GenerationRecord, GenerationInv
<1>2. IdleCall \in CallRecord
  BY DEF IdleCall, CallRecord, Steps
<1>3. ASSUME NEW c \in Callers PROVE FitsCaller(c, IdleCall) /\ FitsGeneration(IdleCall)
  <2>1. Limit(c) \in Nat /\ 0 < Limit(c) /\ Limit(c) - 1 \in Nat
    BY LimitType
  <2>2. SleptAfter(0) = 0 /\ 0 <= SleptAfter(Limit(c) - 1)
    BY <2>1, Slept
  <2> QED BY <2>1, <2>2 DEF FitsCaller, FitsGeneration, IdleCall
<1> QED BY <1>1, <1>2, <1>3 DEF Init, EmbeddingInv, RecordsInv, Callers

LEMMA EmbeddingSteps == EmbeddingSound /\ [Next]_vars => EmbeddingInv'
<1> SUFFICES ASSUME ChunkerInv, EmbeddingInv, [Next]_vars PROVE EmbeddingInv'
  BY DEF EmbeddingSound
<1>1. CASE Chunker
  BY <1>1, ChunkerStep
<1>2. ASSUME NEW c \in Callers, Progress(c)
      PROVE  EmbeddingInv'
  BY <1>2, AnswerUsableStep, FailingStep, RateLimitedStep, WakeStep, InteractiveStep,
     StageStep, InsertChunksStep, ListChunksStep, StoreVectorsStep DEF Progress
<1>3. ASSUME NEW c \in Callers, Crash(c)
      PROVE  EmbeddingInv'
  BY <1>3, FailingStep
<1>4. CASE UNCHANGED vars
  BY <1>4 DEF vars, chunkerVars, EmbeddingInv, RecordsInv, GenerationInv, FitsCaller, Limit,
     SleptAfter, FitsGeneration, ChunkerDone
<1> QED BY <1>1, <1>2, <1>3, <1>4 DEF Next

LEMMA AlwaysEmbeddingSound == Spec => []EmbeddingSound
<1>1. Init => EmbeddingInv
  BY EmbeddingStarts
<1>2. ChunkerInv /\ EmbeddingInv /\ [Next]_vars => EmbeddingInv'
  BY EmbeddingSteps DEF EmbeddingSound
<1>3. EmbeddingSound <=> ChunkerInv /\ EmbeddingInv
  BY DEF EmbeddingSound
<1> QED BY <1>1, <1>2, <1>3, ChunkerAlwaysSound, PTL DEF Spec

\* Every variable has its type.
THEOREM TypeCorrect == Spec => []TypeOK
<1>1. EmbeddingSound => TypeOK
  <2> SUFFICES ASSUME ChunkerInv, EmbeddingInv PROVE TypeOK
    BY DEF EmbeddingSound
  <2>1. WalkInv
    BY DEF ChunkerInv
  <2>2. ChunkerTypeOK
    BY <2>1, InputFacts DEF WalkInv, PageInv, ChunkerTypeOK
  <2>3. generation.chunked \in BOOLEAN /\ generation.embedded \in BOOLEAN
    BY DEF EmbeddingInv, RecordsInv, GenerationRecord
  <2>4. ASSUME NEW c \in Callers
        PROVE  call[c].step \in Steps /\ call[c].attempt \in 0..Limit(c) - 1
    <3>1. call[c] \in CallRecord /\ FitsCaller(c, call[c])
      BY DEF EmbeddingInv, RecordsInv
    <3> QED BY <3>1, LimitType DEF CallRecord, FitsCaller
  <2> QED BY <2>2, <2>3, <2>4 DEF TypeOK
<1> QED BY <1>1, AlwaysEmbeddingSound, PTL

\* However many workers are at a generation, however they are interrupted and in
\* whatever order the provider answers: it holds the passages of the text, once
\* each, and as soon as it is embedded the vector of each at the chunk's place.
THEOREM EveryPassageHasItsVector == Spec => []VectorsMatchPassages
<1>1. EmbeddingSound => VectorsMatchPassages
  <2> SUFFICES ASSUME EmbeddingInv PROVE VectorsMatchPassages
    BY DEF EmbeddingSound
  <2>1. GenerationInv /\ generation \in GenerationRecord
    BY DEF EmbeddingInv, RecordsInv
  <2>2. /\ DOMAIN generation.vectors = 1..Len(generation.vectors)
        /\ DOMAIN generation.chunks = 1..Len(generation.chunks)
    BY <2>1 DEF GenerationRecord
  <2> QED BY <2>1, <2>2 DEF VectorsMatchPassages, GenerationInv
<1> QED BY <1>1, AlwaysEmbeddingSound, PTL

\* Whatever the retry limit: the sleeps of one request add up to no more than those
\* of its last but one attempt, and an interactive question is never kept waiting.
THEOREM BackpressureIsBounded == Spec => []BackpressureNotSleep
<1>1. EmbeddingSound => BackpressureNotSleep
  <2> SUFFICES ASSUME EmbeddingInv, NEW c \in Callers
               PROVE  /\ call[c].slept <= 5 * (2 ^ (Limit(c) - 1) - 1)
                      /\ c = Question => call[c].slept = 0 /\ call[c].step # "sleeping"
    BY DEF EmbeddingSound, BackpressureNotSleep
  <2>1. FitsCaller(c, call[c]) /\ call[c] \in CallRecord
    BY DEF EmbeddingInv, RecordsInv
  <2>2. call[c].slept <= 5 * (2 ^ (Limit(c) - 1) - 1)
    BY <2>1 DEF FitsCaller, SleptAfter
  <2>3. ASSUME c = Question
        PROVE  call[c].slept = 0 /\ call[c].step # "sleeping"
    <3>1. Limit(c) = 1 /\ Limit(c) - 1 = 0
      BY <2>3 DEF Limit
    <3>2. call[c].slept \in Nat /\ call[c].attempt \in Nat
      BY <2>1 DEF CallRecord
    <3>3. call[c].slept <= 0
      BY <2>1, <3>1, Slept DEF FitsCaller
    <3> QED BY <2>1, <3>1, <3>2, <3>3 DEF FitsCaller
  <2> QED BY <2>2, <2>3
<1> QED BY <1>1, AlwaysEmbeddingSound, PTL

\* What a query may already have read is not rewritten by a second worker, a retry
\* or a late answer: committed chunk rows and vectors stay.
THEOREM CommittedRowsStay == Spec => IndexIsWrittenOnce
<1> DEFINE Kept ==
      /\ generation.chunked => generation'.chunks = generation.chunks
      /\ \A i \in DOMAIN generation.vectors :
           i \in DOMAIN generation'.vectors /\ generation'.vectors[i] = generation.vectors[i]
<1>1. EmbeddingSound /\ [Next]_vars => [Kept]_vars
  <2> SUFFICES ASSUME ChunkerInv, EmbeddingInv, Next PROVE Kept
    BY DEF EmbeddingSound
  <2>1. CASE UNCHANGED generation
    BY <2>1
  <2>2. ASSUME NEW w \in Workers, InsertChunks(w) PROVE Kept
    BY <2>1, <2>2, Inserted DEF InsertChunks
  <2>3. ASSUME NEW w \in Workers, StoreVectors(w) PROVE Kept
    <3>1. generation \in GenerationRecord /\ generation' \in GenerationRecord
      BY <2>3, Stored DEF EmbeddingInv, RecordsInv
    <3>2. /\ DOMAIN generation.vectors = 1..Len(generation.vectors)
          /\ DOMAIN generation'.vectors = 1..Len(generation'.vectors)
      BY <3>1 DEF GenerationRecord
    <3> QED BY <2>3, <3>2, Stored
  <2>4. ASSUME ~(\E w \in Workers : InsertChunks(w) \/ StoreVectors(w))
        PROVE  UNCHANGED generation
    BY <2>4 DEF Next, Chunker, Progress, Crash, AnswerUsable, AnswerUnusable, RateLimited, Wake,
       AskInteractively, ReturnAnswer, StartStages, RecheckChunked, ListChunks, RecheckEmbedded
  <2> QED BY <2>1, <2>2, <2>3, <2>4
<1> QED BY <1>1, AlwaysEmbeddingSound, PTL DEF Spec, IndexIsWrittenOnce

-----------------------------------------------------------------------------
(* Selections of a sequence, and sums of one and of two numbers. *)

\* The place of a position among others.
Rank(positions, i) == Cardinality({j \in positions : j < i})

\* A later position has a higher rank.
LEMMA RanksAreDistinct ==
  ASSUME NEW positions \in SUBSET Nat, IsFiniteSet(positions),
         NEW i \in positions, NEW k \in positions, i < k
  PROVE  Rank(positions, i) < Rank(positions, k)
<1>1. PICK before, upto : /\ before = {j \in positions : j < i}
                          /\ upto = {j \in positions : j < k}
  OBVIOUS
<1>2. before \subseteq upto /\ upto \subseteq positions /\ before # upto
  <2>1. i \in upto /\ i \notin before
    BY <1>1
  <2>2. \A j \in positions : j < i => j < k
    OBVIOUS
  <2> QED BY <1>1, <2>1, <2>2
<1>3. IsFiniteSet(upto) /\ IsFiniteSet(before)
  BY <1>2, FS_Subset
<1>4. Cardinality(before) <= Cardinality(upto) /\ Cardinality(before) # Cardinality(upto)
  BY <1>2, <1>3, FS_Subset
<1>5. Cardinality(before) \in Nat /\ Cardinality(upto) \in Nat
  BY <1>3, FS_CardinalityType
<1> QED BY <1>1, <1>4, <1>5 DEF Rank

LEMMA RankType ==
  ASSUME NEW positions \in SUBSET Nat, IsFiniteSet(positions), NEW i \in positions
  PROVE  Rank(positions, i) \in Nat /\ Rank(positions, i) < Cardinality(positions)
<1>1. PICK before : before = {j \in positions : j < i}
  OBVIOUS
<1>2. before \subseteq positions /\ before # positions
  BY <1>1
<1>3. IsFiniteSet(before) /\ Cardinality(before) <= Cardinality(positions)
      /\ Cardinality(before) # Cardinality(positions)
  BY <1>2, FS_Subset
<1>4. Cardinality(before) \in Nat /\ Cardinality(positions) \in Nat
  BY <1>3, FS_CardinalityType
<1> QED BY <1>1, <1>3, <1>4 DEF Rank

\* Every place is taken.
LEMMA EveryRankIsTaken ==
  ASSUME NEW positions \in SUBSET Nat, IsFiniteSet(positions),
         NEW n \in 1..Cardinality(positions)
  PROVE  \E i \in positions : Rank(positions, i) = n - 1
<1>1. PICK count \in Nat : count = Cardinality(positions)
  BY FS_CardinalityType
<1>2. PICK f : f = [i \in positions |-> Rank(positions, i) + 1]
  OBVIOUS
<1>3. f \in [positions -> 1..count]
  BY <1>1, <1>2, RankType
<1>4. \A i, k \in positions : f[i] = f[k] => i = k
  <2> SUFFICES ASSUME NEW i \in positions, NEW k \in positions, i # k PROVE f[i] # f[k]
    OBVIOUS
  <2>1. Rank(positions, i) \in Nat /\ Rank(positions, k) \in Nat
    BY RankType
  <2>2. i < k \/ k < i
    OBVIOUS
  <2> QED BY <1>2, <2>1, <2>2, RanksAreDistinct
<1>5. f \in Injection(positions, 1..count)
  BY <1>3, <1>4 DEF Injection, IsInjective
<1>6. IsFiniteSet(1..count) /\ Cardinality(1..count) = count
  BY <1>1, FS_Interval, 1 \in Int, count \in Int
<1>7. f \in Surjection(positions, 1..count)
  BY <1>1, <1>5, <1>6, FS_Injection
<1>8. PICK i \in positions : f[i] = n
  BY <1>1, <1>7 DEF Surjection
<1>9. Rank(positions, i) \in Nat
  BY RankType
<1> QED BY <1>1, <1>2, <1>8, <1>9

\* A selection has the chosen elements, no others, and as many.
LEMMA InOrderIs ==
  ASSUME NEW S, NEW s \in Seq(S), NEW positions \in SUBSET (DOMAIN s)
  PROVE  /\ InOrder(s, positions) \in Seq(S)
         /\ ToSet(InOrder(s, positions)) = {s[i] : i \in positions}
         /\ Len(InOrder(s, positions)) = Cardinality(positions)
         /\ Cardinality(positions) \in Nat /\ Cardinality(positions) <= Len(s)
<1>1. PICK length \in Nat : length = Len(s) /\ DOMAIN s = 1..length
  OBVIOUS
<1>2. IsFiniteSet(1..length) /\ Cardinality(1..length) = length
  BY FS_Interval, 1 \in Int, length \in Int
<1>3. positions \in SUBSET Nat /\ IsFiniteSet(positions) /\ Cardinality(positions) <= length
  BY <1>1, <1>2, FS_Subset
<1>4. PICK count \in Nat : count = Cardinality(positions)
  BY <1>3, FS_CardinalityType
<1> DEFINE Place(n) == CHOOSE i \in positions : Cardinality({j \in positions : j < i}) = n - 1
<1>5. \A n \in 1..count : Place(n) \in positions /\ Rank(positions, Place(n)) = n - 1
  BY <1>3, <1>4, EveryRankIsTaken DEF Rank
<1>6. InOrder(s, positions) = [n \in 1..count |-> s[Place(n)]]
  BY <1>4 DEF InOrder
<1> HIDE DEF Place
<1>7. InOrder(s, positions) \in Seq(S) /\ Len(InOrder(s, positions)) = count
  BY <1>5, <1>6
<1>8. ASSUME NEW i \in positions PROVE \E n \in 1..count : s[Place(n)] = s[i]
  <2>1. PICK rank \in Nat : rank = Rank(positions, i) /\ rank < count
    BY <1>3, <1>4, RankType
  <2>2. rank + 1 \in 1..count /\ rank + 1 - 1 = rank
    BY <2>1
  <2>3. Place(rank + 1) \in positions /\ Rank(positions, Place(rank + 1)) = rank
    BY <1>5, <2>2
  <2>4. Place(rank + 1) = i
    <3>1. ~(Place(rank + 1) < i) /\ ~(i < Place(rank + 1))
      BY <1>3, <2>1, <2>3, RanksAreDistinct
    <3>2. Place(rank + 1) \in Nat /\ i \in Nat
      BY <1>3, <2>3
    <3> QED BY <3>1, <3>2
  <2> QED BY <2>2, <2>4
<1>9. ToSet(InOrder(s, positions)) = {s[Place(n)] : n \in 1..count}
  BY <1>6 DEF ToSet
<1>10. {s[Place(n)] : n \in 1..count} = {s[i] : i \in positions}
  BY <1>5, <1>8
<1> QED BY <1>1, <1>3, <1>4, <1>7, <1>9, <1>10

\* Dropping repetitions loses no element.
LEMMA DistinctIs ==
  ASSUME NEW S, NEW s \in Seq(S)
  PROVE  /\ Distinct(s) \in Seq(S)
         /\ ToSet(Distinct(s)) = ToSet(s)
         /\ Len(Distinct(s)) <= Len(s)
<1>1. PICK firsts : firsts = {i \in DOMAIN s : \A j \in 1..i - 1 : s[j] # s[i]}
  OBVIOUS
<1>2. firsts \in SUBSET (DOMAIN s) /\ Distinct(s) = InOrder(s, firsts)
  BY <1>1 DEF Distinct
<1>3. ASSUME NEW k \in DOMAIN s PROVE \E i \in firsts : s[i] = s[k]
  <2>1. PICK same : same = {i \in DOMAIN s : s[i] = s[k]}
    OBVIOUS
  <2>2. PICK length \in Nat : length = Len(s) /\ DOMAIN s = 1..length
    OBVIOUS
  <2>3. same \in SUBSET Nat /\ same \subseteq 1..length /\ k \in same
    BY <2>1, <2>2
  <2>4. IsFiniteSet(same)
    <3>1. IsFiniteSet(1..length)
      BY FS_Interval, 1 \in Int, length \in Int
    <3> QED BY <2>3, <3>1, FS_Subset
  <2>5. 1 \in 1..Cardinality(same)
    <3>1. Cardinality(same) # 0 /\ Cardinality(same) \in Nat
      BY <2>3, <2>4, FS_EmptySet, FS_CardinalityType
    <3> QED BY <3>1
  <2>6. PICK i \in same : Rank(same, i) = 0
    BY <2>3, <2>4, <2>5, EveryRankIsTaken
  <2>7. ASSUME NEW j \in 1..i - 1 PROVE s[j] # s[i]
    <3>1. j < i /\ j \in 1..length
      BY <2>3, <2>6
    <3>2. j \in same => Rank(same, j) < 0
      BY <2>3, <2>4, <2>6, <3>1, RanksAreDistinct
    <3>3. j \in same => Rank(same, j) \in Nat
      BY <2>3, <2>4, RankType
    <3> QED BY <2>1, <2>2, <2>6, <3>1, <3>2, <3>3
  <2> QED BY <1>1, <2>1, <2>6, <2>7
<1>4. {s[i] : i \in firsts} = ToSet(s)
  BY <1>2, <1>3 DEF ToSet
<1> QED BY <1>2, <1>4, InOrderIs

\* One list flattens to itself.
LEMMA FlattenOne ==
  ASSUME NEW s PROVE FlattenSeq(<<s>>) = s
<1> DEFINE Flat(g) == [i \in 1..Len(<<s>>) |-> IF i = 1 THEN <<s>>[i] ELSE g[i - 1] \o <<s>>[i]]
<1>1. \E g : g = Flat(g)
  <2>1. PICK g : g = [i \in 1..1 |-> s]
    OBVIOUS
  <2>2. g = Flat(g)
    BY <2>1
  <2> QED BY <2>2
<1>2. PICK flatten : flatten = CHOOSE g : g = Flat(g)
  OBVIOUS
<1>3. flatten = Flat(flatten)
  BY <1>1, <1>2
<1>4. FlattenSeq(<<s>>) = flatten[1]
  BY <1>2 DEF FlattenSeq
<1> QED BY <1>3, <1>4

\* The recursion behind SumFunction, step by step.
Chosen(s) == CHOOSE x \in s : TRUE

Partial(f, iter) ==
  [s \in SUBSET DOMAIN f |-> IF s = {} THEN 0 ELSE f[Chosen(s)] + iter[s \ {Chosen(s)}]]

LEMMA SumIsPartial ==
  ASSUME NEW f, NEW sum, sum = Partial(f, sum)
  PROVE  \E iter : iter = Partial(f, iter) /\ SumFunction(f) = iter[DOMAIN f]
<1>1. PICK iter : iter = CHOOSE g : g = Partial(f, g)
  OBVIOUS
<1>2. iter = Partial(f, iter)
  BY <1>1
<1>3. SumFunction(f) = iter[DOMAIN f]
  BY <1>1 DEF SumFunction, SumFunctionOnSet, FoldFunctionOnSet, MapThenFoldSet, Partial, Chosen
<1> QED BY <1>2, <1>3

LEMMA SumOfOne ==
  ASSUME NEW a, NEW f, DOMAIN f = {a}, f[a] \in Nat
  PROVE  SumFunction(f) = f[a]
<1>1. SUBSET DOMAIN f = {{}, {a}} /\ Chosen({a}) = a /\ {a} \ {a} = {} /\ {a} # {}
  BY DEF Chosen
<1>2. PICK sum : sum = [s \in SUBSET DOMAIN f |-> IF s = {} THEN 0 ELSE f[a]]
  OBVIOUS
<1>3. sum = Partial(f, sum)
  <2>1. DOMAIN sum = {{}, {a}} /\ DOMAIN Partial(f, sum) = {{}, {a}}
    BY <1>1, <1>2 DEF Partial
  <2>2. sum[{}] = 0 /\ sum[{a}] = f[a] + 0
    BY <1>1, <1>2
  <2>3. Partial(f, sum)[{}] = 0 /\ Partial(f, sum)[{a}] = f[a] + sum[{}]
    BY <1>1 DEF Partial
  <2>4. \A s \in {{}, {a}} : sum[s] = Partial(f, sum)[s]
    BY <2>2, <2>3
  <2> QED BY <2>1, <2>4, <1>2 DEF Partial
<1>4. PICK iter : iter = Partial(f, iter) /\ SumFunction(f) = iter[DOMAIN f]
  BY <1>3, SumIsPartial
<1>5. iter[{}] = 0 /\ iter[{a}] = f[a] + iter[{}]
  BY <1>1, <1>4 DEF Partial
<1> QED BY <1>4, <1>5

LEMMA SumOfTwo ==
  ASSUME NEW a, NEW b, NEW f, a # b, DOMAIN f = {a, b}, f[a] \in Nat, f[b] \in Nat
  PROVE  SumFunction(f) = f[a] + f[b]
<1>1. PICK c, d : {c, d} = {a, b} /\ c # d /\ Chosen({c, d}) = c
  BY DEF Chosen
<1>2. f[c] \in Nat /\ f[d] \in Nat /\ f[c] + f[d] = f[a] + f[b] /\ DOMAIN f = {c, d}
  BY <1>1
<1>3. SUBSET {c, d} = {{}, {c}, {d}, {c, d}}
  <2> SUFFICES ASSUME NEW s \in SUBSET {c, d} PROVE s \in {{}, {c}, {d}, {c, d}}
    OBVIOUS
  <2> QED OBVIOUS
<1>4. /\ Chosen({c}) = c /\ Chosen({d}) = d
      /\ {c} \ {c} = {} /\ {d} \ {d} = {} /\ {c, d} \ {c} = {d}
      /\ {c} # {} /\ {d} # {} /\ {c, d} # {} /\ {c} # {d} /\ {c, d} # {c} /\ {c, d} # {d}
  BY <1>1 DEF Chosen
<1>5. PICK sum : sum = [s \in SUBSET DOMAIN f |->
        IF s = {} THEN 0 ELSE IF s = {c} THEN f[c] ELSE IF s = {d} THEN f[d] ELSE f[c] + f[d]]
  OBVIOUS
<1>6. sum = Partial(f, sum)
  <2>1. DOMAIN sum = SUBSET {c, d} /\ DOMAIN Partial(f, sum) = SUBSET {c, d}
    BY <1>2, <1>5 DEF Partial
  <2>2. /\ sum[{}] = 0 /\ sum[{c}] = f[c] /\ sum[{d}] = f[d] /\ sum[{c, d}] = f[c] + f[d]
    BY <1>2, <1>3, <1>4, <1>5
  <2>3. /\ Partial(f, sum)[{}] = 0 /\ Partial(f, sum)[{c}] = f[c] + sum[{}]
        /\ Partial(f, sum)[{d}] = f[d] + sum[{}]
        /\ Partial(f, sum)[{c, d}] = f[c] + sum[{d}]
    BY <1>1, <1>2, <1>3, <1>4 DEF Partial
  <2>4. \A s \in SUBSET {c, d} : sum[s] = Partial(f, sum)[s]
    <3>1. f[c] + 0 = f[c] /\ f[d] + 0 = f[d]
      BY <1>2
    <3>2. \A s \in {{}, {c}, {d}, {c, d}} : sum[s] = Partial(f, sum)[s]
      BY <2>2, <2>3, <3>1, Zenon
    <3> QED BY <1>3, <3>2
  <2> QED BY <2>1, <2>4, <1>5 DEF Partial
<1>7. PICK iter : iter = Partial(f, iter) /\ SumFunction(f) = iter[DOMAIN f]
  BY <1>6, SumIsPartial
<1>8. iter[{}] = 0 /\ iter[{d}] = f[d] + iter[{}] /\ iter[{c, d}] = f[c] + iter[{d}]
  BY <1>1, <1>2, <1>3, <1>4, <1>7 DEF Partial
<1> QED BY <1>2, <1>7, <1>8

-----------------------------------------------------------------------------
(* Metrics of a case and of two cases (CaseScoring). *)

\* The metrics of a case, each known by its name, stage and K.
MetricNames ==
  {"precision", "recall", "citation_precision", "citation_recall", "answerability_accuracy"}

ScoredStages == {"lexical", "vector", "fused", "reranked", "citation", "answer"} \X Nat

Metrics ==
  {m \in [name : MetricNames, stage : ScoredStages, k : Nat, numerator : Nat, denominator : Nat] :
     m.denominator > 0 /\ m.numerator <= m.denominator}

OnePerKey(metrics) == \A a, b \in metrics : Key(a) = Key(b) => a = b

\* A metric of two cases is the sum of theirs, or that of the only one that has it.
LEMMA AggregateOfTwo ==
  ASSUME NEW one \in SUBSET Metrics, NEW two \in SUBSET Metrics, OnePerKey(one), OnePerKey(two),
         NEW m \in AggregateMetrics(<<one, two>>)
  PROVE  \/ \E a \in one, b \in two :
              /\ Key(a) = Key(m) /\ Key(b) = Key(m)
              /\ m.numerator = a.numerator + b.numerator
              /\ m.denominator = a.denominator + b.denominator
         \/ m \in one /\ \A b \in two : Key(b) # Key(m)
         \/ m \in two /\ \A a \in one : Key(a) # Key(m)
<1> DEFINE scores == <<one, two>>
           keys == {Key(x) : x \in UNION ToSet(scores)}
           Of(key) == {x \in UNION {{n} \X scores[n] : n \in DOMAIN scores} : Key(x[2]) = key}
           Num(key) == [x \in Of(key) |-> x[2].numerator]
           Den(key) == [x \in Of(key) |-> x[2].denominator]
<1>1. PICK key \in keys :
        m = Metric(key[1], key[2], key[3], SumFunction(Num(key)), SumFunction(Den(key)))
  BY DEF AggregateMetrics
<1>2. PICK first : first \in one \cup two /\ Key(first) = key
  BY DEF ToSet
<1>3. key = Key(m)
  <2>1. key = <<key[1], key[2], key[3]>>
    BY <1>2 DEF Key
  <2> QED BY <1>1, <2>1 DEF Key, Metric
<1>4. Of(key) = {<<1, a>> : a \in {x \in one : Key(x) = key}}
                  \cup {<<2, b>> : b \in {x \in two : Key(x) = key}}
  <2>1. UNION {{n} \X scores[n] : n \in DOMAIN scores} = ({1} \X one) \cup ({2} \X two)
    <3>1. DOMAIN scores = {1, 2} /\ scores[1] = one /\ scores[2] = two
      OBVIOUS
    <3> HIDE DEF scores
    <3> QED BY <3>1
  <2> HIDE DEF scores
  <2> QED BY <2>1
<1>5. /\ m.numerator = SumFunction(Num(key)) /\ m.denominator = SumFunction(Den(key))
  BY <1>1 DEF Metric
<1>6. \A x \in one \cup two : x.numerator \in Nat /\ x.denominator \in Nat
  BY DEF Metrics
<1>7. \A x \in Metrics : x = Metric(x.name, x.stage, x.k, x.numerator, x.denominator)
  BY DEF Metrics, Metric
<1>8. ASSUME NEW a \in one, NEW b \in two, Key(a) = key, Key(b) = key
      PROVE  m.numerator = a.numerator + b.numerator /\ m.denominator = a.denominator + b.denominator
  <2>1. Of(key) = {<<1, a>>, <<2, b>>}
    <3>1. {x \in one : Key(x) = key} = {a} /\ {x \in two : Key(x) = key} = {b}
      BY <1>8 DEF OnePerKey
    <3> HIDE DEF Of
    <3> QED BY <1>4, <3>1
  <2>2. <<1, a>> # <<2, b>>
    OBVIOUS
  <2>3. DOMAIN Num(key) = {<<1, a>>, <<2, b>>} /\ DOMAIN Den(key) = {<<1, a>>, <<2, b>>}
    BY <2>1
  <2>4. /\ Num(key)[<<1, a>>] = a.numerator /\ Num(key)[<<2, b>>] = b.numerator
        /\ Den(key)[<<1, a>>] = a.denominator /\ Den(key)[<<2, b>>] = b.denominator
    <3> HIDE DEF Of
    <3> QED BY <2>1
  <2> HIDE DEF Num, Den
  <2>5. /\ a.numerator \in Nat /\ b.numerator \in Nat
        /\ a.denominator \in Nat /\ b.denominator \in Nat
    BY <1>6
  <2>6. PICK p, q, num, den :
          p = <<1, a>> /\ q = <<2, b>> /\ num = Num(key) /\ den = Den(key)
    OBVIOUS
  <2>7. p # q /\ DOMAIN num = {p, q} /\ num[p] \in Nat /\ num[q] \in Nat
        /\ DOMAIN den = {p, q} /\ den[p] \in Nat /\ den[q] \in Nat
    BY <2>2, <2>3, <2>4, <2>5, <2>6
  <2>8. SumFunction(num) = num[p] + num[q] /\ SumFunction(den) = den[p] + den[q]
    BY <2>7, SumOfTwo
  <2> QED BY <1>5, <2>4, <2>6, <2>8
<1>9. ASSUME NEW a \in Metrics, NEW n, Of(key) = {<<n, a>>}, Key(a) = key PROVE m = a
  <2>1. DOMAIN Num(key) = {<<n, a>>} /\ DOMAIN Den(key) = {<<n, a>>}
    BY <1>9
  <2>2. Num(key)[<<n, a>>] = a.numerator /\ Den(key)[<<n, a>>] = a.denominator
    <3> HIDE DEF Of
    <3> QED BY <1>9
  <2>3. a.numerator \in Nat /\ a.denominator \in Nat
    BY DEF Metrics
  <2> HIDE DEF Num, Den
  <2>4. SumFunction(Num(key)) = a.numerator /\ SumFunction(Den(key)) = a.denominator
    BY <2>1, <2>2, <2>3, SumOfOne
  <2>5. key[1] = a.name /\ key[2] = a.stage /\ key[3] = a.k
    BY <1>9 DEF Key
  <2> QED BY <1>1, <1>7, <2>4, <2>5
<1> HIDE DEF Of, Num, Den, keys, scores
<1>10. ASSUME NEW a \in one, Key(a) = key, \A b \in two : Key(b) # key PROVE m = a
  <2>1. {x \in one : Key(x) = key} = {a} /\ {x \in two : Key(x) = key} = {}
    BY <1>10 DEF OnePerKey
  <2>2. Of(key) = {<<1, a>>}
    BY <1>4, <2>1
  <2> QED BY <1>9, <1>10, <2>2
<1>11. ASSUME NEW b \in two, Key(b) = key, \A a \in one : Key(a) # key PROVE m = b
  <2>1. {x \in two : Key(x) = key} = {b} /\ {x \in one : Key(x) = key} = {}
    BY <1>11 DEF OnePerKey
  <2>2. Of(key) = {<<2, b>>}
    BY <1>4, <2>1
  <2> QED BY <1>9, <1>11, <2>2
<1>12. CASE \E a \in one : Key(a) = key
  <2>1. PICK a \in one : Key(a) = key
    BY <1>12
  <2> QED BY <1>3, <1>8, <1>10, <2>1
<1>13. CASE ~(\E a \in one : Key(a) = key)
  BY <1>2, <1>3, <1>11, <1>13
<1> QED BY <1>12, <1>13

LEMMA IntervalSize ==
  ASSUME NEW n \in Nat PROVE IsFiniteSet(1..n) /\ Cardinality(1..n) = n
BY FS_Interval, 1 \in Int, n \in Int

\* There are no more positions than places.
LEMMA PositionsCount ==
  ASSUME NEW n \in Nat, NEW positions \in SUBSET (1..n)
  PROVE  Cardinality(positions) \in Nat /\ Cardinality(positions) <= n
<1>1. IsFiniteSet(1..n) /\ Cardinality(1..n) = n
  BY IntervalSize
<1> QED BY <1>1, FS_Subset, FS_CardinalityType

LEMMA MetricIs ==
  ASSUME NEW name \in MetricNames, NEW stage \in ScoredStages, NEW k \in Nat,
         NEW numerator \in Nat, NEW denominator \in Nat,
         denominator > 0, numerator <= denominator
  PROVE  Metric(name, stage, k, numerator, denominator) \in Metrics
BY DEF Metric, Metrics

Precision(ranked, gold, stage, k) ==
  Metric("precision", stage, k, Cardinality(Relevant(Top(ranked, k), gold)), k)

Recall(ranked, gold, stage, k) ==
  Metric("recall", stage, k, Cardinality(Found(Top(ranked, k), gold)), Len(gold))

\* A metric of a ranking is a precision or a recall, and a ratio ...
LEMMA RankingMetricIs ==
  ASSUME NEW S, NEW ranked \in Seq(S), NEW gold \in Seq(S), NEW ks \in SUBSET (Nat \ {0}),
         NEW stage \in ScoredStages, NEW complete \in BOOLEAN,
         NEW m \in RetrievalMetrics(ranked, gold, ks, stage, complete)
  PROVE  /\ m \in Metrics
         /\ \E k \in ks : m \in {Precision(ranked, gold, stage, k), Recall(ranked, gold, stage, k)}
<1>1. PICK k \in ks : m \in {Precision(ranked, gold, stage, k), Recall(ranked, gold, stage, k)}
  BY DEF RetrievalMetrics, Precision, Recall
<1>2. PICK n \in Nat : n = Len(gold) /\ n > 0 /\ DOMAIN gold = 1..n
  BY DEF RetrievalMetrics
<1>3. /\ Cardinality(Relevant(Top(ranked, k), gold)) \in Nat
      /\ Cardinality(Relevant(Top(ranked, k), gold)) <= k
  <2>1. Relevant(Top(ranked, k), gold) \subseteq 1..k
    BY DEF Relevant, Top
  <2> QED BY <2>1, PositionsCount
<1>4. /\ Cardinality(Found(Top(ranked, k), gold)) \in Nat
      /\ Cardinality(Found(Top(ranked, k), gold)) <= n
  <2>1. Found(Top(ranked, k), gold) \subseteq 1..n
    BY <1>2 DEF Found
  <2> QED BY <2>1, PositionsCount
<1>5. CASE m = Precision(ranked, gold, stage, k)
  BY <1>1, <1>3, <1>5 DEF Precision, Metric, Metrics, MetricNames
<1>6. CASE m = Recall(ranked, gold, stage, k)
  BY <1>1, <1>2, <1>4, <1>6 DEF Recall, Metric, Metrics, MetricNames
<1> QED BY <1>1, <1>5, <1>6

CitationPrecision(cited, gold) ==
  Metric("citation_precision", <<"citation", 0>>, 0, Cardinality(Relevant(cited, gold)), Len(cited))

CitationRecall(cited, gold) ==
  Metric("citation_recall", <<"citation", 0>>, 0, Cardinality(Found(cited, gold)), Len(gold))

\* ... and so is one of citations.
LEMMA CitationMetricIs ==
  ASSUME NEW S, NEW citations \in Seq(S), NEW gold \in Seq(S), NEW complete \in BOOLEAN,
         NEW m \in CitationMetrics(citations, gold, complete)
  PROVE  /\ m \in Metrics
         /\ \/ m = CitationPrecision(Distinct(citations), gold) /\ Len(Distinct(citations)) # 0
            \/ m = CitationRecall(Distinct(citations), gold)
<1>1. PICK cited \in Seq(S) : cited = Distinct(citations)
  BY DistinctIs
<1>2. PICK n \in Nat : n = Len(gold) /\ n > 0 /\ DOMAIN gold = 1..n
  BY DEF CitationMetrics
<1>3. \/ m = CitationPrecision(cited, gold) /\ Len(cited) # 0
      \/ m = CitationRecall(cited, gold)
  BY <1>1 DEF CitationMetrics, CitationPrecision, CitationRecall
<1>4. PICK length \in Nat : length = Len(cited) /\ DOMAIN cited = 1..length
  BY <1>1
<1>5. Cardinality(Relevant(cited, gold)) \in Nat /\ Cardinality(Relevant(cited, gold)) <= length
  <2>1. Relevant(cited, gold) \subseteq 1..length
    BY <1>4 DEF Relevant
  <2> QED BY <2>1, PositionsCount
<1>6. Cardinality(Found(cited, gold)) \in Nat /\ Cardinality(Found(cited, gold)) <= n
  <2>1. Found(cited, gold) \subseteq 1..n
    BY <1>2 DEF Found
  <2> QED BY <2>1, PositionsCount
<1>7. <<"citation", 0>> \in ScoredStages /\ 0 \in Nat
      /\ "citation_precision" \in MetricNames /\ "citation_recall" \in MetricNames
  BY DEF ScoredStages, MetricNames
<1>8. length # 0 => length > 0
  BY <1>4
<1>9. Len(cited) # 0 => CitationPrecision(cited, gold) \in Metrics
  BY <1>4, <1>5, <1>7, <1>8, MetricIs DEF CitationPrecision
<1>10. CitationRecall(cited, gold) \in Metrics
  BY <1>2, <1>6, <1>7, MetricIs DEF CitationRecall
<1> QED BY <1>1, <1>3, <1>9, <1>10

\* Rankings and citations of passages of S.
ResultOf(result, S) ==
  /\ \A stage \in DOMAIN result.ranked :
       stage \in ScoredStages /\ result.ranked[stage] \in Seq(S)
  /\ result.citations \in Seq(S)
  /\ result.answered \in BOOLEAN

CaseOf(case, S) ==
  case.gold \in Seq(S) /\ case.complete \in BOOLEAN /\ case.answerable \in BOOLEAN

\* A metric of a case, by its name.
LEMMA CaseMetricIs ==
  ASSUME NEW S, NEW case, CaseOf(case, S), NEW result, ResultOf(result, S),
         NEW ks \in SUBSET (Nat \ {0}), NEW m \in ScoreCase(case, result, ks)
  PROVE  /\ m \in Metrics
         /\ m.name = "precision" =>
              /\ m.stage \in DOMAIN result.ranked /\ m.k \in ks
              /\ m = Precision(result.ranked[m.stage], case.gold, m.stage, m.k)
         /\ m.name = "recall" =>
              /\ m.stage \in DOMAIN result.ranked /\ m.k \in ks
              /\ m = Recall(result.ranked[m.stage], case.gold, m.stage, m.k)
         /\ m.name = "citation_precision" =>
              /\ Len(Distinct(result.citations)) # 0
              /\ m = CitationPrecision(Distinct(result.citations), case.gold)
         /\ m.name = "citation_recall" =>
              m = CitationRecall(Distinct(result.citations), case.gold)
         /\ m.name = "answerability_accuracy" =>
              m = Answerability(result.answered <=> case.answerable)
<1>1. \/ \E stage \in DOMAIN result.ranked :
           m \in RetrievalMetrics(result.ranked[stage], case.gold, ks, stage, case.complete)
      \/ m \in CitationMetrics(result.citations, case.gold, case.complete)
      \/ m = Answerability(result.answered <=> case.answerable)
  BY DEF ScoreCase
<1>2. ASSUME NEW stage \in DOMAIN result.ranked,
             m \in RetrievalMetrics(result.ranked[stage], case.gold, ks, stage, case.complete)
      PROVE  /\ m \in Metrics /\ m.stage = stage /\ m.k \in ks
             /\ \/ /\ m.name = "precision"
                   /\ m = Precision(result.ranked[stage], case.gold, stage, m.k)
                \/ /\ m.name = "recall"
                   /\ m = Recall(result.ranked[stage], case.gold, stage, m.k)
  <2>1. PICK ranked \in Seq(S), gold \in Seq(S) : ranked = result.ranked[stage] /\ gold = case.gold
    BY DEF ResultOf, CaseOf
  <2>2. stage \in ScoredStages /\ case.complete \in BOOLEAN
    BY DEF ResultOf, CaseOf
  <2>3. m \in RetrievalMetrics(ranked, gold, ks, stage, case.complete)
    BY <1>2, <2>1
  <2>4. PICK k \in ks : m \in {Precision(ranked, gold, stage, k), Recall(ranked, gold, stage, k)}
    BY <2>2, <2>3, RankingMetricIs
  <2>5. m \in Metrics
    BY <2>2, <2>3, RankingMetricIs
  <2>6. m.stage = stage /\ m.k = k
    BY <2>4 DEF Precision, Recall, Metric
  <2>7. m = Precision(ranked, gold, stage, k) => m.name = "precision"
    BY DEF Precision, Metric
  <2>8. m = Recall(ranked, gold, stage, k) => m.name = "recall"
    BY DEF Recall, Metric
  <2> QED BY <2>1, <2>4, <2>5, <2>6, <2>7, <2>8
<1>3. ASSUME m \in CitationMetrics(result.citations, case.gold, case.complete)
      PROVE  /\ m \in Metrics
             /\ \/ /\ m.name = "citation_precision"
                   /\ m = CitationPrecision(Distinct(result.citations), case.gold)
                   /\ Len(Distinct(result.citations)) # 0
                \/ /\ m.name = "citation_recall"
                   /\ m = CitationRecall(Distinct(result.citations), case.gold)
  <2>1. /\ m \in Metrics
        /\ \/ /\ m = CitationPrecision(Distinct(result.citations), case.gold)
              /\ Len(Distinct(result.citations)) # 0
           \/ m = CitationRecall(Distinct(result.citations), case.gold)
    BY <1>3, CitationMetricIs DEF ResultOf, CaseOf
  <2> QED BY <2>1 DEF CitationPrecision, CitationRecall, Metric
<1>4. ASSUME m = Answerability(result.answered <=> case.answerable)
      PROVE  m \in Metrics /\ m.name = "answerability_accuracy"
  <2>1. <<"answer", 0>> \in ScoredStages
    BY DEF ScoredStages
  <2> QED BY <1>4, <2>1 DEF Answerability, Metric, Metrics, MetricNames
<1>5. CASE \E stage \in DOMAIN result.ranked :
             m \in RetrievalMetrics(result.ranked[stage], case.gold, ks, stage, case.complete)
  BY <1>2, <1>5
<1>6. CASE m \in CitationMetrics(result.citations, case.gold, case.complete)
  BY <1>3, <1>6
<1>7. CASE m = Answerability(result.answered <=> case.answerable)
  BY <1>4, <1>7
<1> QED BY <1>1, <1>5, <1>6, <1>7

\* No metric of a case exceeds one, whatever was labelled, retrieved and cited
\* and however much it overlaps, and a case has no two metrics of one key, so
\* that a sum over cases takes one ratio of each.
THEOREM MetricsAreRatios ==
  ASSUME NEW S, NEW case, CaseOf(case, S), NEW result, ResultOf(result, S),
         NEW ks \in SUBSET (Nat \ {0})
  PROVE  /\ ScoreCase(case, result, ks) \in SUBSET Metrics
         /\ OnePerKey(ScoreCase(case, result, ks))
<1>1. ScoreCase(case, result, ks) \in SUBSET Metrics
  BY CaseMetricIs
<1>2. ASSUME NEW a \in ScoreCase(case, result, ks), NEW b \in ScoreCase(case, result, ks),
             Key(a) = Key(b)
      PROVE  a = b
  <2>1. a.name = b.name /\ a.stage = b.stage /\ a.k = b.k
    BY <1>2 DEF Key
  <2>2. a.name \in MetricNames
    BY <1>1 DEF Metrics
  <2>3. CASE a.name = "precision"
    <3>1. a = Precision(result.ranked[a.stage], case.gold, a.stage, a.k)
      BY <2>3, CaseMetricIs
    <3>2. b.name = "precision"
      BY <2>1, <2>3
    <3>3. b = Precision(result.ranked[b.stage], case.gold, b.stage, b.k)
      BY <3>2, CaseMetricIs
    <3> QED BY <2>1, <3>1, <3>3
  <2>4. CASE a.name = "recall"
    <3>1. a = Recall(result.ranked[a.stage], case.gold, a.stage, a.k)
      BY <2>4, CaseMetricIs
    <3>2. b.name = "recall"
      BY <2>1, <2>4
    <3>3. b = Recall(result.ranked[b.stage], case.gold, b.stage, b.k)
      BY <3>2, CaseMetricIs
    <3> QED BY <2>1, <3>1, <3>3
  <2>5. CASE a.name \in {"citation_precision", "citation_recall", "answerability_accuracy"}
    BY <2>1, <2>5, CaseMetricIs
  <2> QED BY <2>2, <2>3, <2>4, <2>5 DEF MetricNames
<1> QED BY <1>1, <1>2 DEF OnePerKey

\* Recall is measured of every ranking and of the citations of a complete case.
LEMMA RecallIsMeasured ==
  ASSUME NEW case, NEW result, NEW ks, case.gold # <<>>, case.complete = TRUE
  PROVE  /\ \A stage \in DOMAIN result.ranked, k \in ks :
              Recall(result.ranked[stage], case.gold, stage, k) \in ScoreCase(case, result, ks)
         /\ CitationRecall(Distinct(result.citations), case.gold) \in ScoreCase(case, result, ks)
<1>1. ASSUME NEW stage \in DOMAIN result.ranked, NEW k \in ks
      PROVE  Recall(result.ranked[stage], case.gold, stage, k)
               \in RetrievalMetrics(result.ranked[stage], case.gold, ks, stage, case.complete)
  BY DEF RetrievalMetrics, Recall
<1>2. CitationRecall(Distinct(result.citations), case.gold)
        \in CitationMetrics(result.citations, case.gold, case.complete)
  BY DEF CitationMetrics, CitationRecall
<1> QED BY <1>1, <1>2 DEF ScoreCase

-----------------------------------------------------------------------------
(* Labels of an evaluation in the chunks of an index (ScoredPassages). *)

Spans == [version : {Original}, page : Nat, from : Nat, to : Nat]

\* Short labels of the text, as ScoredPassages enumerates them.
ShortLabels ==
  {span \in Spans : /\ span.page = 1 + PagesBefore(span.from)
                    /\ span.from < span.to
                    /\ span.to - span.from <= LabelLimit
                    /\ IsLabel(span)}

LEMMA PhraseLimitType ==
  ASSUME WalkInv PROVE PhraseLimit \in Nat /\ PhraseLimit >= 1
<1>1. PICK half : half = input.maxChars \div 2
  OBVIOUS
<1>2. half \in Nat
  BY <1>1, InputFacts
<1> QED BY <1>1, <1>2, InputFacts DEF PhraseLimit, Greater, Lesser

\* Half of a short label, or more, is a phrase.
LEMMA HalfIsPhrase ==
  ASSUME ChunkerInv, NEW span \in ShortLabels
  PROVE  \E last \in span.from + 1..span.to :
           /\ last <= span.from + PhraseLimit
           /\ 2 * (last - span.from) >= span.to - span.from
           /\ IsPhrase(span.from + 1, last)
<1>1. PICK a, b, n : a = span.from /\ b = span.to /\ n = PhraseLimit
  OBVIOUS
<1>2. WalkInv
  BY DEF ChunkerInv
<1>3. /\ a \in Nat /\ b \in Nat /\ a < b /\ b - a <= 2 * n
      /\ n \in Nat /\ n >= 1
  BY <1>1, <1>2, PhraseLimitType DEF ShortLabels, Spans, LabelLimit
<1>4. /\ b <= Len(input.text)
      /\ \A i \in a + 1..b : input.text[i] # "formfeed"
      /\ input.text[a + 1] = "letter" /\ input.text[b] = "letter"
      /\ b - a <= n \/ \A i \in a + 1..b : input.text[i] # "space"
  BY <1>1 DEF ShortLabels, IsLabel
<1>5. CASE b - a <= n
  <2>1. b \in a + 1..b /\ b <= a + n /\ 2 * (b - a) >= b - a
    BY <1>3, <1>5
  <2>2. IsPhrase(a + 1, b)
    BY <1>4 DEF IsPhrase
  <2> QED BY <1>1, <2>1, <2>2
<1>6. CASE ~(b - a <= n)
  <2>1. PICK last : last = a + n
    OBVIOUS
  <2>2. last \in a + 1..b /\ last <= a + n /\ 2 * (last - a) >= b - a
    BY <1>3, <1>6, <2>1
  <2>3. last \in 1..Len(input.text)
    BY <1>2, <1>3, <1>4, <2>2, InputFacts
  <2>4. input.text[last] = "letter"
    BY <1>2, <1>4, <1>6, <2>2, <2>3, InputFacts DEF Characters
  <2>5. IsPhrase(a + 1, last)
    BY <1>3, <1>4, <2>2, <2>4 DEF IsPhrase
  <2> QED BY <1>1, <2>2, <2>5
<1> QED BY <1>5, <1>6

\* A passage that holds it covers the label.
LEMMA LabelIsCovered ==
  ASSUME ChunkerInv, ChunkerDone, NEW span \in ShortLabels
  PROVE  \E k \in DOMAIN passages : Covers(Anchor(passages[k]), span)
<1>1. PICK a, b : a = span.from /\ b = span.to
  OBVIOUS
<1>2. /\ a \in Nat /\ b \in Nat /\ a < b /\ b <= Len(input.text)
      /\ span.version = Original /\ span.page = 1 + PagesBefore(a)
  BY <1>1 DEF ShortLabels, Spans, IsLabel
<1>3. WalkInv /\ PassagesInv /\ PhraseLimit \in Nat /\ Len(input.text) \in Nat
  BY PhraseLimitType, InputFacts DEF ChunkerInv
<1>4. PICK last \in a + 1..b : /\ last <= a + PhraseLimit
                               /\ 2 * (last - a) >= b - a
                               /\ IsPhrase(a + 1, last)
  BY <1>1, HalfIsPhrase
<1>5. PICK k \in DOMAIN passages : Holds(passages[k], a + 1, last)
  <2>1. a + 1 \in 1..Len(input.text)
    BY <1>2, <1>3, <1>4
  <2>2. last \in a + 1..Lesser(a + 1 + PhraseLimit - 1, Len(input.text))
    BY <1>2, <1>3, <1>4 DEF Lesser
  <2>3. NothingIsSkipped
    BY PhraseInvFinds
  <2> QED BY <1>4, <2>1, <2>2, <2>3 DEF NothingIsSkipped, IsPhrase
<1>6. PICK passage, from, to : passage = passages[k] /\ from = passage.from /\ to = passage.to
  OBVIOUS
<1>7. /\ from \in Nat /\ to \in Nat /\ from <= a /\ last <= to
      /\ passage.page = 1 + PagesBefore(from)
      /\ \A i \in from + 1..to : input.text[i] # "formfeed"
  <2>1. from \in Nat /\ to \in Nat /\ QuotesText(passage)
    BY <1>3, <1>6, PassageFacts DEF PassagesInv
  <2> QED BY <1>2, <1>5, <1>6, <2>1 DEF QuotesText, Holds
<1>8. passage.page = span.page
  <2>1. \A i \in from + 1..a : input.text[i] # "formfeed"
    BY <1>2, <1>4, <1>7
  <2> QED BY <1>2, <1>7, <2>1, PagesBeforeSame
<1>9. 2 * Overlap(Anchor(passage), span) >= b - a
  <2>1. PICK common : common = (from + 1..to) \cap (a + 1..b)
    OBVIOUS
  <2>2. Overlap(Anchor(passage), span) = Cardinality(common)
    BY <1>1, <1>6, <2>1 DEF Overlap, Anchor, Span
  <2>3. a + 1..last \subseteq common
    BY <1>2, <1>4, <1>7, <2>1
  <2>4. IsFiniteSet(common)
    <3>1. IsFiniteSet(a + 1..b)
      BY <1>2, FS_Interval
    <3> QED BY <2>1, <3>1, FS_Subset
  <2>5. Cardinality(a + 1..last) = last - a
    BY <1>2, <1>4, FS_Interval
  <2>6. Cardinality(common) \in Nat /\ Cardinality(a + 1..last) <= Cardinality(common)
    BY <2>3, <2>4, FS_Subset, FS_CardinalityType
  <2> QED BY <1>2, <1>4, <2>2, <2>5, <2>6
<1> QED BY <1>1, <1>2, <1>6, <1>8, <1>9 DEF Covers, Anchor, Span

\* What the labels are enumerated from covers only short labels.
LEMMA LabelsAreShort ==
  ASSUME ChunkerInv PROVE Labels \in Seq(ShortLabels)
<1>1. WalkInv
  BY DEF ChunkerInv
<1>2. PICK limit \in Nat : limit = LabelLimit /\ limit > 0
  BY <1>1, PhraseLimitType DEF LabelLimit
<1>3. PICK size \in Nat : size = Len(input.text) * LabelLimit
  <2>1. PICK length \in Nat : length = Len(input.text)
    BY <1>1, InputFacts
  <2> QED BY <1>2, <2>1
<1>4. PICK stretches : stretches = [n \in 1..size |-> Stretch(n)]
  OBVIOUS
<1>5. PICK positions : positions = {n \in DOMAIN stretches : IsLabel(stretches[n])}
  OBVIOUS
<1>6. ASSUME NEW n \in 1..size PROVE
        /\ Stretch(n) \in Spans
        /\ Stretch(n).page = 1 + PagesBefore(Stretch(n).from)
        /\ Stretch(n).from < Stretch(n).to
        /\ Stretch(n).to - Stretch(n).from <= LabelLimit
  <2>1. PICK from, rest : from = (n - 1) \div limit /\ rest = (n - 1) % limit
    OBVIOUS
  <2>2. n - 1 \in Nat
    BY <1>3
  <2>3. from \in Nat /\ rest \in Nat /\ rest < limit
    BY <1>2, <2>1, <2>2
  <2>4. Stretch(n) = Span(Original, 1 + PagesBefore(from), from, from + 1 + rest)
    BY <1>2, <2>1 DEF Stretch
  <2>5. PagesBefore(from) \in Nat
    BY <2>3, PagesBeforeType
  <2> QED BY <1>2, <2>3, <2>4, <2>5 DEF Span, Spans
<1>7. stretches \in Seq(Spans) /\ DOMAIN stretches = 1..size
  BY <1>4, <1>6
<1>8. Labels = InOrder(stretches, positions)
  BY <1>3, <1>4, <1>5 DEF Labels
<1>9. Labels \in Seq(Spans) /\ ToSet(Labels) = {stretches[n] : n \in positions}
  BY <1>5, <1>7, <1>8, InOrderIs
<1>10. ASSUME NEW n \in positions PROVE stretches[n] \in ShortLabels
  BY <1>4, <1>5, <1>6, <1>7 DEF ShortLabels
<1>11. \A i \in DOMAIN Labels : Labels[i] \in ShortLabels
  BY <1>9, <1>10 DEF ToSet
<1> QED BY <1>9, <1>11

\* A ranking with all passages finds all short labels.
LEMMA EverythingIsFound ==
  ASSUME ChunkerInv, ChunkerDone, NEW gold \in Seq(ShortLabels), NEW ranked \in Seq(Spans),
         ToSet(Anchors) \subseteq ToSet(ranked)
  PROVE  Cardinality(Found(ranked, gold)) = Len(gold)
<1>1. ASSUME NEW i \in DOMAIN gold
      PROVE  \E candidate \in ToSet(ranked) : Covers(candidate, gold[i])
  <2>1. PICK j \in DOMAIN passages : Covers(Anchor(passages[j]), gold[i])
    BY LabelIsCovered
  <2>2. Anchor(passages[j]) \in ToSet(Anchors)
    BY DEF Anchors, ToSet
  <2> QED BY <2>1, <2>2
<1>2. PICK n \in Nat : n = Len(gold) /\ Found(ranked, gold) = 1..n
  BY <1>1 DEF Found
<1> QED BY <1>2, IntervalSize

\* The core of AbsoluteLabelsCanBeFound for every text, window and overlap: once the
\* chunker is done, a ranking in any order that has all its passages, among
\* whatever else, has recall one on any list of short labels.
THEOREM ShortLabelsAreFound ==
  Spec => [](ChunkerDone =>
    \A gold \in Seq(ShortLabels), ranked \in Seq(Spans), k \in Nat : \A stage :
      ToSet(Anchors) \subseteq ToSet(ranked) /\ Len(ranked) <= k =>
        \A m \in RetrievalMetrics(ranked, gold, {k}, stage, TRUE) :
          m.name = "recall" => m.numerator = m.denominator)
<1>1. ASSUME ChunkerInv, ChunkerDone, NEW gold \in Seq(ShortLabels), NEW ranked \in Seq(Spans),
             NEW k \in Nat, NEW stage, ToSet(Anchors) \subseteq ToSet(ranked), Len(ranked) <= k,
             NEW m \in RetrievalMetrics(ranked, gold, {k}, stage, TRUE), m.name = "recall"
      PROVE  m.numerator = m.denominator
  <2>1. m = Metric("recall", stage, k, Cardinality(Found(Top(ranked, k), gold)), Len(gold))
    BY <1>1 DEF RetrievalMetrics, Metric
  <2>2. Top(ranked, k) = ranked
    BY <1>1 DEF Top
  <2>3. Cardinality(Found(ranked, gold)) = Len(gold)
    BY <1>1, EverythingIsFound
  <2> QED BY <2>1, <2>2, <2>3 DEF Metric
<1>2. ChunkerInv => (ChunkerDone =>
        \A gold \in Seq(ShortLabels), ranked \in Seq(Spans), k \in Nat : \A stage :
          ToSet(Anchors) \subseteq ToSet(ranked) /\ Len(ranked) <= k =>
            \A m \in RetrievalMetrics(ranked, gold, {k}, stage, TRUE) :
              m.name = "recall" => m.numerator = m.denominator)
  BY <1>1
<1> QED BY <1>2, ChunkerAlwaysSound, PTL

\* An empty ranking finds nothing.
LEMMA NothingIsFound ==
  ASSUME NEW ranked, NEW gold, ToSet(ranked) = {}
  PROVE  Cardinality(Found(ranked, gold)) = 0
<1>1. Found(ranked, gold) = {}
  BY DEF Found
<1> QED BY <1>1, FS_EmptySet

\* The passages of the chunker as spans.
LEMMA AnchorsAre ==
  ASSUME ChunkerInv
  PROVE  Anchors \in Seq(Spans) /\ Len(Anchors) = Len(passages) /\ Len(passages) \in Nat
<1>1. PassagesInv
  BY DEF ChunkerInv
<1>2. passages \in Seq(PassageRecord)
  BY <1>1, PassageFacts DEF PassagesInv
<1>3. ASSUME NEW k \in DOMAIN passages PROVE Anchor(passages[k]) \in Spans
  <2>1. passages[k] \in PassageRecord
    BY <1>2
  <2> QED BY <2>1 DEF PassageRecord, Anchor, Span, Spans
<1> QED BY <1>2, <1>3 DEF Anchors

\* The stages of a ranking over all cohorts.
WholeStages == {"lexical", "vector", "fused", "reranked"} \X {0}

\* The rankings the executor captures: of the stages, and of the cohorts.
LEMMA CaseResultIs ==
  ASSUME NEW lexical, NEW vector, NEW fused, NEW reranked, NEW citations,
         DOMAIN lexical \subseteq Nat \ {0}, DOMAIN vector \subseteq Nat \ {0},
         NEW result, result = CaseResult(lexical, vector, fused, reranked, citations)
  PROVE  /\ DOMAIN result.ranked = WholeStages \cup ({"lexical"} \X DOMAIN lexical)
                                               \cup ({"vector"} \X DOMAIN vector)
         /\ \A stage \in DOMAIN result.ranked :
              \/ stage[2] = 0 /\ result.ranked[stage]
                                   \in {Flattened(lexical), Flattened(vector), fused, reranked}
              \/ \E n \in DOMAIN lexical : result.ranked[stage] = lexical[n]
              \/ \E n \in DOMAIN vector : result.ranked[stage] = vector[n]
         /\ result.citations = citations
         /\ result.answered \in BOOLEAN
<1> DEFINE branch == [lexical |-> lexical, vector |-> vector]
           whole  == [lexical |-> Flattened(lexical), vector |-> Flattened(vector),
                      fused |-> fused, reranked |-> reranked]
           stages == (DOMAIN whole) \X {0}
                       \union UNION {{b} \X DOMAIN branch[b] : b \in DOMAIN branch}
<1>1. /\ result.ranked = [s \in stages |-> IF s[2] = 0 THEN whole[s[1]] ELSE branch[s[1]][s[2]]]
      /\ result.citations = citations
      /\ result.answered \in BOOLEAN
  BY DEF CaseResult
<1>2. DOMAIN whole = {"lexical", "vector", "fused", "reranked"}
      /\ whole["lexical"] = Flattened(lexical) /\ whole["vector"] = Flattened(vector)
      /\ whole["fused"] = fused /\ whole["reranked"] = reranked
  OBVIOUS
<1>3. DOMAIN branch = {"lexical", "vector"}
      /\ branch["lexical"] = lexical /\ branch["vector"] = vector
  OBVIOUS
<1> HIDE DEF whole, branch
<1>4. stages = WholeStages \cup ({"lexical"} \X DOMAIN lexical) \cup ({"vector"} \X DOMAIN vector)
  BY <1>2, <1>3 DEF WholeStages
<1> HIDE DEF stages
<1>5. ASSUME NEW s \in stages PROVE
        \/ s[2] = 0 /\ result.ranked[s] \in {Flattened(lexical), Flattened(vector), fused, reranked}
        \/ \E n \in DOMAIN lexical : result.ranked[s] = lexical[n]
        \/ \E n \in DOMAIN vector : result.ranked[s] = vector[n]
  <2>1. result.ranked[s] = IF s[2] = 0 THEN whole[s[1]] ELSE branch[s[1]][s[2]]
    BY <1>1
  <2>2. CASE s \in WholeStages
    <3>1. s[2] = 0 /\ s[1] \in {"lexical", "vector", "fused", "reranked"}
      BY <2>2 DEF WholeStages
    <3> QED BY <1>2, <2>1, <3>1
  <2>3. CASE s \in {"lexical"} \X DOMAIN lexical
    <3>1. s[2] # 0 /\ s[1] = "lexical" /\ s[2] \in DOMAIN lexical
      BY <2>3
    <3> QED BY <1>3, <2>1, <3>1
  <2>4. CASE s \in {"vector"} \X DOMAIN vector
    <3>1. s[2] # 0 /\ s[1] = "vector" /\ s[2] \in DOMAIN vector
      BY <2>4
    <3> QED BY <1>3, <2>1, <3>1
  <2> QED BY <1>4, <2>2, <2>3, <2>4
<1>6. DOMAIN result.ranked = stages
  BY <1>1
<1> QED BY <1>1, <1>4, <1>5, <1>6

LEMMA Reversed ==
  ASSUME NEW S, NEW s \in Seq(S)
  PROVE  /\ Reverse(s) \in Seq(S)
         /\ ToSet(Reverse(s)) = ToSet(s)
         /\ Len(Reverse(s)) = Len(s)
<1>1. PICK n \in Nat : n = Len(s) /\ DOMAIN s = 1..n
  OBVIOUS
<1>2. Reverse(s) = [i \in 1..n |-> s[(n - i) + 1]]
  BY <1>1 DEF Reverse
<1>3. \A i \in 1..n : (n - i) + 1 \in 1..n /\ (n - ((n - i) + 1)) + 1 = i
  OBVIOUS
<1>4. Reverse(s) \in Seq(S) /\ Len(Reverse(s)) = n /\ DOMAIN Reverse(s) = 1..n
  BY <1>1, <1>2, <1>3
<1>5. \A i \in 1..n : Reverse(s)[i] = s[(n - i) + 1] /\ s[i] = Reverse(s)[(n - i) + 1]
  BY <1>2, <1>3
<1>6. ToSet(Reverse(s)) \subseteq ToSet(s)
  BY <1>1, <1>3, <1>4, <1>5 DEF ToSet
<1>7. ToSet(s) \subseteq ToSet(Reverse(s))
  BY <1>1, <1>3, <1>4, <1>5 DEF ToSet
<1> QED BY <1>1, <1>4, <1>6, <1>7

\* The rankings of what retrieves everything: each has all the passages once.
Complete(ranked) ==
  /\ ranked \in Seq(Spans)
  /\ ToSet(ranked) = ToSet(Anchors)
  /\ Len(ranked) <= Len(passages)

LEMMA EverythingIs ==
  ASSUME ChunkerInv
  PROVE  /\ ResultOf(Everything, Spans)
         /\ WholeStages \subseteq DOMAIN Everything.ranked
         /\ \A stage \in DOMAIN Everything.ranked :
              /\ Complete(Everything.ranked[stage])
              /\ stage[2] = 0 => stage \in WholeStages
         /\ Everything.citations \in Seq(Spans)
         /\ ToSet(Anchors) \subseteq ToSet(Everything.citations)
<1>1. PICK anchors \in Seq(Spans) : anchors = Anchors /\ Complete(anchors)
  BY AnchorsAre DEF Complete
<1>2. PICK reversed \in Seq(Spans) : reversed = Reverse(anchors) /\ Complete(reversed)
  BY <1>1, Reversed, AnchorsAre DEF Complete
<1>3. Complete(Distinct(anchors)) /\ Complete(Distinct(reversed))
  <2>1. Len(passages) \in Nat /\ Len(anchors) \in Nat /\ Len(reversed) \in Nat
    BY AnchorsAre
  <2>2. Len(Distinct(anchors)) \in Nat /\ Len(Distinct(reversed)) \in Nat
    BY DistinctIs
  <2> QED BY <1>1, <1>2, <2>1, <2>2, DistinctIs DEF Complete
<1>4. Flattened(<<anchors>>) = Distinct(anchors) /\ Flattened(<<reversed>>) = Distinct(reversed)
  BY FlattenOne DEF Flattened
<1>5. PICK lexical, vector, twice :
        lexical = <<anchors>> /\ vector = <<reversed>> /\ twice = anchors \o anchors
  OBVIOUS
<1>6. /\ DOMAIN lexical = {1} /\ DOMAIN vector = {1}
      /\ lexical[1] = anchors /\ vector[1] = reversed
  BY <1>5
<1>7. PICK result : result = Everything
  OBVIOUS
<1>8. result = CaseResult(lexical, vector, anchors, reversed, twice)
  BY <1>1, <1>2, <1>5, <1>7 DEF Everything
<1>9. DOMAIN lexical \subseteq Nat \ {0} /\ DOMAIN vector \subseteq Nat \ {0}
  BY <1>6
<1>10. /\ DOMAIN result.ranked = WholeStages \cup ({"lexical"} \X {1}) \cup ({"vector"} \X {1})
       /\ result.citations = twice
       /\ result.answered \in BOOLEAN
  BY <1>6, <1>8, <1>9, CaseResultIs
<1>11. ASSUME NEW stage \in DOMAIN result.ranked PROVE Complete(result.ranked[stage])
  <2>1. \/ result.ranked[stage] \in {Flattened(lexical), Flattened(vector), anchors, reversed}
        \/ \E n \in DOMAIN lexical : result.ranked[stage] = lexical[n]
        \/ \E n \in DOMAIN vector : result.ranked[stage] = vector[n]
    BY <1>8, <1>9, CaseResultIs
  <2>2. result.ranked[stage] \in {Distinct(anchors), Distinct(reversed), anchors, reversed}
    BY <1>4, <1>5, <1>6, <2>1
  <2> QED BY <1>1, <1>2, <1>3, <2>2
<1>12. \A stage \in DOMAIN result.ranked : stage \in ScoredStages
  BY <1>10 DEF WholeStages, ScoredStages
<1>13. result.citations \in Seq(Spans) /\ ToSet(anchors) \subseteq ToSet(result.citations)
  <2>1. PICK n \in Nat : n = Len(anchors) /\ DOMAIN anchors = 1..n
    OBVIOUS
  <2>2. twice \in Seq(Spans) /\ \A i \in 1..n : i \in DOMAIN twice /\ twice[i] = anchors[i]
    BY <1>5, <2>1
  <2> QED BY <1>10, <2>1, <2>2 DEF ToSet
<1>14. \A stage \in DOMAIN result.ranked : stage[2] = 0 => stage \in WholeStages
  BY <1>10
<1> QED BY <1>1, <1>7, <1>10, <1>11, <1>12, <1>13, <1>14 DEF ResultOf, Complete

\* A refused case has empty rankings and cites nothing.
LEMMA NothingIs ==
  /\ ResultOf(Nothing, Spans)
  /\ DOMAIN Nothing.ranked = WholeStages
  /\ \A stage \in WholeStages : ToSet(Nothing.ranked[stage]) = {} /\ Len(Nothing.ranked[stage]) = 0
  /\ ToSet(Distinct(Nothing.citations)) = {} /\ Len(Distinct(Nothing.citations)) = 0
<1>1. PICK none \in Seq(Spans) : none = <<>> /\ ToSet(none) = {} /\ Len(none) = 0
  <2>1. <<>> \in Seq(Spans) /\ Len(<<>>) = 0 /\ ToSet(<<>>) = {}
    BY DEF ToSet
  <2> QED BY <2>1
<1>2. /\ Distinct(none) \in Seq(Spans)
      /\ ToSet(Distinct(none)) = {} /\ Len(Distinct(none)) = 0
  <2>1. Distinct(none) \in Seq(Spans) /\ ToSet(Distinct(none)) = ToSet(none)
        /\ Len(Distinct(none)) <= Len(none)
    BY DistinctIs
  <2> QED BY <1>1, <2>1
<1>3. Flattened(none) = Distinct(none)
  BY <1>1 DEF Flattened, FlattenSeq
<1>4. PICK result : result = Nothing
  OBVIOUS
<1>5. result = CaseResult(none, none, none, none, none)
  BY <1>1, <1>4 DEF Nothing
<1>6. DOMAIN none = {} /\ DOMAIN none \subseteq Nat \ {0}
  BY <1>1
<1>7. /\ DOMAIN result.ranked = WholeStages
      /\ \A stage \in DOMAIN result.ranked : result.ranked[stage] \in {Distinct(none), none}
      /\ result.citations = none
      /\ result.answered \in BOOLEAN
  BY <1>3, <1>5, <1>6, CaseResultIs
<1>8. \A stage \in WholeStages : stage \in ScoredStages
  BY DEF WholeStages, ScoredStages
<1> QED BY <1>1, <1>2, <1>4, <1>7, <1>8 DEF ResultOf

\* The labels, scored over a ranking with all passages and over none.
LEMMA BothCases ==
  ASSUME ChunkerInv, ChunkerDone, Labels # <<>>,
         NEW ks, ks = {1, Len(passages) + 1},
         NEW found, found = ScoreCase(LabelledCase, Everything, ks),
         NEW missed, missed = ScoreCase(LabelledCase, Nothing, ks)
  PROVE  /\ found \in SUBSET Metrics /\ OnePerKey(found)
         /\ missed \in SUBSET Metrics /\ OnePerKey(missed)
         /\ \A m \in found :
              \/ m.name = "citation_recall"
              \/ m.name = "recall" /\ m.k = Len(passages) + 1
              => m.numerator = Len(Labels) /\ m.denominator = Len(Labels)
         /\ \A m \in missed :
              m.name \in {"citation_recall", "recall"} =>
                /\ m.numerator = 0 /\ m.denominator = Len(Labels)
                /\ \E a \in found : Key(a) = Key(m)
         /\ \A m \in found :
              \/ m.name = "citation_recall"
              \/ m.name = "recall" /\ m.stage[2] = 0
              => \E b \in missed : Key(b) = Key(m)
         /\ \A m \in missed : m.name # "citation_precision"
<1>1. /\ LabelledCase.gold = Labels /\ LabelledCase.complete = TRUE
      /\ LabelledCase.answerable = TRUE
  BY DEF LabelledCase
<1>2. Labels \in Seq(ShortLabels) /\ Labels \in Seq(Spans)
  <2>1. \A label \in ShortLabels : label \in Spans
    BY DEF ShortLabels
  <2> QED BY <2>1, LabelsAreShort
<1>3. CaseOf(LabelledCase, Spans)
  BY <1>1, <1>2 DEF CaseOf
<1>4. ks \in SUBSET (Nat \ {0}) /\ Len(passages) + 1 \in ks /\ Len(passages) \in Nat
  BY AnchorsAre
<1>5. PICK everything, nothing : everything = Everything /\ nothing = Nothing
  OBVIOUS
<1>6. /\ found \in SUBSET Metrics /\ OnePerKey(found)
      /\ missed \in SUBSET Metrics /\ OnePerKey(missed)
  BY <1>3, <1>4, MetricsAreRatios, EverythingIs, NothingIs
<1>7. ASSUME NEW m \in found, m.name = "recall"
      PROVE  /\ m.stage \in DOMAIN everything.ranked /\ m.k \in ks
             /\ m = Recall(everything.ranked[m.stage], Labels, m.stage, m.k)
  BY <1>1, <1>3, <1>4, <1>5, <1>7, CaseMetricIs, EverythingIs
<1>8. ASSUME NEW m \in found, m.name = "citation_recall"
      PROVE  m = CitationRecall(Distinct(everything.citations), Labels)
  BY <1>1, <1>3, <1>4, <1>5, <1>8, CaseMetricIs, EverythingIs
<1>9. ASSUME NEW m \in missed, m.name = "recall"
      PROVE  /\ m.stage \in DOMAIN nothing.ranked /\ m.k \in ks
             /\ m = Recall(nothing.ranked[m.stage], Labels, m.stage, m.k)
  BY <1>1, <1>3, <1>4, <1>5, <1>9, CaseMetricIs, NothingIs
<1>10. ASSUME NEW m \in missed, m.name = "citation_recall"
       PROVE  m = CitationRecall(Distinct(nothing.citations), Labels)
  BY <1>1, <1>3, <1>4, <1>5, <1>10, CaseMetricIs, NothingIs
<1>11. ASSUME NEW m \in missed PROVE m.name # "citation_precision"
  BY <1>1, <1>3, <1>4, CaseMetricIs, NothingIs
<1>12. /\ \A stage \in DOMAIN everything.ranked, k \in ks :
            Recall(everything.ranked[stage], Labels, stage, k) \in found
       /\ CitationRecall(Distinct(everything.citations), Labels) \in found
  BY <1>1, <1>5, RecallIsMeasured
<1>13. /\ \A stage \in DOMAIN nothing.ranked, k \in ks :
            Recall(nothing.ranked[stage], Labels, stage, k) \in missed
       /\ CitationRecall(Distinct(nothing.citations), Labels) \in missed
  BY <1>1, <1>5, RecallIsMeasured
<1>14. /\ \A stage \in DOMAIN everything.ranked :
            /\ Complete(everything.ranked[stage])
            /\ stage[2] = 0 => stage \in WholeStages
       /\ everything.citations \in Seq(Spans)
       /\ ToSet(Anchors) \subseteq ToSet(everything.citations)
       /\ WholeStages \subseteq DOMAIN everything.ranked
  BY <1>5, EverythingIs
<1>15. /\ DOMAIN nothing.ranked = WholeStages
       /\ \A stage \in WholeStages :
            ToSet(nothing.ranked[stage]) = {} /\ Len(nothing.ranked[stage]) = 0
       /\ ToSet(Distinct(nothing.citations)) = {}
  BY <1>5, NothingIs
<1>16. ASSUME NEW ranked, NEW stage, NEW k
       PROVE  /\ Recall(ranked, Labels, stage, k).numerator = Cardinality(Found(Top(ranked, k), Labels))
              /\ Recall(ranked, Labels, stage, k).denominator = Len(Labels)
              /\ Key(Recall(ranked, Labels, stage, k)) = <<"recall", stage, k>>
  BY DEF Recall, Metric, Key
<1>17. ASSUME NEW cited
       PROVE  /\ CitationRecall(cited, Labels).numerator = Cardinality(Found(cited, Labels))
              /\ CitationRecall(cited, Labels).denominator = Len(Labels)
              /\ Key(CitationRecall(cited, Labels)) = <<"citation_recall", <<"citation", 0>>, 0>>
  BY DEF CitationRecall, Metric, Key
<1>18. ASSUME NEW m \in found, m.name = "recall", m.k = Len(passages) + 1
       PROVE  m.numerator = Len(Labels) /\ m.denominator = Len(Labels)
  <2>1. PICK ranked \in Seq(Spans) : ranked = everything.ranked[m.stage] /\ Complete(ranked)
    BY <1>7, <1>14, <1>18 DEF Complete
  <2>2. Top(ranked, m.k) = ranked
    BY <1>4, <1>18, <2>1 DEF Top, Complete
  <2>3. Cardinality(Found(ranked, Labels)) = Len(Labels)
    BY <1>2, <2>1, EverythingIsFound DEF Complete
  <2>4. m = Recall(ranked, Labels, m.stage, m.k)
    BY <1>7, <1>18, <2>1
  <2>5. /\ m.numerator = Cardinality(Found(Top(ranked, m.k), Labels))
        /\ m.denominator = Len(Labels)
    BY <1>16, <2>4
  <2> QED BY <2>2, <2>3, <2>5
<1>19. ASSUME NEW m \in found, m.name = "citation_recall"
       PROVE  m.numerator = Len(Labels) /\ m.denominator = Len(Labels)
  <2>1. PICK cited \in Seq(Spans) :
          cited = Distinct(everything.citations) /\ ToSet(Anchors) \subseteq ToSet(cited)
    BY <1>14, DistinctIs
  <2>2. Cardinality(Found(cited, Labels)) = Len(Labels)
    BY <1>2, <2>1, EverythingIsFound
  <2> QED BY <1>8, <1>17, <1>19, <2>1, <2>2
<1>20. ASSUME NEW m \in missed, m.name = "recall"
       PROVE  /\ m.numerator = 0 /\ m.denominator = Len(Labels)
              /\ \E a \in found : Key(a) = Key(m)
  <2>1. m.stage \in WholeStages /\ m.k \in ks
        /\ m = Recall(nothing.ranked[m.stage], Labels, m.stage, m.k)
    BY <1>9, <1>15, <1>20
  <2>2. ToSet(Top(nothing.ranked[m.stage], m.k)) = {}
    BY <1>15, <2>1 DEF Top, ToSet
  <2>3. Cardinality(Found(Top(nothing.ranked[m.stage], m.k), Labels)) = 0
    BY <2>2, NothingIsFound
  <2>4. Recall(everything.ranked[m.stage], Labels, m.stage, m.k) \in found
    BY <1>12, <1>14, <2>1
  <2> QED BY <1>16, <2>1, <2>3, <2>4
<1>21. ASSUME NEW m \in missed, m.name = "citation_recall"
       PROVE  /\ m.numerator = 0 /\ m.denominator = Len(Labels)
              /\ \E a \in found : Key(a) = Key(m)
  <2>1. Cardinality(Found(Distinct(nothing.citations), Labels)) = 0
    BY <1>15, NothingIsFound
  <2> QED BY <1>10, <1>12, <1>17, <1>21, <2>1
<1>22. ASSUME NEW m \in found, m.name = "recall", m.stage[2] = 0
       PROVE  \E b \in missed : Key(b) = Key(m)
  <2>1. m.stage \in DOMAIN everything.ranked /\ m.k \in ks
        /\ m = Recall(everything.ranked[m.stage], Labels, m.stage, m.k)
    BY <1>7, <1>22
  <2>2. m.stage \in WholeStages
    BY <1>14, <1>22, <2>1
  <2>3. Recall(nothing.ranked[m.stage], Labels, m.stage, m.k) \in missed
    BY <1>13, <1>15, <2>1, <2>2
  <2>4. Key(m) = <<"recall", m.stage, m.k>>
    BY <1>16, <2>1
  <2> QED BY <1>16, <2>3, <2>4
<1>23. ASSUME NEW m \in found, m.name = "citation_recall"
       PROVE  \E b \in missed : Key(b) = Key(m)
  BY <1>8, <1>13, <1>17, <1>23
<1>24. \A m \in missed : m.name \in {"citation_recall", "recall"} =>
         /\ m.numerator = 0 /\ m.denominator = Len(Labels)
         /\ \E a \in found : Key(a) = Key(m)
  BY <1>20, <1>21
<1> QED BY <1>6, <1>11, <1>18, <1>19, <1>22, <1>23, <1>24

\* Whatever the text, its labels and the window and overlap it was cut with, a
\* ranking with all passages has recall one on all short labels, no metric
\* exceeds one, and a refused case halves the recall of two, not their precision.
THEOREM LabelsAreFound == Spec => []AbsoluteLabelsCanBeFound
<1>1. ASSUME ChunkerInv, ChunkerDone, Labels # <<>> PROVE AbsoluteLabelsCanBeFound
  <2> DEFINE Whole(m) == \/ m.name = "citation_recall"
                         \/ m.name = "recall" /\ m.k = Len(passages) + 1
  <2>1. PICK ks : ks = {1, Len(passages) + 1}
    OBVIOUS
  <2>2. PICK found, missed : /\ found = ScoreCase(LabelledCase, Everything, ks)
                             /\ missed = ScoreCase(LabelledCase, Nothing, ks)
    OBVIOUS
  <2>3. PICK total : total = AggregateMetrics(<<found, missed>>)
    OBVIOUS
  <2>4. PICK one \in SUBSET Metrics, two \in SUBSET Metrics :
          one = found /\ two = missed /\ OnePerKey(one) /\ OnePerKey(two)
    BY <1>1, <2>1, <2>2, BothCases
  <2>5. ASSUME NEW m \in total
        PROVE  \/ \E a \in one, b \in two :
                    /\ Key(a) = Key(m) /\ Key(b) = Key(m)
                    /\ m.numerator = a.numerator + b.numerator
                    /\ m.denominator = a.denominator + b.denominator
               \/ m \in one /\ \A b \in two : Key(b) # Key(m)
               \/ m \in two /\ \A a \in one : Key(a) # Key(m)
    <3>1. m \in AggregateMetrics(<<one, two>>)
      BY <2>3, <2>4, <2>5
    <3> QED BY <2>4, <3>1, AggregateOfTwo
  <2>6. \A m \in Metrics : /\ m.numerator \in Nat /\ m.denominator \in Nat
                           /\ m.denominator > 0 /\ m.numerator <= m.denominator
    BY DEF Metrics
  <2>7. \A a, m : Key(a) = Key(m) => a.name = m.name /\ a.stage = m.stage /\ a.k = m.k
    BY DEF Key
  <2>8. ASSUME NEW m \in total PROVE m.denominator > 0 /\ m.numerator <= m.denominator
    <3>1. CASE \E a \in one, b \in two : /\ m.numerator = a.numerator + b.numerator
                                         /\ m.denominator = a.denominator + b.denominator
      BY <2>6, <3>1
    <3>2. CASE m \in one \cup two
      BY <2>6, <3>2
    <3> QED BY <2>5, <3>1, <3>2
  <2>9. \A m \in one :
          \/ m.name = "citation_recall"
          \/ m.name = "recall" /\ m.k = Len(passages) + 1
          => m.numerator = Len(Labels) /\ m.denominator = Len(Labels)
    BY <1>1, <2>1, <2>2, <2>4, BothCases
  <2>10. \A m \in two : m.name \in {"citation_recall", "recall"} =>
          /\ m.numerator = 0 /\ m.denominator = Len(Labels)
          /\ \E a \in one : Key(a) = Key(m)
    BY <1>1, <2>1, <2>2, <2>4, BothCases
  <2>11. \A m \in one :
          \/ m.name = "citation_recall"
          \/ m.name = "recall" /\ m.stage[2] = 0
          => \E b \in two : Key(b) = Key(m)
    BY <1>1, <2>1, <2>2, <2>4, BothCases
  <2>12. Len(Labels) \in Nat
    BY <1>1, LabelsAreShort
  <2>13. ASSUME NEW m \in total, m.stage[2] = 0,
                \/ m.name = "citation_recall"
                \/ m.name = "recall" /\ m.k = Len(passages) + 1
         PROVE  2 * m.numerator = m.denominator
    <3>1. PICK a \in one, b \in two :
            /\ Key(a) = Key(m) /\ Key(b) = Key(m)
            /\ m.numerator = a.numerator + b.numerator
            /\ m.denominator = a.denominator + b.denominator
      BY <2>5, <2>10, <2>11, <2>13
    <3>2. /\ a.name = m.name /\ a.k = m.k /\ b.name = m.name
      BY <2>7, <3>1
    <3>3. a.numerator = Len(Labels) /\ a.denominator = Len(Labels)
      BY <2>9, <2>13, <3>2
    <3>4. b.numerator = 0 /\ b.denominator = Len(Labels)
      BY <2>10, <2>13, <3>2
    <3> QED BY <2>12, <3>1, <3>3, <3>4
  <2>14. ASSUME NEW m \in total, m.name = "citation_precision" PROVE m \in found
    <3>1. \A b \in two : b.name # "citation_precision"
      BY <1>1, <2>1, <2>2, <2>4, BothCases
    <3> QED BY <2>4, <2>5, <2>7, <2>14, <3>1
  <2>15. /\ \A m \in total : m.denominator > 0 /\ m.numerator <= m.denominator
         /\ \A m \in found : Whole(m) => m.numerator = m.denominator
         /\ \A m \in total : Whole(m) /\ m.stage[2] = 0 => 2 * m.numerator = m.denominator
         /\ \A m \in total : m.name = "citation_precision" => m \in found
    BY <2>4, <2>8, <2>9, <2>13, <2>14
  <2> QED BY <2>1, <2>2, <2>3, <2>15, Zenon DEF AbsoluteLabelsCanBeFound
<1>2. ChunkerInv => AbsoluteLabelsCanBeFound
  BY <1>1 DEF AbsoluteLabelsCanBeFound
<1> QED BY <1>2, ChunkerAlwaysSound, PTL

-----------------------------------------------------------------------------
(* The chunker is deterministic, and comes to an end. *)

LEMMA FirstAndLast ==
  ASSUME NEW n \in Nat, NEW positions \in SUBSET (1..n), positions # {}
  PROVE  /\ \E i \in positions : \A j \in positions : i <= j
         /\ \E i \in positions : \A j \in positions : j <= i
<1>1. positions \in SUBSET Nat /\ IsFiniteSet(positions)
  <2>1. IsFiniteSet(1..n)
    BY IntervalSize
  <2>2. IsFiniteSet(positions)
    BY <2>1, FS_Subset
  <2> QED BY <2>2
<1>2. PICK count \in Nat : count = Cardinality(positions) /\ count > 0
  <2>1. Cardinality(positions) \in Nat /\ Cardinality(positions) # 0
    BY <1>1, FS_EmptySet, FS_CardinalityType
  <2> QED BY <2>1
<1>3. PICK first \in positions : Rank(positions, first) = 0
  <2>1. 1 \in 1..Cardinality(positions)
    BY <1>2
  <2> QED BY <1>1, <2>1, EveryRankIsTaken
<1>4. PICK last \in positions : Rank(positions, last) = count - 1
  <2>1. count \in 1..Cardinality(positions)
    BY <1>2
  <2> QED BY <1>1, <2>1, EveryRankIsTaken
<1>5. ASSUME NEW j \in positions PROVE first <= j /\ j <= last
  <2>1. j \in Nat /\ first \in Nat /\ last \in Nat
    BY <1>1
  <2>2. Rank(positions, j) \in Nat /\ Rank(positions, j) < count
    BY <1>1, <1>2, RankType
  <2>3. ~(j < first)
    <3>1. j < first => Rank(positions, j) < Rank(positions, first)
      BY <1>1, RanksAreDistinct
    <3> QED BY <1>3, <2>2, <3>1
  <2>4. ~(last < j)
    <3>1. last < j => Rank(positions, last) < Rank(positions, j)
      BY <1>1, RanksAreDistinct
    <3> QED BY <1>2, <1>4, <2>2, <3>1
  <2> QED BY <2>1, <2>3, <2>4
<1> QED BY <1>5

\* Whitespace at the ends of a string: how much leads, and where the rest ends.
LEMMA StrippingIsDetermined ==
  ASSUME NEW s \in Seq(Nat)
  PROVE  /\ \E leading \in 0..Len(s) : \A i : IsLeading(s, i) <=> i = leading
         /\ \A leading \in 0..Len(s) :
              \E last \in 0..Len(s) : \A i : IsStrippedEnd(s, leading, i) <=> i = last
<1>1. PICK n \in Nat : n = Len(s) /\ DOMAIN s = 1..n
  OBVIOUS
<1>2. \E leading \in 0..n : \A i : IsLeading(s, i) <=> i = leading
  <2>1. PICK printed : printed = {i \in 1..n : ~IsSpace(s[i])}
    OBVIOUS
  <2>2. CASE printed = {}
    <3>1. \A i : IsLeading(s, i) <=> i = n
      <4>1. \A i \in 1..n : IsSpace(s[i])
        BY <2>1, <2>2
      <4> QED BY <1>1, <4>1 DEF IsLeading
    <3> QED BY <3>1
  <2>3. CASE printed # {}
    <3>0. printed \in SUBSET (1..n)
      BY <2>1
    <3>1. PICK first \in printed : \A j \in printed : first <= j
      BY <2>3, <3>0, FirstAndLast
    <3>2. first \in 1..n /\ ~IsSpace(s[first]) /\ \A i \in 1..first - 1 : IsSpace(s[i])
      BY <2>1, <3>1
    <3>3. IsLeading(s, first - 1)
      BY <1>1, <3>2 DEF IsLeading
    <3>4. ASSUME NEW i, IsLeading(s, i) PROVE i = first - 1
      <4>1. i \in 0..n /\ (\A j \in 1..i : IsSpace(s[j])) /\ (i < n => ~IsSpace(s[i + 1]))
        BY <1>1, <3>4 DEF IsLeading
      <4>2. ~(i >= first)
        BY <3>2, <4>1
      <4>3. ~(i < first - 1)
        BY <3>2, <4>1
      <4> QED BY <3>2, <4>1, <4>2, <4>3
    <3> QED BY <3>2, <3>3, <3>4
  <2> QED BY <2>2, <2>3
<1>3. ASSUME NEW leading \in 0..n
      PROVE  \E last \in 0..n : \A i : IsStrippedEnd(s, leading, i) <=> i = last
  <2>1. PICK printed : printed = {i \in leading + 1..n : ~IsSpace(s[i])}
    OBVIOUS
  <2>2. CASE printed = {}
    <3>1. \A i \in leading + 1..n : IsSpace(s[i])
      BY <2>1, <2>2
    <3>2. IsStrippedEnd(s, leading, leading)
      BY <1>1, <3>1 DEF IsStrippedEnd
    <3>3. ASSUME NEW i, IsStrippedEnd(s, leading, i) PROVE i = leading
      <4>1. i \in leading..n /\ (leading < i => ~IsSpace(s[i]))
        BY <1>1, <3>3 DEF IsStrippedEnd
      <4> QED BY <3>1, <4>1
    <3> QED BY <3>2, <3>3
  <2>3. CASE printed # {}
    <3>0. printed \in SUBSET (1..n)
      BY <2>1
    <3>1. PICK last \in printed : \A j \in printed : j <= last
      BY <2>3, <3>0, FirstAndLast
    <3>2. last \in leading + 1..n /\ ~IsSpace(s[last]) /\ \A i \in last + 1..n : IsSpace(s[i])
      BY <2>1, <3>1
    <3>3. IsStrippedEnd(s, leading, last)
      BY <1>1, <3>2 DEF IsStrippedEnd
    <3>4. ASSUME NEW i, IsStrippedEnd(s, leading, i) PROVE i = last
      <4>1. i \in leading..n /\ (\A j \in i + 1..n : IsSpace(s[j]))
            /\ (leading < i => ~IsSpace(s[i]))
        BY <1>1, <3>4 DEF IsStrippedEnd
      <4>2. ~(i < last)
        BY <3>2, <4>1
      <4>3. ~(last < i)
        BY <3>2, <4>1
      <4> QED BY <3>2, <4>1, <4>2, <4>3
    <3> QED BY <3>2, <3>3, <3>4
  <2> QED BY <2>2, <2>3
<1> QED BY <1>1, <1>2, <1>3

\* The last of some positions that lie in a range, if one does.
LEMMA LastIn ==
  ASSUME NEW n \in Nat, NEW low \in Nat, NEW positions
  PROVE  \/ \A i \in low + 1..n : i \notin positions
         \/ \E last \in low + 1..n : last \in positions /\ \A i \in last + 1..n : i \notin positions
<1>1. PICK inside : inside = {i \in low + 1..n : i \in positions}
  OBVIOUS
<1>2. CASE inside # {}
  <2>1. inside \in SUBSET (1..n)
    BY <1>1
  <2>2. PICK last \in inside : \A j \in inside : j <= last
    BY <1>2, <2>1, FirstAndLast
  <2> QED BY <1>1, <2>2
<1> QED BY <1>1, <1>2

\* Where a window ends, and where the next one begins.
LEMMA WindowIsDetermined ==
  ASSUME WalkInv, page # <<>>
  PROVE  /\ \E end \in 1..Len(page) : \A i : IsWindowEnd(i) <=> i = end
         /\ \A end \in 1..Len(page) : IsWindowEnd(end) =>
              \E next \in 1..end : \A i : IsNextStart(end, i) <=> i = next
<1>1. /\ input.maxChars \in Nat /\ input.maxChars > 0 /\ input.overlapChars \in Nat
      /\ start \in Nat /\ Len(page) \in Nat /\ start < Len(page)
  BY InputFacts DEF WalkInv, PageInv
<1>2. PICK limit \in Nat : limit = Lesser(start + input.maxChars, Len(page))
  BY <1>1 DEF Lesser
<1>3. limit <= Len(page) /\ start < limit
  BY <1>1, <1>2 DEF Lesser
<1>4. PICK minimum \in Nat : minimum = start + (limit - start) \div 2
  <2>1. PICK half : half = (limit - start) \div 2
    OBVIOUS
  <2>2. half \in Nat
    BY <1>1, <1>3, <2>1
  <2> QED BY <1>1, <2>1, <2>2
<1>5. minimum < limit
  <2>1. PICK size \in Nat : size = limit - start /\ size > 0
    BY <1>1, <1>3
  <2>2. size \div 2 < size
    BY <2>1
  <2> QED BY <1>1, <1>4, <2>1, <2>2
<1>6. PICK spaces : spaces = {i \in 1..Len(page) : IsSpace(page[i])}
  OBVIOUS
<1>7. \E end \in 1..Len(page) : \A i : IsWindowEnd(i) <=> i = end
  <2>1. CASE limit < Len(page)
    <3>1. \A i : IsWindowEnd(i) <=> IsPreferredBreak(limit, i)
      BY <1>2, <2>1, Zenon DEF IsWindowEnd
    <3>2. \A i : IsPreferredBreak(limit, i) <=>
                 \/ /\ i \in minimum + 1..limit
                    /\ IsSpace(page[i])
                    /\ \A j \in i + 1..limit : ~IsSpace(page[j])
                 \/ /\ i = limit
                    /\ \A j \in minimum + 1..limit : ~IsSpace(page[j])
      BY <1>4, Zenon DEF IsPreferredBreak
    <3>3. \A i \in minimum + 1..limit : IsSpace(page[i]) <=> i \in spaces
      BY <1>1, <1>3, <1>6
    <3>4. CASE \A j \in minimum + 1..limit : j \notin spaces
      <4>1. \A i : IsPreferredBreak(limit, i) <=> i = limit
        BY <3>2, <3>3, <3>4
      <4> QED BY <1>1, <1>3, <3>1, <4>1
    <3>5. CASE \E last \in minimum + 1..limit :
                 last \in spaces /\ \A i \in last + 1..limit : i \notin spaces
      <4>1. PICK last \in minimum + 1..limit :
              last \in spaces /\ \A i \in last + 1..limit : i \notin spaces
        BY <3>5
      <4>2. IsPreferredBreak(limit, last)
        BY <3>2, <3>3, <4>1
      <4>3. ASSUME NEW i, IsPreferredBreak(limit, i) PROVE i = last
        <5>1. /\ i \in minimum + 1..limit /\ IsSpace(page[i])
              /\ \A j \in i + 1..limit : ~IsSpace(page[j])
          BY <3>2, <3>3, <4>1, <4>3
        <5>2. ~(i < last)
          BY <3>3, <4>1, <5>1
        <5>3. ~(last < i)
          BY <3>3, <4>1, <5>1
        <5> QED BY <4>1, <5>1, <5>2, <5>3
      <4>4. last \in 1..Len(page)
        BY <1>1, <1>3, <4>1
      <4> QED BY <3>1, <4>2, <4>3, <4>4
    <3> QED BY <3>4, <3>5, LastIn
  <2>2. CASE ~(limit < Len(page))
    <3>1. \A i : IsWindowEnd(i) <=> i = limit
      BY <1>2, <2>2, Zenon DEF IsWindowEnd
    <3> QED BY <1>1, <1>3, <3>1
  <2> QED BY <2>1, <2>2
<1>8. ASSUME NEW end \in 1..Len(page), IsWindowEnd(end)
      PROVE  \E next \in 1..end : \A i : IsNextStart(end, i) <=> i = next
  <2>1. start < end
    BY <1>8, WindowEnds
  <2>2. PICK candidate \in Nat : /\ candidate = Greater(end - input.overlapChars, start + 1)
                                 /\ start + 1 <= candidate /\ candidate <= end
    BY <1>1, <2>1 DEF Greater
  <2>3. \A i : IsNextStart(end, i) <=>
                 /\ i \in start + 1..candidate
                 /\ i = start + 1 \/ IsSpace(page[i])
                 /\ \A j \in i + 1..candidate : ~IsSpace(page[j])
    BY <2>2, Zenon DEF IsNextStart
  <2>4. \A i \in start + 1..candidate : IsSpace(page[i]) <=> i \in spaces
    BY <1>1, <1>6, <2>2
  <2>5. PICK next \in start + 1..candidate :
          /\ next = start + 1 \/ next \in spaces
          /\ \A i \in next + 1..candidate : i \notin spaces
    <3>1. start + 1 \in Nat
      BY <1>1
    <3>2. CASE \A i \in start + 1 + 1..candidate : i \notin spaces
      BY <1>1, <2>2, <3>2
    <3>3. CASE \E last \in start + 1 + 1..candidate :
                 last \in spaces /\ \A i \in last + 1..candidate : i \notin spaces
      BY <1>1, <2>2, <3>3
    <3> QED BY <3>1, <3>2, <3>3, LastIn
  <2>6. IsNextStart(end, next)
    BY <1>1, <2>3, <2>4, <2>5
  <2>7. ASSUME NEW i, IsNextStart(end, i) PROVE i = next
    <3>1. /\ i \in start + 1..candidate
          /\ i = start + 1 \/ i \in spaces
          /\ \A j \in i + 1..candidate : j \notin spaces
      BY <1>1, <2>3, <2>4, <2>7
    <3>2. ~(i < next)
      BY <1>1, <2>5, <3>1
    <3>3. ~(next < i)
      BY <1>1, <2>5, <3>1
    <3> QED BY <1>1, <2>5, <3>1, <3>2, <3>3
  <2> QED BY <1>1, <2>2, <2>5, <2>6, <2>7
<1> QED BY <1>7, <1>8

\* Where the next page ends, as TakePage has it.
IsPageEnd(finish) ==
  /\ finish \in cursor..Len(input.text)
  /\ \A i \in cursor + 1..finish : input.text[i] # "formfeed"
  /\ finish < Len(input.text) => input.text[finish + 1] = "formfeed"

LEMMA PageEndIsDetermined ==
  ASSUME WalkInv, cursor <= Len(input.text)
  PROVE  \E finish \in cursor..Len(input.text) : \A i : IsPageEnd(i) <=> i = finish
<1>1. PICK n \in Nat : n = Len(input.text)
  BY InputFacts
<1>2. cursor \in Nat /\ cursor <= n
  BY <1>1 DEF WalkInv
<1>3. PICK feeds : feeds = {i \in cursor + 1..n : input.text[i] = "formfeed"}
  OBVIOUS
<1>4. CASE feeds = {}
  <2>1. \A i \in cursor + 1..n : input.text[i] # "formfeed"
    BY <1>3, <1>4
  <2>2. IsPageEnd(n)
    BY <1>1, <1>2, <2>1 DEF IsPageEnd
  <2>3. ASSUME NEW i, IsPageEnd(i) PROVE i = n
    <3>1. i \in cursor..n /\ (i < n => input.text[i + 1] = "formfeed")
      BY <1>1, <2>3 DEF IsPageEnd
    <3> QED BY <1>2, <2>1, <3>1
  <2> QED BY <1>1, <1>2, <2>2, <2>3
<1>5. CASE feeds # {}
  <2>1. feeds \in SUBSET (1..n)
    BY <1>2, <1>3
  <2>2. PICK first \in feeds : \A j \in feeds : first <= j
    BY <1>5, <2>1, FirstAndLast
  <2>3. /\ first \in cursor + 1..n /\ input.text[first] = "formfeed"
        /\ \A i \in cursor + 1..first - 1 : input.text[i] # "formfeed"
    BY <1>2, <1>3, <2>2
  <2>4. IsPageEnd(first - 1)
    BY <1>1, <1>2, <2>3 DEF IsPageEnd
  <2>5. ASSUME NEW i, IsPageEnd(i) PROVE i = first - 1
    <3>1. /\ i \in cursor..n /\ (i < n => input.text[i + 1] = "formfeed")
          /\ \A j \in cursor + 1..i : input.text[j] # "formfeed"
      BY <1>1, <2>5 DEF IsPageEnd
    <3>2. ~(i < first - 1)
      BY <1>2, <2>3, <3>1
    <3>3. ~(first - 1 < i)
      BY <1>2, <2>3, <3>1
    <3> QED BY <1>2, <2>3, <3>1, <3>2, <3>3
  <2> QED BY <1>1, <1>2, <2>3, <2>4, <2>5
<1> QED BY <1>4, <1>5

\* The conditions that the chunker's steps are modelled by are met by one value
\* each, as the loops that search for it return one: there is always a next page
\* or a next window until the text is cut, and attempts that cut the same text
\* again get the same passages.
THEOREM ChunkerIsDeterministic ==
  Spec => [](
    /\ page = <<>> /\ ~ChunkerDone =>
         \E finish \in cursor..Len(input.text) : \A i : IsPageEnd(i) <=> i = finish
    /\ page # <<>> =>
         /\ \E end \in 1..Len(page) : \A i : IsWindowEnd(i) <=> i = end
         /\ \A end \in 1..Len(page) : IsWindowEnd(end) =>
              \E next \in 1..end : \A i : IsNextStart(end, i) <=> i = next
    /\ \A s \in Seq(Nat) :
         /\ \E leading \in 0..Len(s) : \A i : IsLeading(s, i) <=> i = leading
         /\ \A leading \in 0..Len(s) :
              \E last \in 0..Len(s) : \A i : IsStrippedEnd(s, leading, i) <=> i = last)
<1>1. ChunkerInv => (page = <<>> /\ ~ChunkerDone =>
         \E finish \in cursor..Len(input.text) : \A i : IsPageEnd(i) <=> i = finish)
  <2> SUFFICES ASSUME ChunkerInv, page = <<>>, ~ChunkerDone
               PROVE  \E finish \in cursor..Len(input.text) : \A i : IsPageEnd(i) <=> i = finish
    OBVIOUS
  <2>1. WalkInv
    BY DEF ChunkerInv
  <2>2. cursor <= Len(input.text)
    <3>1. cursor \in Nat /\ Len(input.text) \in Nat
      BY <2>1, InputFacts DEF WalkInv
    <3> QED BY <3>1 DEF ChunkerDone
  <2> QED BY <2>1, <2>2, PageEndIsDetermined
<1>2. ChunkerInv => (page # <<>> =>
         /\ \E end \in 1..Len(page) : \A i : IsWindowEnd(i) <=> i = end
         /\ \A end \in 1..Len(page) : IsWindowEnd(end) =>
              \E next \in 1..end : \A i : IsNextStart(end, i) <=> i = next)
  BY WindowIsDetermined DEF ChunkerInv
<1>3. \A s \in Seq(Nat) :
         /\ \E leading \in 0..Len(s) : \A i : IsLeading(s, i) <=> i = leading
         /\ \A leading \in 0..Len(s) :
              \E last \in 0..Len(s) : \A i : IsStrippedEnd(s, leading, i) <=> i = last
  BY StrippingIsDetermined
<1> QED BY <1>1, <1>2, <1>3, ChunkerAlwaysSound, PTL

\* How far the walk is, and a bound on the steps it has left.
Walked == IF page = <<>> THEN cursor ELSE pageStart + start

StepsLeft ==
  2 * (Len(input.text) + 1 - Walked) + (IF page = <<>> THEN 1 ELSE 0)

CountInv ==
  /\ Walked \in 0..Len(input.text) + 1
  /\ Len(passages) <= Walked /\ Len(passages) <= Len(input.text)

LEMMA WalkedStep ==
  ASSUME ChunkerInv, CountInv, TakePage \/ CutWindow
  PROVE  CountInv' /\ StepsLeft' < StepsLeft
<1>1. WalkInv /\ WalkInv' /\ PassagesInv /\ PassagesInv'
  BY ChunkerSteps DEF ChunkerInv
<1>2. PICK n \in Nat : n = Len(input.text)
  BY <1>1, InputFacts
<1>3. cursor \in 0..n + 1 /\ pageStart \in Nat /\ start \in Nat /\ Len(passages) \in Nat
  BY <1>1, <1>2, PassageFacts DEF WalkInv
<1>4. CASE TakePage
  <2>1. PICK finish, leading, last : PageTaken(finish, leading, last)
    BY <1>1, <1>4, TakePageIs
  <2>2. /\ page = <<>> /\ finish \in cursor..n /\ leading \in 0..finish - cursor
        /\ last \in leading..finish - cursor
        /\ cursor' = finish + 1 /\ pageStart' = cursor + leading /\ start' = 0
        /\ input' = input /\ passages' = passages
    BY <1>2, <2>1 DEF PageTaken
  <2>3. Walked = cursor /\ Walked' \in cursor..n + 1
        /\ (page' = <<>> => Walked' = finish + 1)
    BY <1>2, <1>3, <2>2 DEF Walked
  <2> QED BY <1>2, <1>3, <2>2, <2>3 DEF CountInv, StepsLeft
<1>5. CASE CutWindow
  <2>1. PICK end, leading, last : WindowCut(end, leading, last)
    BY <1>1, <1>5, CutWindowIs
  <2>2. /\ page # <<>> /\ end \in 1..Len(page) /\ start < end
        /\ input' = input /\ cursor' = cursor /\ pageStart' = pageStart
        /\ Len(passages') <= Len(passages) + 1
    BY <1>1, <2>1 DEF WindowCut, PassagesInv
  <2>3. /\ Len(page) \in Nat /\ start < Len(page) /\ pageStart + Len(page) < cursor
    BY <1>1, <2>2 DEF WalkInv, PageInv
  <2>4. \/ page' = <<>> /\ Walked' = cursor
        \/ page' = page /\ Walked' = pageStart + start' /\ start < start' /\ start' <= end
           /\ start' \in Nat
    BY <1>1, <2>1, <2>2, NextStarts DEF WindowCut, Walked
  <2>5. Walked = pageStart + start
    BY <2>2 DEF Walked
  <2>6. Len(passages') \in Nat
    BY <1>1 DEF PassagesInv
  <2>7. CountInv'
    <3>1. Walked' \in 0..n + 1 /\ Walked + 1 <= Walked' /\ Walked + 1 <= n
      BY <1>2, <1>3, <2>2, <2>3, <2>4, <2>5
    <3>2. Len(passages') <= Walked' /\ Len(passages') <= n
      BY <1>2, <1>3, <2>2, <2>5, <2>6, <3>1 DEF CountInv
    <3> QED BY <1>2, <2>2, <3>1, <3>2 DEF CountInv
  <2>8. StepsLeft = 2 * (n + 1 - (pageStart + start))
    BY <1>2, <1>3, <2>2, <2>5 DEF StepsLeft
  <2>9. CASE page' = <<>> /\ Walked' = cursor
    <3>1. StepsLeft' = 2 * (n + 1 - cursor) + 1
      BY <1>2, <2>2, <2>9 DEF StepsLeft
    <3> QED BY <1>3, <2>3, <2>7, <2>8, <3>1
  <2>10. CASE page' = page /\ Walked' = pageStart + start' /\ start < start' /\ start' \in Nat
    <3>1. PICK from \in Nat : from = start
      BY <1>3
    <3>2. PICK to \in Nat : to = start'
      BY <2>10
    <3>3. PICK first \in Nat : first = pageStart
      BY <1>3
    <3>4. StepsLeft' = 2 * (n + 1 - Walked') + 0
      BY <1>2, <2>2, <2>10 DEF StepsLeft
    <3>5. Walked' = first + to
      BY <2>10, <3>2, <3>3
    <3>6. StepsLeft = 2 * (n + 1 - (first + from))
      BY <2>8, <3>1, <3>3
    <3>7. from < to
      BY <2>10, <3>1, <3>2
    <3>8. 2 * (n + 1 - (first + to)) + 0 < 2 * (n + 1 - (first + from))
      BY <3>7
    <3> QED BY <2>7, <3>4, <3>5, <3>6, <3>8
  <2> QED BY <2>4, <2>9, <2>10
<1> QED BY <1>4, <1>5

\* The chunker ends for every text, window and overlap: each page taken and each
\* window cut lowers a number that starts at twice the length of the text and
\* some, and there are never more passages than characters.
THEOREM ChunkingEnds ==
  Spec => /\ [](StepsLeft \in Nat /\ Len(passages) <= Len(input.text))
          /\ [][TakePage \/ CutWindow => StepsLeft' < StepsLeft]_vars
<1>1. Init => CountInv
  <2> SUFFICES ASSUME Init PROVE CountInv
    OBVIOUS
  <2>1. Len(input.text) \in Nat
    BY ChunkerStarts, InputFacts DEF Init, ChunkerInv
  <2> QED BY <2>1 DEF Init, ChunkerInit, CountInv, Walked
<1>2. ChunkerInv /\ CountInv /\ [Next]_vars => CountInv'
  <2> SUFFICES ASSUME ChunkerInv, CountInv, [Next]_vars PROVE CountInv'
    OBVIOUS
  <2>1. CASE Chunker
    BY <2>1, WalkedStep DEF Chunker
  <2>2. ASSUME NEW c \in Callers, Progress(c) \/ Crash(c)
        PROVE  UNCHANGED chunkerVars
    BY <2>2 DEF Progress, AnswerUsable, AnswerUnusable, RateLimited, Wake,
         AskInteractively, ReturnAnswer, StartStages, RecheckChunked, InsertChunks,
         ListChunks, RecheckEmbedded, StoreVectors, Crash
  <2>3. CASE UNCHANGED chunkerVars
    BY <2>3 DEF chunkerVars, CountInv, Walked
  <2> QED BY <2>1, <2>2, <2>3 DEF Next, vars
<1>3. ChunkerInv /\ CountInv => StepsLeft \in Nat /\ Len(passages) <= Len(input.text)
  <2> SUFFICES ASSUME ChunkerInv, CountInv
               PROVE  StepsLeft \in Nat /\ Len(passages) <= Len(input.text)
    OBVIOUS
  <2>1. PICK n \in Nat : n = Len(input.text)
    BY InputFacts DEF ChunkerInv
  <2>2. PICK walked \in 0..n + 1 : walked = Walked
    BY <2>1 DEF CountInv
  <2>3. PICK between \in {0, 1} : StepsLeft = 2 * (n + 1 - walked) + between
    BY <2>1, <2>2 DEF StepsLeft
  <2>4. n + 1 - walked \in Nat
    BY <2>2
  <2> QED BY <2>3, <2>4 DEF CountInv
<1>4. ChunkerInv /\ CountInv /\ [Next]_vars
        => [TakePage \/ CutWindow => StepsLeft' < StepsLeft]_vars
  BY WalkedStep
<1> QED BY <1>1, <1>2, <1>3, <1>4, ChunkerAlwaysSound, PTL DEF Spec

=============================================================================
