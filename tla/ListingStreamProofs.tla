-------------------------- MODULE ListingStreamProofs --------------------------
(******************************************************************************)
(* Proofs about ListingStream, for any threads, names, lengths of a listing   *)
(* and cuts of a response.                                                    *)
(******************************************************************************)
EXTENDS ListingStream, SequenceTheorems, FiniteSetTheorems, WellFoundedInduction, TLAPS

Characters ==
  {Open, Close, Newline, LBracket, Comma, RBracket}
    \cup {Letter(n, i) : n \in Names, i \in 1 .. 2}
    \cup {<<"page", i>> : i \in 1 .. 2}

--------------------------------------------------------------------------------
(* Numbers *)

\* A set of natural numbers has a least element, the one Min chooses.
LEMMA LeastExists ==
  ASSUME NEW S, S \subseteq Nat, S # {}
  PROVE  Min(S) \in S /\ \A y \in S : Min(S) <= y
<1>1. PICK x \in S : \A y \in S : ~ (<<y, x>> \in OpToRel(<, Nat))
  <2>1. \E x \in S : \A y \in S : ~ (<<y, x>> \in OpToRel(<, Nat))
    BY WFMin, NatLessThanWellFounded
  <2> QED
    BY <2>1
<1>2. \A y \in S : x <= y
  <2> TAKE y \in S
  <2>1. <<y, x>> \in Nat \X Nat
    BY <1>1
  <2>2. ~ (y < x)
    BY <1>1, <2>1 DEF OpToRel
  <2> QED
    BY <2>2, <2>1
<1> QED
  BY <1>2 DEF Min

\* Five characters to a line.
LEMMA FiveToALine ==
  ASSUME NEW k \in Nat, NEW j \in 0 .. 4
  PROVE  (5 * k + j) \div 5 = k /\ (5 * k + j) % 5 = j
  OBVIOUS

\* Every position is in a line, and at a place in it.
LEMMA PlaceInLine ==
  ASSUME NEW n \in Nat
  PROVE  \E k \in Nat, j \in 0 .. 4 : n = 5 * k + j /\ n \div 5 = k /\ n % 5 = j
<1>1. n \div 5 \in Nat
  OBVIOUS
<1>2. n - 5 * (n \div 5) \in 0 .. 4
  OBVIOUS
<1> DEFINE k == n \div 5
           j == n - 5 * k
<1>3. k \in Nat /\ j \in 0 .. 4 /\ n = 5 * k + j
  BY <1>1, <1>2
<1> HIDE DEF k, j
<1>4. (5 * k + j) \div 5 = k /\ (5 * k + j) % 5 = j
  BY <1>3, FiveToALine
<1> QED
  BY <1>3, <1>4

--------------------------------------------------------------------------------
(* The text of a list of DiDs *)

LEMMA LetterIs ==
  ASSUME NEW n \in Names, NEW i \in 1 .. 2
  PROVE  /\ Letter(n, i) \in Characters
         /\ Letter(n, i) \notin {Open, Close, Newline, LBracket, Comma, RBracket}
<1>1. Letter(n, i) \in Characters
  BY DEF Letter, Characters
<1> QED
  BY <1>1 DEF Letter, Open, Close, Newline, LBracket, Comma, RBracket

LEMMA RecordIs ==
  ASSUME NEW n \in Names
  PROVE  /\ Record(n) \in Seq(Characters)
         /\ Len(Record(n)) = 4
         /\ Record(n)[1] = Open /\ Record(n)[4] = Close
         /\ \A j \in 1 .. 4 : Record(n)[j] = Open <=> j = 1
         /\ \A j \in 1 .. 4 : Record(n)[j] = Close <=> j = 4
         /\ \A j \in 1 .. 4 : Record(n)[j] \in Characters \ {Newline}
<1>1. Open \in Characters /\ Close \in Characters
  BY DEF Characters
<1>2. Open # Close /\ Open # Newline /\ Close # Newline
  BY DEF Open, Close, Newline
<1>3. Letter(n, 1) \in Characters \ {Open, Close, Newline}
  BY LetterIs
<1>4. Letter(n, 2) \in Characters \ {Open, Close, Newline}
  BY LetterIs
<1> QED
  BY <1>1, <1>2, <1>3, <1>4 DEF Record

LEMMA LineIs ==
  ASSUME NEW n \in Names
  PROVE  /\ Line(n)[5] = Newline
         /\ \A j \in 1 .. 4 : Line(n)[j] = Record(n)[j]
         /\ \A j \in 1 .. 5 : Line(n)[j] \in Characters
         /\ \A j \in 1 .. 5 : Line(n)[j] = Newline <=> j = 5
<1>1. Line(n)[5] = Newline
  BY DEF Line, Record
<1>2. \A j \in 1 .. 4 : Line(n)[j] = Record(n)[j]
  BY DEF Line, Record
<1>3. \A j \in 1 .. 5 : j = 5 \/ j \in 1 .. 4
  OBVIOUS
<1>4. Newline \in Characters
  BY DEF Characters
<1> QED
  BY <1>1, <1>2, <1>3, <1>4, RecordIs

LEMMA DidResponseIs ==
  ASSUME NEW ns \in Seq(Names)
  PROVE  /\ DidResponse(ns) \in Seq(Characters)
         /\ Len(DidResponse(ns)) = 5 * Len(ns)
         /\ \A k \in 0 .. Len(ns) - 1, j \in 1 .. 5 :
              DidResponse(ns)[5 * k + j] = Line(ns[k + 1])[j]
<1>1. ASSUME NEW k \in 0 .. Len(ns) - 1, NEW j \in 1 .. 5
      PROVE  /\ 5 * k + j \in 1 .. 5 * Len(ns)
             /\ DidResponse(ns)[5 * k + j] = Line(ns[k + 1])[j]
             /\ Line(ns[k + 1])[j] \in Characters
  <2>1. ((5 * k + j) - 1) \div 5 = k /\ ((5 * k + j) - 1) % 5 = j - 1
    <3>1. (5 * k + j) - 1 = 5 * k + (j - 1) /\ j - 1 \in 0 .. 4 /\ k \in Nat
      OBVIOUS
    <3> QED
      BY <3>1, FiveToALine
  <2>2. 5 * k + j \in 1 .. 5 * Len(ns)
    OBVIOUS
  <2>3. ns[k + 1] \in Names
    OBVIOUS
  <2> QED
    BY <2>1, <2>2, <2>3, LineIs DEF DidResponse
<1>2. ASSUME NEW i \in 1 .. 5 * Len(ns)
      PROVE  DidResponse(ns)[i] \in Characters
  <2>1. PICK k \in Nat, j \in 0 .. 4 : i - 1 = 5 * k + j
    <3>1. i - 1 \in Nat
      OBVIOUS
    <3> QED
      BY <3>1, PlaceInLine
  <2>2. k \in 0 .. Len(ns) - 1 /\ j + 1 \in 1 .. 5 /\ i = 5 * k + (j + 1)
    BY <2>1
  <2> QED
    BY <1>1, <2>2
<1>3. DOMAIN DidResponse(ns) = 1 .. 5 * Len(ns) /\ 5 * Len(ns) \in Nat
  BY DEF DidResponse
<1>4. DidResponse(ns) \in [1 .. 5 * Len(ns) -> Characters]
  BY <1>2 DEF DidResponse
<1>5. DidResponse(ns) \in Seq(Characters) /\ Len(DidResponse(ns)) = 5 * Len(ns)
  BY <1>3, <1>4
<1> QED
  BY <1>1, <1>5
--------------------------------------------------------------------------------
(* Parts of a sequence *)

LEMMA PartIs ==
  ASSUME NEW S, NEW s \in Seq(S), NEW n \in Nat, Len(s) = n,
         NEW i \in 1 .. n + 1, NEW j \in i - 1 .. n
  PROVE  /\ SubSeq(s, i, j) \in Seq(S)
         /\ Len(SubSeq(s, i, j)) = j - i + 1
         /\ \A m \in 1 .. j - i + 1 : SubSeq(s, i, j)[m] = s[m + i - 1]
<1>1. \A m \in i .. j : s[m] \in S
  OBVIOUS
<1> QED
  BY <1>1, SubSeqProperties

LEMMA PartsMeet ==
  ASSUME NEW S, NEW s \in Seq(S), NEW n \in Nat, Len(s) = n,
         NEW k \in 0 .. n, NEW m \in k .. n
  PROVE  SubSeq(s, 1, k) \o SubSeq(s, k + 1, m) = SubSeq(s, 1, m)
  BY ConcatAdjacentSubSeq

--------------------------------------------------------------------------------
(* The pieces of a list of DiDs *)

\* Where the record of a line ends, when the piece ends at place j of the line.
RecordPart(j) == IF j = 5 THEN 4 ELSE j

\* What a piece takes of a record, from after place r to place j of its line.
Part(n, r, j) == SubSeq(Record(n), r + 1, RecordPart(j))

\* A piece that begins after place r of line k + 1 ends at a place of the same line,
\* and is a part of its record.
LEMMA PieceIs ==
  ASSUME NEW t \in Threads, NEW ns \in Seq(Names), response[t] = DidResponse(ns),
         NEW k \in 0 .. Len(ns) - 1, NEW r \in 0 .. 4, pos[t] = 5 * k + r
  PROVE  \E j \in r + 1 .. 5 :
           /\ PieceEnd(t) = 5 * k + j
           /\ Piece(t) = Part(ns[k + 1], r, j)
<1> DEFINE n == ns[k + 1]
           text == DidResponse(ns)
           Stops == {i \in (pos[t] + 1) .. Len(response[t]) :
                       \/ response[t][i] = Newline
                       \/ i \in cuts[t]
                       \/ i = Len(response[t])}
<1>1. n \in Names /\ k \in Nat
  OBVIOUS
<1>2. /\ Len(text) = 5 * Len(ns)
      /\ text \in Seq(Characters)
      /\ \A i \in 1 .. 5 : text[5 * k + i] = Line(n)[i]
  BY DidResponseIs
<1>3. 5 * k + 5 \in Stops
  <2>1. text[5 * k + 5] = Newline
    BY <1>1, <1>2, LineIs
  <2>2. 5 * k + 5 \in (pos[t] + 1) .. 5 * Len(ns)
    OBVIOUS
  <2> QED
    BY <1>2, <2>1, <2>2
<1>4. Stops \subseteq Nat
  OBVIOUS
<1>5. PieceEnd(t) \in Stops /\ PieceEnd(t) <= 5 * k + 5
  BY <1>3, <1>4, LeastExists DEF PieceEnd
<1> DEFINE j == PieceEnd(t) - 5 * k
<1>6. j \in r + 1 .. 5 /\ PieceEnd(t) = 5 * k + j
  BY <1>4, <1>5
<1> HIDE DEF j, n, text
<1> j \in 1 .. 5
  BY <1>6
<1>7. text[5 * k + j] = Line(n)[j]
  BY <1>2, <1>6, Zenon
<1>8. Line(n)[j] = Newline <=> j = 5
  BY <1>1, <1>6, LineIs
<1>9. RecordPart(j) \in r .. 4
  BY <1>6 DEF RecordPart
<1>10. Piece(t) = SubSeq(text, 5 * k + r + 1, 5 * k + RecordPart(j))
  <2>1. CASE j = 5
    <3>1. Line(n)[j] = Newline
      BY <1>8, <2>1
    <3>2. PieceEnd(t) - 1 = 5 * k + 4
      BY <1>6, <2>1
    <3> QED
      BY <1>6, <1>7, <2>1, <3>1, <3>2 DEF Piece, Upto, RecordPart, text
  <2>2. CASE j # 5
    BY <1>6, <1>7, <1>8, <2>2 DEF Piece, Upto, RecordPart, text
  <2> QED
    BY <2>1, <2>2
<1>11. SubSeq(text, 5 * k + r + 1, 5 * k + RecordPart(j))
         = SubSeq(Record(n), r + 1, RecordPart(j))
  <2> DEFINE p == RecordPart(j)
             left == SubSeq(text, 5 * k + r + 1, 5 * k + p)
             right == SubSeq(Record(n), r + 1, p)
  <2>1. p \in r .. 4
    BY <1>9
  <2> HIDE DEF p
  <2>2. /\ left \in Seq(Characters)
        /\ Len(left) = p - r
        /\ \A m \in 1 .. p - r : left[m] = text[5 * k + r + m]
    <3> DEFINE all == 5 * Len(ns)
               from == 5 * k + r + 1
               to == 5 * k + p
    <3>1. all \in Nat /\ from \in 1 .. all + 1 /\ to \in from - 1 .. all
      BY <2>1
    <3>2. /\ to - from + 1 = p - r
          /\ \A m \in 1 .. p - r : m + from - 1 = 5 * k + r + m
      BY <2>1
    <3>3. Len(text) = all /\ text \in Seq(Characters)
      BY <1>2
    <3> HIDE DEF all, from, to
    <3>4. /\ SubSeq(text, from, to) \in Seq(Characters)
          /\ Len(SubSeq(text, from, to)) = to - from + 1
          /\ \A m \in 1 .. to - from + 1 : SubSeq(text, from, to)[m] = text[m + from - 1]
      BY <3>1, <3>3, PartIs
    <3>5. left = SubSeq(text, from, to)
      BY DEF from, to
    <3> HIDE DEF left
    <3> QED
      BY <3>2, <3>4, <3>5
  <2>3. /\ right \in Seq(Characters)
        /\ Len(right) = p - r
        /\ \A m \in 1 .. p - r : right[m] = Record(n)[r + m]
    <3>1. /\ 4 \in Nat /\ r + 1 \in 1 .. 4 + 1 /\ p \in (r + 1) - 1 .. 4
          /\ p - (r + 1) + 1 = p - r
      BY <2>1
    <3>2. Record(n) \in Seq(Characters) /\ Len(Record(n)) = 4
      BY <1>1, RecordIs DEF n
    <3>3. /\ right \in Seq(Characters)
          /\ Len(right) = p - (r + 1) + 1
          /\ \A m \in 1 .. p - (r + 1) + 1 : right[m] = Record(n)[m + (r + 1) - 1]
      BY <3>1, <3>2, PartIs, Zenon
    <3>4. \A m \in 1 .. p - r : m + (r + 1) - 1 = r + m
      BY <2>1
    <3> QED
      BY <3>1, <3>3, <3>4
  <2>4. \A m \in 1 .. p - r : left[m] = right[m]
    <3> TAKE m \in 1 .. p - r
    <3>1. r + m \in 1 .. 4 /\ r + m \in 1 .. 5 /\ 5 * k + (r + m) = 5 * k + r + m
      BY <2>1
    <3>2. text[5 * k + r + m] = Line(n)[r + m]
      BY <1>2, <3>1
    <3>3. Line(n)[r + m] = Record(n)[r + m]
      BY <1>1, <3>1, LineIs DEF n
    <3> QED
      BY <2>2, <2>3, <3>2, <3>3
  <2> HIDE DEF left, right
  <2>5. left = right
    BY <2>2, <2>3, <2>4, SeqEqual
  <2> QED
    BY <2>5 DEF left, right, p
<1> QED
  BY <1>6, <1>10, <1>11 DEF n, Part

--------------------------------------------------------------------------------
(* What coherentize_dids makes of a piece *)

LEMMA PartOfRecord ==
  ASSUME NEW n \in Names, NEW r \in 0 .. 4, NEW j \in r + 1 .. 5
  PROVE  /\ RecordPart(j) \in r .. 4
         /\ Part(n, r, j) \in Seq(Characters)
         /\ Len(Part(n, r, j)) = RecordPart(j) - r
         /\ \A m \in 1 .. RecordPart(j) - r : Part(n, r, j)[m] = Record(n)[m + r]
<1> DEFINE q == RecordPart(j)
<1>1. 4 \in Nat /\ r + 1 \in 1 .. 4 + 1 /\ q \in (r + 1) - 1 .. 4
  BY DEF RecordPart
<1> HIDE DEF q
<1>2. Record(n) \in Seq(Characters) /\ Len(Record(n)) = 4
  BY RecordIs
<1> DEFINE part == SubSeq(Record(n), r + 1, q)
<1>3. /\ part \in Seq(Characters)
      /\ Len(part) = q - (r + 1) + 1
      /\ \A m \in 1 .. q - (r + 1) + 1 : part[m] = Record(n)[m + (r + 1) - 1]
  BY <1>1, <1>2, PartIs, Zenon
<1>4. q - (r + 1) + 1 = q - r /\ \A m \in 1 .. q - r : m + (r + 1) - 1 = m + r
  BY <1>1
<1>5. q \in r .. 4
  BY <1>1
<1> HIDE DEF part
<1>6. /\ Len(part) = q - r
      /\ \A m \in 1 .. q - r : part[m] = Record(n)[m + r]
  BY <1>3, <1>4
<1> QED
  BY <1>3, <1>5, <1>6 DEF part, q, Part

\* A part of a record that does not reach its end is added to the remainder; one that
\* ends the record completes the remainder, or is the whole record, or nothing.
LEMMA Coherent ==
  ASSUME NEW n \in Names, NEW rem \in Seq(Characters),
         NEW r \in 0 .. 4, NEW j \in r + 1 .. 5
  PROVE  LET piece == Part(n, r, j)
             merged == coherentize_dids(piece, rem) IN
         /\ j <= 3 => merged = [string |-> <<>>, rem |-> rem \o piece]
         /\ r = 4 => merged = [string |-> <<>>, rem |-> rem]
         /\ j > 3 /\ r = 0 => merged = [string |-> Record(n), rem |-> rem]
         /\ j > 3 /\ r \in 1 .. 3 => merged = [string |-> rem \o piece, rem |-> <<>>]
<1> DEFINE piece == Part(n, r, j)
           q == RecordPart(j)
<1>1. q \in r .. 4 /\ (j <= 3 => q = j) /\ (j > 3 => q = 4)
  BY DEF RecordPart
<1>2. r = 0 /\ j > 3 => piece = Record(n)
  BY <1>1, RecordIs, SubSeqFull DEF Part
<1>3. /\ piece \in Seq(Characters)
      /\ Len(piece) = q - r
      /\ \A m \in 1 .. q - r : piece[m] = Record(n)[m + r]
  BY PartOfRecord
<1> HIDE DEF q, piece
<1>4. q = r <=> piece = <<>>
  <2>1. q = r => Len(piece) = 0
    BY <1>1, <1>3
  <2>2. piece = <<>> => q - r = 0
    BY <1>3
  <2> QED
    BY <1>1, <1>3, <2>1, <2>2, EmptySeq
<1>5. q # r => Last(piece) = Record(n)[q] /\ Head(piece) = Record(n)[r + 1]
  <2> HAVE q # r
  <2>1. q - r \in 1 .. q - r /\ 1 \in 1 .. q - r /\ (q - r) + r = q /\ 1 + r = r + 1
    BY <1>1
  <2>2. Last(piece) = piece[q - r]
    BY <1>3 DEF Last
  <2>3. Head(piece) = piece[1]
    BY <1>3, <1>4
  <2>4. piece[q - r] = Record(n)[(q - r) + r] /\ piece[1] = Record(n)[1 + r]
    BY <1>3, <2>1, Zenon
  <2> QED
    BY <2>1, <2>2, <2>3, <2>4
<1>6. ASSUME q # r
      PROVE  /\ Record(n)[q] = Close <=> q = 4
             /\ Record(n)[r + 1] = Open <=> r = 0
  <2>1. q \in 1 .. 4 /\ r + 1 \in 1 .. 4 /\ (r + 1 = 1 <=> r = 0)
    BY <1>1, <1>6
  <2>2. Record(n)[q] = Close <=> q = 4
    BY <2>1, RecordIs
  <2>3. Record(n)[r + 1] = Open <=> r + 1 = 1
    BY <2>1, RecordIs
  <2> QED
    BY <2>1, <2>2, <2>3
<1>7. ASSUME j <= 3
      PROVE  coherentize_dids(piece, rem) = [string |-> <<>>, rem |-> rem \o piece]
  <2>1. q # r /\ q # 4
    BY <1>1, <1>7
  <2>2. Unfinished(piece)
    BY <1>5, <1>6, <2>1 DEF Unfinished
  <2> QED
    BY <2>2 DEF coherentize_dids
<1>8. ASSUME r = 4
      PROVE  coherentize_dids(piece, rem) = [string |-> <<>>, rem |-> rem]
  <2>1. piece = <<>>
    BY <1>1, <1>4, <1>8
  <2>2. rem \o <<>> = rem
    BY ConcatEmptySeq
  <2> QED
    BY <2>1, <2>2 DEF coherentize_dids, Unfinished
<1>9. ASSUME j > 3, r # 4
      PROVE  coherentize_dids(piece, rem) =
               IF r = 0 THEN [string |-> piece, rem |-> rem]
               ELSE [string |-> rem \o piece, rem |-> <<>>]
  <2>1. q = 4 /\ q # r
    BY <1>1, <1>9
  <2>2. ~ Unfinished(piece)
    BY <1>4, <1>5, <1>6, <2>1 DEF Unfinished
  <2>3. Head(piece) = Open <=> r = 0
    BY <1>5, <1>6, <2>1
  <2> QED
    BY <2>2, <2>3 DEF coherentize_dids
<1>10. r = 0 => r # 4
  OBVIOUS
<1>11. r \in 1 .. 3 => r # 4 /\ r # 0
  OBVIOUS
<1> QED
  BY <1>2, <1>7, <1>8, <1>9, <1>10, <1>11 DEF piece

\* What is set aside of a record after place r of its line.
Held(n, r) == IF r \in 1 .. 3 THEN SubSeq(Record(n), 1, r) ELSE <<>>

\* A remainder that holds what was set aside of this record holds it again after the
\* piece, and the record is an entry as soon as its last character is parsed.
LEMMA Merge ==
  ASSUME NEW n \in Names, NEW r \in 0 .. 4, NEW j \in r + 1 .. 5
  PROVE  LET merged == coherentize_dids(Part(n, r, j), Held(n, r)) IN
         /\ merged.rem = Held(n, j)
         /\ merged.string = IF r < 4 /\ j >= 4 THEN Record(n) ELSE <<>>
<1> DEFINE piece == Part(n, r, j)
           rem == Held(n, r)
           merged == coherentize_dids(piece, rem)
<1>1. Record(n) \in Seq(Characters) /\ Len(Record(n)) = 4
  BY RecordIs
<1>2. \A i \in 0 .. 3 : Held(n, i) = SubSeq(Record(n), 1, i)
  <2>1. SubSeq(Record(n), 1, 0) = <<>>
    BY SubSeqEmpty
  <2>2. \A i \in 0 .. 3 : i = 0 \/ i \in 1 .. 3
    OBVIOUS
  <2> QED
    BY <2>1, <2>2 DEF Held
<1>3. \A i \in 4 .. 5 : Held(n, i) = <<>>
  BY DEF Held
<1>4. rem \in Seq(Characters)
  <2>1. CASE r \in 1 .. 3
    <3>1. 4 \in Nat /\ 1 \in 1 .. 4 + 1 /\ r \in 1 - 1 .. 4
      OBVIOUS
    <3>2. SubSeq(Record(n), 1, r) \in Seq(Characters)
      BY <1>1, <3>1, PartIs, Zenon
    <3> QED
      BY <2>1, <3>2 DEF Held
  <2>2. CASE r \notin 1 .. 3
    BY <2>2 DEF Held
  <2> QED
    BY <2>1, <2>2
<1>5. r <= 3 => rem \o piece = SubSeq(Record(n), 1, RecordPart(j))
  <2> HAVE r <= 3
  <2> DEFINE q == RecordPart(j)
  <2>1. 4 \in Nat /\ r \in 0 .. 4 /\ q \in r .. 4 /\ r \in 0 .. 3
    BY DEF RecordPart
  <2> HIDE DEF q
  <2>2. SubSeq(Record(n), 1, r) \o SubSeq(Record(n), r + 1, q) = SubSeq(Record(n), 1, q)
    BY <1>1, <2>1, PartsMeet, Zenon
  <2>3. rem = SubSeq(Record(n), 1, r)
    BY <1>2, <2>1
  <2> QED
    BY <2>2, <2>3 DEF q, Part
<1>6. SubSeq(Record(n), 1, 4) = Record(n)
  BY <1>1, SubSeqFull
<1>7. /\ j <= 3 => merged = [string |-> <<>>, rem |-> rem \o piece]
      /\ r = 4 => merged = [string |-> <<>>, rem |-> rem]
      /\ j > 3 /\ r = 0 => merged = [string |-> Record(n), rem |-> rem]
      /\ j > 3 /\ r \in 1 .. 3 => merged = [string |-> rem \o piece, rem |-> <<>>]
  BY <1>4, Coherent
<1>8. Held(n, 0) = <<>>
  BY DEF Held
<1> HIDE DEF merged, piece
<1>9. CASE j <= 3
  <2>1. r <= 3 /\ RecordPart(j) = j /\ j \in 0 .. 3
    BY <1>9 DEF RecordPart
  <2>2. rem \o piece = Held(n, j)
    BY <1>2, <1>5, <2>1
  <2>3. ~ (j >= 4)
    BY <1>9
  <2>4. merged.string = <<>> /\ merged.rem = rem \o piece
    BY <1>7, <1>9
  <2> QED
    BY <2>2, <2>3, <2>4 DEF merged, piece
<1>10. CASE j > 3
  <2>1. RecordPart(j) = 4 /\ j \in 4 .. 5 /\ Held(n, j) = <<>> /\ j >= 4
    BY <1>3, <1>10 DEF RecordPart
  <2>2. CASE r = 4
    <3>1. merged.string = <<>> /\ merged.rem = rem
      BY <1>7, <2>2
    <3>2. rem = <<>> /\ ~ (r < 4)
      BY <1>3, <2>2
    <3> QED
      BY <2>1, <3>1, <3>2 DEF merged, piece
  <2>3. CASE r = 0
    <3>1. merged.string = Record(n) /\ merged.rem = rem
      BY <1>7, <1>10, <2>3
    <3>2. rem = <<>> /\ r < 4
      BY <1>8, <2>3
    <3> QED
      BY <2>1, <3>1, <3>2 DEF merged, piece
  <2>4. CASE r \in 1 .. 3
    <3>1. merged.string = rem \o piece /\ merged.rem = <<>>
      BY <1>7, <1>10, <2>4
    <3>2. r <= 3 /\ r < 4
      BY <2>4
    <3>3. rem \o piece = SubSeq(Record(n), 1, RecordPart(j))
      BY <1>5, <3>2
    <3>4. rem \o piece = Record(n)
      BY <1>6, <2>1, <3>3, Zenon
    <3> QED
      BY <2>1, <3>1, <3>2, <3>4 DEF merged, piece
  <2> QED
    BY <2>2, <2>3, <2>4
<1> QED
  BY <1>9, <1>10

--------------------------------------------------------------------------------
(* The text of a list of scopes *)

LEMMA Bracketed ==
  ASSUME NEW S, NEW a \in S, NEW b \in S, NEW s \in Seq(S), NEW n \in Nat, Len(s) = n
  PROVE  LET whole == <<a>> \o s \o <<b>> IN
         /\ whole \in Seq(S)
         /\ Len(whole) = n + 2
         /\ SubSeq(whole, 2, n + 1) = s
<1> DEFINE opened == <<a>> \o s
           whole == opened \o <<b>>
           inner == SubSeq(whole, 2, n + 1)
<1>1. /\ <<a>> \in Seq(S) /\ Len(<<a>>) = 1
      /\ <<b>> \in Seq(S) /\ Len(<<b>>) = 1
  OBVIOUS
<1>2. /\ opened \in Seq(S)
      /\ Len(opened) = n + 1
      /\ \A i \in 1 .. n : opened[i + 1] = s[i]
  <2>1. /\ opened \in Seq(S)
        /\ Len(opened) = 1 + n
        /\ \A i \in 1 .. 1 + n : opened[i] = IF i <= 1 THEN <<a>>[i] ELSE s[i - 1]
    BY <1>1, ConcatProperties
  <2> HIDE DEF opened
  <2>2. \A i \in 1 .. n : i + 1 \in 1 .. 1 + n /\ ~ (i + 1 <= 1) /\ (i + 1) - 1 = i
    OBVIOUS
  <2> QED
    BY <2>1, <2>2
<1> HIDE DEF opened
<1>3. /\ whole \in Seq(S)
      /\ Len(whole) = n + 2
      /\ \A i \in 1 .. n + 1 : whole[i] = opened[i]
  <2>1. /\ whole \in Seq(S)
        /\ Len(whole) = Len(opened) + Len(<<b>>)
        /\ \A i \in 1 .. Len(opened) + Len(<<b>>) :
             whole[i] = IF i <= Len(opened) THEN opened[i] ELSE <<b>>[i - Len(opened)]
    BY <1>1, <1>2, ConcatProperties, Zenon
  <2> HIDE DEF whole
  <2>2. Len(opened) + Len(<<b>>) = n + 2
    BY <1>1, <1>2
  <2>3. \A i \in 1 .. n + 1 : i \in 1 .. n + 2 /\ i <= Len(opened)
    BY <1>2
  <2> QED
    BY <2>1, <2>2, <2>3
<1> HIDE DEF whole
<1>4. inner = s
  <2> DEFINE all == n + 2
             to == n + 1
  <2>1. all \in Nat /\ 2 \in 1 .. all + 1 /\ to \in 2 - 1 .. all
    OBVIOUS
  <2>2. to - 2 + 1 = n /\ \A m \in 1 .. n : m + 2 - 1 = m + 1 /\ m + 1 \in 1 .. n + 1
    OBVIOUS
  <2>3. Len(whole) = all
    BY <1>3
  <2> HIDE DEF all, to
  <2>4. /\ SubSeq(whole, 2, to) \in Seq(S)
        /\ Len(SubSeq(whole, 2, to)) = to - 2 + 1
        /\ \A m \in 1 .. to - 2 + 1 : SubSeq(whole, 2, to)[m] = whole[m + 2 - 1]
    BY <1>3, <2>1, <2>3, PartIs
  <2>5. inner = SubSeq(whole, 2, to)
    BY DEF to
  <2> HIDE DEF inner
  <2>6. /\ inner \in Seq(S)
        /\ Len(inner) = Len(s)
        /\ \A m \in 1 .. n : inner[m] = s[m]
    BY <1>2, <1>3, <2>2, <2>4, <2>5
  <2> QED
    BY <2>6, SeqEqual
<1> QED
  BY <1>3, <1>4 DEF inner, whole, opened

\* Three characters to an item.
LEMMA ThreeToAnItem ==
  ASSUME NEW k \in Nat, NEW j \in 0 .. 2
  PROVE  (3 * k + j) \div 3 = k /\ (3 * k + j) % 3 = j
  OBVIOUS

LEMMA PlaceInItem ==
  ASSUME NEW n \in Nat
  PROVE  \E k \in Nat, j \in 0 .. 2 : n = 3 * k + j
<1>1. n \div 3 \in Nat
  OBVIOUS
<1>2. n - 3 * (n \div 3) \in 0 .. 2
  OBVIOUS
<1> DEFINE k == n \div 3
           j == n - 3 * k
<1>3. k \in Nat /\ j \in 0 .. 2 /\ n = 3 * k + j
  BY <1>1, <1>2
<1> HIDE DEF k, j
<1> QED
  BY <1>3

LEMMA ItemIs ==
  ASSUME NEW n \in Names
  PROVE  /\ Item(n)[1] = Letter(n, 1) /\ Item(n)[2] = Letter(n, 2) /\ Item(n)[3] = Comma
         /\ \A j \in 1 .. 3 : Item(n)[j] \in Characters
         /\ \A j \in 1 .. 3 : Item(n)[j] = Comma <=> j = 3
<1>1. Item(n)[1] = Letter(n, 1) /\ Item(n)[2] = Letter(n, 2) /\ Item(n)[3] = Comma
  BY DEF Item, Text
<1>2. Letter(n, 1) \in Characters \ {Comma}
  BY LetterIs
<1>3. Letter(n, 2) \in Characters \ {Comma}
  BY LetterIs
<1>4. Comma \in Characters
  BY DEF Characters
<1>5. \A j \in 1 .. 3 : j = 1 \/ j = 2 \/ j = 3
  OBVIOUS
<1> QED
  BY <1>1, <1>2, <1>3, <1>4, <1>5

LEMMA ItemsAre ==
  ASSUME NEW ns \in Seq(Names)
  PROVE  /\ Items(ns) \in Seq(Characters)
         /\ Len(Items(ns)) = IF Len(ns) = 0 THEN 0 ELSE 3 * Len(ns) - 1
         /\ \A k \in 0 .. Len(ns) - 1, j \in 1 .. 3 :
              3 * k + j < 3 * Len(ns) => Items(ns)[3 * k + j] = Item(ns[k + 1])[j]
<1>1. ASSUME NEW k \in 0 .. Len(ns) - 1, NEW j \in 1 .. 3, 3 * k + j < 3 * Len(ns)
      PROVE  /\ 3 * k + j \in 1 .. 3 * Len(ns) - 1
             /\ Items(ns)[3 * k + j] = Item(ns[k + 1])[j]
             /\ Item(ns[k + 1])[j] \in Characters
  <2>1. ((3 * k + j) - 1) \div 3 = k /\ ((3 * k + j) - 1) % 3 = j - 1
    <3>1. (3 * k + j) - 1 = 3 * k + (j - 1) /\ j - 1 \in 0 .. 2 /\ k \in Nat
      OBVIOUS
    <3> QED
      BY <3>1, ThreeToAnItem
  <2>2. 3 * k + j \in 1 .. 3 * Len(ns) - 1
    BY <1>1
  <2>3. ns[k + 1] \in Names
    OBVIOUS
  <2>4. Item(ns[k + 1])[j] \in Characters
    BY <2>3, ItemIs
  <2>5. Items(ns)[3 * k + j] = Item(ns[k + 1])[(j - 1) + 1]
    BY <2>1, <2>2 DEF Items
  <2>6. (j - 1) + 1 = j
    OBVIOUS
  <2> QED
    BY <2>2, <2>4, <2>5, <2>6
<1>2. ASSUME NEW i \in 1 .. 3 * Len(ns) - 1
      PROVE  Items(ns)[i] \in Characters
  <2>1. PICK k \in Nat, j \in 0 .. 2 : i - 1 = 3 * k + j
    <3>1. i - 1 \in Nat
      OBVIOUS
    <3> QED
      BY <3>1, PlaceInItem
  <2>2. /\ k \in 0 .. Len(ns) - 1 /\ j + 1 \in 1 .. 3 /\ i = 3 * k + (j + 1)
        /\ 3 * k + (j + 1) < 3 * Len(ns)
    BY <2>1
  <2> QED
    BY <1>1, <2>2
<1> DEFINE last == IF Len(ns) = 0 THEN 0 ELSE 3 * Len(ns) - 1
<1>3. last \in Nat /\ 1 .. last = 1 .. 3 * Len(ns) - 1
  BY DEF last
<1>4. Items(ns) \in [1 .. last -> Characters]
  BY <1>2, <1>3 DEF Items
<1> HIDE DEF last
<1>5. Items(ns) \in Seq(Characters) /\ Len(Items(ns)) = last
  BY <1>3, <1>4
<1> QED
  BY <1>1, <1>5 DEF last

\* The text of a list of scopes, without its brackets, is its items.
LEMMA ScopeResponseIs ==
  ASSUME NEW ns \in Seq(Names)
  PROVE  /\ ScopeResponse(ns) \in Seq(Characters)
         /\ Len(ScopeResponse(ns)) = Len(Items(ns)) + 2
         /\ SubSeq(ScopeResponse(ns), 2, Len(Items(ns)) + 1) = Items(ns)
<1>1. LBracket \in Characters /\ RBracket \in Characters
  BY DEF Characters
<1>2. Items(ns) \in Seq(Characters) /\ Len(Items(ns)) \in Nat
  BY ItemsAre
<1> QED
  BY <1>1, <1>2, Bracketed DEF ScopeResponse

--------------------------------------------------------------------------------
(* Type correctness *)

\* A sequence, of whatever it holds.
IsSequence(s) == s \in Seq(Range(s))

Typed ==
  /\ pc \in [Threads -> {"idle", "dids", "scopes", "done", "aborted"}]
  /\ kind \in [Threads -> {"none", "dids", "scopes"}]
  /\ names \in [Threads -> Seq(Names)]
  /\ response \in [Threads -> Seq(Characters)]
  /\ cuts \in [Threads -> SUBSET Nat]
  /\ pos \in [Threads -> Nat]
  /\ target = [t \in Threads |-> target[t]]
  /\ \A t \in Threads : IsSequence(target[t])
  /\ did_string_remainder \in Seq(Characters)
  /\ refused \in BOOLEAN

TypeInv == Typed /\ TypeOK

LEMMA SequenceOf ==
  ASSUME NEW S, NEW s \in Seq(S)
  PROVE  IsSequence(s) /\ Len(s) \in Nat
  BY SeqOfRange DEF IsSequence

LEMMA Appended ==
  ASSUME NEW s, NEW e, IsSequence(s)
  PROVE  IsSequence(Append(s, e)) /\ Len(Append(s, e)) = Len(s) + 1 /\ Len(s) \in Nat
<1> DEFINE S == Range(s) \cup {e}
<1>1. s \in Seq(S) /\ e \in S /\ Len(s) \in Nat
  BY SeqMonotonic DEF IsSequence
<1> HIDE DEF S
<1>2. Append(s, e) \in Seq(S) /\ Len(Append(s, e)) = Len(s) + 1
  BY <1>1
<1> QED
  BY <1>1, <1>2, SequenceOf

LEMMA Concatenated ==
  ASSUME NEW s, NEW u, IsSequence(s), IsSequence(u)
  PROVE  /\ IsSequence(s \o u)
         /\ Len(s \o u) = Len(s) + Len(u)
         /\ Len(s) \in Nat /\ Len(u) \in Nat
<1> DEFINE S == Range(s) \cup Range(u)
<1>1. s \in Seq(S) /\ u \in Seq(S) /\ Len(s) \in Nat /\ Len(u) \in Nat
  BY SeqMonotonic DEF IsSequence
<1> HIDE DEF S
<1>2. s \o u \in Seq(S) /\ Len(s \o u) = Len(s) + Len(u)
  BY <1>1, ConcatProperties
<1> QED
  BY <1>1, <1>2, SequenceOf

LEMMA NamesOfListing ==
  ASSUME NEW ns \in BoundedSeq(Names, MaxEntries)
  PROVE  ns \in Seq(Names)
<1>1. PICK m \in 0 .. MaxEntries : ns \in [1 .. m -> Names]
  BY DEF BoundedSeq, SeqOf
<1>2. m \in Nat
  BY BoundsAssumption
<1> QED
  BY <1>1, <1>2

LEMMA ErrorPageIs == ErrorPage \in Seq(Characters)
<1>1. \A i \in 1 .. 2 : <<"page", i>> \in Characters
  BY DEF Characters
<1>2. <<"page", 1>> \in Characters /\ <<"page", 2>> \in Characters
  BY <1>1
<1> QED
  BY <1>2 DEF ErrorPage

\* The end of a piece, and what a piece is.
LEMMA PieceTyped ==
  ASSUME NEW t \in Threads, TypeInv, pos[t] < Len(response[t])
  PROVE  /\ PieceEnd(t) \in (pos[t] + 1) .. Len(response[t])
         /\ Piece(t) \in Seq(Characters)
<1>1. /\ response[t] \in Seq(Characters)
      /\ pos[t] \in Nat /\ pos[t] \in 0 .. Len(response[t])
      /\ Len(response[t]) \in Nat
  BY DEF TypeInv, Typed, TypeOK
<1> DEFINE Stops == {i \in (pos[t] + 1) .. Len(response[t]) :
                       \/ response[t][i] = Newline
                       \/ i \in cuts[t]
                       \/ i = Len(response[t])}
<1>2. Stops \subseteq Nat /\ Len(response[t]) \in Stops
  BY <1>1
<1>3. PieceEnd(t) \in Stops
  BY <1>2, LeastExists DEF PieceEnd
<1>4. PieceEnd(t) \in (pos[t] + 1) .. Len(response[t])
  BY <1>3
<1> DEFINE n == Len(response[t])
           from == pos[t] + 1
           to == IF response[t][PieceEnd(t)] = Newline THEN PieceEnd(t) - 1 ELSE PieceEnd(t)
<1>5. n \in Nat /\ from \in 1 .. n + 1 /\ to \in from - 1 .. n
  BY <1>1, <1>4
<1>6. Piece(t) = SubSeq(response[t], from, to)
  BY DEF Piece, Upto
<1>7. Len(response[t]) = n
  OBVIOUS
<1> HIDE DEF n, from, to
<1>8. SubSeq(response[t], from, to) \in Seq(Characters)
  BY <1>1, <1>5, <1>7, PartIs
<1> QED
  BY <1>4, <1>6, <1>8

LEMMA CoherentTyped ==
  ASSUME NEW piece \in Seq(Characters), NEW rem \in Seq(Characters)
  PROVE  LET merged == coherentize_dids(piece, rem) IN
         merged.rem \in Seq(Characters)
<1>1. rem \o piece \in Seq(Characters)
  BY ConcatProperties
<1>2. <<>> \in Seq(Characters)
  OBVIOUS
<1> QED
  BY <1>1, <1>2 DEF coherentize_dids

LEMMA ChunkTyped ==
  ASSUME NEW t \in Threads, TypeInv, pos[t] < Len(response[t])
  PROVE  /\ ChunkEnd(t) \in (pos[t] + 1) .. Len(response[t])
         /\ LET chunk == SubSeq(response[t], pos[t] + 1, ChunkEnd(t)) IN
            /\ chunk \in Seq(Characters)
            /\ Len(chunk) = ChunkEnd(t) - pos[t]
<1>1. /\ response[t] \in Seq(Characters)
      /\ pos[t] \in Nat /\ pos[t] \in 0 .. Len(response[t])
      /\ Len(response[t]) \in Nat
      /\ cuts[t] \subseteq 1 .. Len(response[t])
  BY DEF TypeInv, Typed, TypeOK
<1> DEFINE Stops == {i \in cuts[t] \cup {Len(response[t])} : i > pos[t]}
<1>2. Stops \subseteq Nat /\ Len(response[t]) \in Stops
  BY <1>1
<1>3. ChunkEnd(t) \in Stops
  BY <1>2, LeastExists DEF ChunkEnd
<1>4. ChunkEnd(t) \in (pos[t] + 1) .. Len(response[t])
  BY <1>1, <1>3
<1> DEFINE n == Len(response[t])
           from == pos[t] + 1
           to == ChunkEnd(t)
<1>5. n \in Nat /\ from \in 1 .. n + 1 /\ to \in from - 1 .. n /\ to - from + 1 = to - pos[t]
  BY <1>1, <1>4
<1>6. Len(response[t]) = n
  OBVIOUS
<1> HIDE DEF n, from, to
<1>7. /\ SubSeq(response[t], from, to) \in Seq(Characters)
      /\ Len(SubSeq(response[t], from, to)) = to - from + 1
  BY <1>1, <1>5, <1>6, PartIs
<1> QED
  BY <1>4, <1>5, <1>7 DEF from, to

\* A text of n characters has at most n elements.
LEMMA ElementsTyped ==
  ASSUME NEW text \in Seq(Characters)
  PROVE  /\ IsSequence(Elements(text))
         /\ Len(Elements(text)) = Cardinality(Ends(text))
         /\ Len(Elements(text)) <= Len(text)
<1>1. Len(text) \in Nat
  OBVIOUS
<1>2. Ends(text) \in SUBSET (1 .. Len(text))
  BY DEF Ends
<1>3. IsFiniteSet(1 .. Len(text)) /\ Cardinality(1 .. Len(text)) <= Len(text)
  <2>1. 1 \in Int /\ Len(text) \in Int
    BY <1>1
  <2>2. /\ IsFiniteSet(1 .. Len(text))
        /\ Cardinality(1 .. Len(text)) = IF 1 > Len(text) THEN 0 ELSE Len(text) - 1 + 1
    BY <2>1, FS_Interval
  <2> QED
    BY <1>1, <2>2
<1>4. /\ Cardinality(Ends(text)) \in Nat
      /\ Cardinality(Ends(text)) <= Len(text)
  <2>1. IsFiniteSet(Ends(text)) /\ Cardinality(Ends(text)) <= Cardinality(1 .. Len(text))
    BY <1>2, <1>3, FS_Subset
  <2>2. Cardinality(Ends(text)) \in Nat /\ Cardinality(1 .. Len(text)) \in Nat
    BY <1>3, <2>1, FS_CardinalityType
  <2> QED
    BY <1>1, <1>3, <2>1, <2>2
<1> DEFINE card == Cardinality(Ends(text))
           els == Elements(text)
           e(k) == LET end == NthEnd(text, k) IN Upto(text, From(text, end), end, Comma)
           S == {e(k) : k \in 1 .. card}
<1>5. els = [k \in 1 .. card |-> e(k)]
  BY DEF Elements
<1>6. card \in Nat
  BY <1>4
<1> HIDE DEF card, e, els
<1>7. els \in [1 .. card -> S]
  BY <1>5
<1> HIDE DEF S
<1>8. els \in Seq(S) /\ Len(els) = card
  BY <1>6, <1>7
<1> QED
  BY <1>4, <1>8, SequenceOf DEF card, els

LEMMA DeliverTyped ==
  ASSUME TypeInv, NEW t \in Threads, NEW k \in {"dids", "scopes"},
         NEW ns \in Seq(Names), NEW text \in Seq(Characters),
         Deliver(t, k, ns, text), refused' \in BOOLEAN
  PROVE  TypeInv'
<1> USE DEF Typed
<1>1. Len(text) \in Nat
  OBVIOUS
<1>2. PICK c \in SUBSET (1 .. Len(text) - 1) : cuts' = [cuts EXCEPT ![t] = c]
  BY DEF Deliver, kSubset
<1>3. c \subseteq 1 .. Len(text) /\ c \subseteq Nat
  BY <1>1, <1>2
<1>4. IsSequence(<<>>) /\ Len(<<>>) = 0
  BY SequenceOf, EmptySeq
<1>5. Typed'
  <2>1. target' = [u \in Threads |-> target'[u]] /\ \A u \in Threads : IsSequence(target'[u])
    BY <1>4 DEF Deliver, TypeInv
  <2>2. cuts' \in [Threads -> SUBSET Nat]
    BY <1>2, <1>3 DEF TypeInv
  <2> QED
    BY <2>1, <2>2 DEF Deliver, TypeInv
<1>6. TypeOK'
  <2> SUFFICES ASSUME NEW u \in Threads
               PROVE  /\ pc'[u] \in {"idle", "dids", "scopes", "done", "aborted"}
                      /\ pos'[u] \in 0 .. Len(response'[u])
                      /\ cuts'[u] \subseteq 1 .. Len(response'[u])
                      /\ Len(target'[u]) <= pos'[u]
    BY DEF TypeOK
  <2>1. CASE u = t
    BY <1>1, <1>2, <1>3, <1>4, <2>1 DEF Deliver, TypeInv
  <2>2. CASE u # t
    BY <1>2, <2>2 DEF Deliver, TypeInv, TypeOK
  <2> QED
    BY <2>1, <2>2
<1> QED
  BY <1>5, <1>6 DEF TypeInv

LEMMA TypeInvInductive == TypeInv /\ [Next]_vars => TypeInv'
<1> SUFFICES ASSUME TypeInv, [Next]_vars
             PROVE  TypeInv'
  OBVIOUS
<1> USE DEF Typed
<1>1. ASSUME NEW t \in Threads, ReceiveDids(t)
      PROVE  TypeInv'
  <2>1. PICK ns \in BoundedSeq(Names, MaxEntries) : Deliver(t, "dids", ns, DidResponse(ns))
    BY <1>1 DEF ReceiveDids
  <2>2. ns \in Seq(Names) /\ DidResponse(ns) \in Seq(Characters)
    BY NamesOfListing, DidResponseIs
  <2>3. refused' \in BOOLEAN
    BY <1>1 DEF ReceiveDids, TypeInv
  <2> QED
    BY <2>1, <2>2, <2>3, DeliverTyped
<1>2. ASSUME NEW t \in Threads, ReceiveErrorPage(t)
      PROVE  TypeInv'
  <2>1. Deliver(t, "dids", <<>>, ErrorPage) /\ refused' \in BOOLEAN
    BY <1>2 DEF ReceiveErrorPage
  <2>2. <<>> \in Seq(Names)
    OBVIOUS
  <2> QED
    BY <2>1, <2>2, ErrorPageIs, DeliverTyped
<1>3. ASSUME NEW t \in Threads, ReceiveScopes(t)
      PROVE  TypeInv'
  <2>1. PICK ns \in BoundedSeq(Names, MaxEntries) : Deliver(t, "scopes", ns, ScopeResponse(ns))
    BY <1>3 DEF ReceiveScopes
  <2>2. ns \in Seq(Names) /\ ScopeResponse(ns) \in Seq(Characters)
    BY NamesOfListing, ScopeResponseIs
  <2>3. refused' \in BOOLEAN
    BY <1>3 DEF ReceiveScopes, TypeInv
  <2> QED
    BY <2>1, <2>2, <2>3, DeliverTyped
<1>4. ASSUME NEW t \in Threads, ParsePiece(t)
      PROVE  TypeInv'
  <2> DEFINE merged == coherentize_dids(Piece(t), did_string_remainder)
             more == IF merged.string = <<>> THEN target[t] ELSE Append(target[t], merged.string)
  <2>1. /\ PieceEnd(t) \in (pos[t] + 1) .. Len(response[t])
        /\ Piece(t) \in Seq(Characters)
    BY <1>4, PieceTyped DEF ParsePiece
  <2>2. did_string_remainder' \in Seq(Characters)
    BY <1>4, <2>1, CoherentTyped DEF ParsePiece, TypeInv
  <2>3. IsSequence(more) /\ Len(more) <= Len(target[t]) + 1 /\ Len(target[t]) \in Nat
    <3>1. IsSequence(target[t]) /\ Len(target[t]) \in Nat
      BY SequenceOf DEF TypeInv, IsSequence
    <3> QED
      BY <3>1, Appended
  <2>4. target' = [target EXCEPT ![t] = more]
    BY <1>4 DEF ParsePiece
  <2>5. pos' = [pos EXCEPT ![t] = PieceEnd(t)]
    BY <1>4 DEF ParsePiece, NextPiece
  <2> HIDE DEF more, merged
  <2>6. Typed'
    <3>1. target' = [u \in Threads |-> target'[u]] /\ \A u \in Threads : IsSequence(target'[u])
      BY <2>3, <2>4 DEF TypeInv
    <3>2. pos' \in [Threads -> Nat]
      BY <2>1, <2>5 DEF TypeInv
    <3> QED
      BY <1>4, <2>2, <3>1, <3>2 DEF ParsePiece, TypeInv
  <2>7. TypeOK'
    <3> SUFFICES ASSUME NEW u \in Threads
                 PROVE  /\ pos'[u] \in 0 .. Len(response[u])
                        /\ Len(target'[u]) <= pos'[u]
      BY <1>4 DEF ParsePiece, TypeInv, TypeOK
    <3>1. CASE u = t
      <4>1. target'[u] = more /\ pos'[u] = PieceEnd(t)
        BY <2>4, <2>5, <3>1 DEF TypeInv
      <4>2. /\ Len(target[t]) <= pos[t] /\ pos[t] \in Nat
            /\ Len(response[t]) \in Nat /\ Len(more) \in Nat
        BY <2>3, SequenceOf DEF TypeInv, TypeOK, IsSequence
      <4> QED
        BY <2>1, <2>3, <3>1, <4>1, <4>2
    <3>2. CASE u # t
      BY <2>4, <2>5, <3>2 DEF TypeInv, TypeOK
    <3> QED
      BY <3>1, <3>2
  <2> QED
    BY <2>6, <2>7 DEF TypeInv
<1>5. ASSUME NEW t \in Threads, TokenizeChunk(t)
      PROVE  TypeInv'
  <2> DEFINE chunk == SubSeq(response[t], pos[t] + 1, ChunkEnd(t))
             els == Elements(Inner(chunk))
  <2>1. /\ ChunkEnd(t) \in (pos[t] + 1) .. Len(response[t])
        /\ chunk \in Seq(Characters)
        /\ Len(chunk) = ChunkEnd(t) - pos[t]
    BY <1>5, ChunkTyped DEF TokenizeChunk
  <2>2. CASE Len(chunk) = 1
    BY <1>5, <2>2 DEF TokenizeChunk, TypeInv, TypeOK
  <2>3. CASE Len(chunk) # 1
    <3>1. target' = [target EXCEPT ![t] = @ \o els] /\ pos' = [pos EXCEPT ![t] = ChunkEnd(t)]
          /\ UNCHANGED pc
      BY <1>5, <2>3 DEF TokenizeChunk
    <3>2. pos[t] \in Nat /\ Len(target[t]) <= pos[t] /\ Len(response[t]) \in Nat
      BY DEF TypeInv, TypeOK
    <3>3. Inner(chunk) \in Seq(Characters) /\ Len(Inner(chunk)) <= Len(chunk)
      <4> DEFINE n == Len(chunk)
                 to == Len(chunk) - 1
      <4>1. n \in Nat /\ n >= 1 /\ n # 1
        <5>1. ChunkEnd(t) - pos[t] \in Nat /\ ChunkEnd(t) - pos[t] >= 1
          BY <2>1, <3>2
        <5> QED
          BY <2>1, <2>3, <5>1
      <4>2. Inner(chunk) = SubSeq(chunk, 2, to) /\ Len(chunk) = n /\ to = n - 1
        BY DEF Inner
      <4> HIDE DEF chunk, n, to
      <4>a. 2 \in 1 .. n + 1 /\ to \in 2 - 1 .. n /\ to - 2 + 1 <= n
        BY <4>1, <4>2
      <4>3. /\ SubSeq(chunk, 2, to) \in Seq(Characters)
            /\ Len(SubSeq(chunk, 2, to)) = to - 2 + 1
        BY <2>1, <4>1, <4>2, <4>a, PartIs
      <4> QED
        BY <4>a, <4>2, <4>3
    <3>4. IsSequence(els) /\ Len(els) <= Len(Inner(chunk))
      BY <3>3, ElementsTyped
    <3>5. IsSequence(target[t])
      BY DEF TypeInv
    <3> HIDE DEF els, chunk
    <3>6. /\ IsSequence(target[t] \o els)
          /\ Len(target[t] \o els) = Len(target[t]) + Len(els)
          /\ Len(target[t]) \in Nat /\ Len(els) \in Nat
      BY <3>4, <3>5, Concatenated
    <3>7. Len(target[t] \o els) <= ChunkEnd(t)
      <4>1. Len(chunk) \in Nat /\ Len(Inner(chunk)) \in Nat
        BY <2>1, <3>3
      <4> QED
        BY <2>1, <3>2, <3>3, <3>4, <3>6, <4>1
    <3>8. Typed'
      <4>1. target' = [u \in Threads |-> target'[u]] /\ \A u \in Threads : IsSequence(target'[u])
        BY <3>1, <3>6 DEF TypeInv
      <4>2. pos' \in [Threads -> Nat]
        BY <2>1, <3>1, <3>2 DEF TypeInv
      <4> QED
        BY <1>5, <3>1, <4>1, <4>2 DEF TokenizeChunk, TypeInv
    <3>9. TypeOK'
      <4> SUFFICES ASSUME NEW u \in Threads
                   PROVE  /\ pos'[u] \in 0 .. Len(response[u])
                          /\ Len(target'[u]) <= pos'[u]
        BY <1>5, <3>1 DEF TokenizeChunk, TypeInv, TypeOK
      <4>1. CASE u = t
        <5>1. target'[u] = target[t] \o els /\ pos'[u] = ChunkEnd(t)
          BY <3>1, <4>1 DEF TypeInv
        <5> QED
          BY <2>1, <3>2, <3>7, <4>1, <5>1
      <4>2. CASE u # t
        BY <3>1, <4>2 DEF TypeInv, TypeOK
      <4> QED
        BY <4>1, <4>2
    <3> QED
      BY <3>8, <3>9 DEF TypeInv
  <2> QED
    BY <2>2, <2>3
<1>6. ASSUME NEW t \in Threads, Finish(t)
      PROVE  TypeInv'
  BY <1>6 DEF Finish, TypeInv, TypeOK
<1>7. ASSUME NEW t \in Threads, Return(t)
      PROVE  TypeInv'
  <2>1. IsSequence(<<>>) /\ Len(<<>>) = 0
    BY SequenceOf, EmptySeq
  <2>2. Typed'
    <3>1. target' = [u \in Threads |-> target'[u]] /\ \A u \in Threads : IsSequence(target'[u])
      BY <1>7, <2>1 DEF Return, TypeInv
    <3> QED
      BY <1>7, <3>1 DEF Return, TypeInv
  <2>3. TypeOK'
    BY <1>7, <2>1 DEF Return, TypeInv, TypeOK
  <2> QED
    BY <2>2, <2>3 DEF TypeInv
<1>8. CASE UNCHANGED vars
  BY <1>8 DEF vars, TypeInv, TypeOK
<1> QED
  BY <1>1, <1>2, <1>3, <1>4, <1>5, <1>6, <1>7, <1>8 DEF Next

LEMMA TypeInvInitially == Init => TypeInv
<1> SUFFICES ASSUME Init
             PROVE  TypeInv
  OBVIOUS
<1>1. IsSequence(<<>>) /\ Len(<<>>) = 0
  BY SequenceOf, EmptySeq
<1>2. Typed
  <2>1. target = [t \in Threads |-> target[t]] /\ \A t \in Threads : IsSequence(target[t])
    BY <1>1 DEF Init
  <2>2. <<>> \in Seq(Names) /\ <<>> \in Seq(Characters) /\ {} \in SUBSET Nat
    OBVIOUS
  <2> QED
    BY <2>1, <2>2 DEF Init, Typed
<1>3. TypeOK
  BY <1>1 DEF Init, TypeOK
<1> QED
  BY <1>2, <1>3 DEF TypeInv

\* A thread never parses past its response, and never finds more entries than it has
\* parsed characters (split_dids, coherentize_dids, tokenize_python_list).
THEOREM TypeCorrect == Spec => []TypeOK
<1>1. TypeInv => TypeOK
  BY DEF TypeInv
<1> QED
  BY <1>1, TypeInvInitially, TypeInvInductive, PTL DEF Spec

--------------------------------------------------------------------------------
(* Nothing is left over *)

\* A thread parses what the server sent it, and is done at its end.
Sent ==
  \A t \in Threads :
    /\ kind[t] = "dids" /\ ~ refused => response[t] = DidResponse(names[t])
    /\ kind[t] = "scopes" => response[t] = ScopeResponse(names[t])
    /\ pc[t] \in {"dids", "scopes"} => kind[t] = pc[t]
    /\ pc[t] = "done" => pos[t] = Len(response[t])

LEMMA SentInductive == TypeInv /\ Sent /\ [Next]_vars => Sent'
<1> SUFFICES ASSUME TypeInv, Sent, [Next]_vars
             PROVE  Sent'
  OBVIOUS
<1> USE DEF TypeInv, Typed
<1>1. ASSUME NEW t \in Threads, ReceiveDids(t)
      PROVE  Sent'
  BY <1>1 DEF ReceiveDids, Deliver, Sent
<1>2. ASSUME NEW t \in Threads, ReceiveErrorPage(t)
      PROVE  Sent'
  BY <1>2 DEF ReceiveErrorPage, Deliver, Sent
<1>3. ASSUME NEW t \in Threads, ReceiveScopes(t)
      PROVE  Sent'
  BY <1>3 DEF ReceiveScopes, Deliver, Sent
<1>4. ASSUME NEW t \in Threads, ParsePiece(t)
      PROVE  Sent'
  BY <1>4 DEF ParsePiece, Sent
<1>5. ASSUME NEW t \in Threads, TokenizeChunk(t)
      PROVE  Sent'
  BY <1>5 DEF TokenizeChunk, Sent
<1>6. ASSUME NEW t \in Threads, Finish(t)
      PROVE  Sent'
  BY <1>6 DEF Finish, Sent
<1>7. ASSUME NEW t \in Threads, Return(t)
      PROVE  Sent'
  BY <1>7 DEF Return, Sent
<1>8. CASE UNCHANGED vars
  BY <1>8 DEF vars, Sent
<1> QED
  BY <1>1, <1>2, <1>3, <1>4, <1>5, <1>6, <1>7, <1>8 DEF Next

\* A piece goes from a place of a line to a later place of the same line.
LEMMA PieceOfLine ==
  ASSUME TypeInv, Sent, ~ refused, NEW t \in Threads, ParsePiece(t)
  PROVE  \E k \in 0 .. Len(names[t]) - 1, r \in 0 .. 4 : \E j \in r + 1 .. 5 :
           /\ names[t][k + 1] \in Names
           /\ pos[t] = 5 * k + r
           /\ pos'[t] = 5 * k + j
           /\ Piece(t) = Part(names[t][k + 1], r, j)
<1>1. /\ names[t] \in Seq(Names)
      /\ response[t] = DidResponse(names[t])
      /\ pos[t] \in Nat /\ pos[t] < Len(response[t])
  BY DEF ParsePiece, Sent, TypeInv, Typed
<1>2. Len(response[t]) = 5 * Len(names[t]) /\ Len(names[t]) \in Nat
  BY <1>1, DidResponseIs
<1>3. PICK k \in Nat, r \in 0 .. 4 : pos[t] = 5 * k + r
  BY <1>1, PlaceInLine
<1>4. k \in 0 .. Len(names[t]) - 1
  BY <1>1, <1>2, <1>3
<1>5. PICK j \in r + 1 .. 5 :
        PieceEnd(t) = 5 * k + j /\ Piece(t) = Part(names[t][k + 1], r, j)
  BY <1>1, <1>3, <1>4, PieceIs
<1>6. pos'[t] = 5 * k + j
  BY <1>5 DEF ParsePiece, NextPiece, TypeInv, Typed
<1>7. names[t][k + 1] \in Names
  BY <1>1, <1>4
<1> QED
  BY <1>3, <1>4, <1>5, <1>6, <1>7

\* A remainder belongs to a thread whose last piece ended inside a record.
Waiting ==
  ~ refused /\ did_string_remainder # <<>> =>
    \E t \in Threads : pc[t] = "dids" /\ pos[t] % 5 \in 1 .. 3

LEMMA WaitingInductive == TypeInv /\ Sent /\ Waiting /\ [Next]_vars => Waiting'
<1> SUFFICES ASSUME TypeInv, Sent, Waiting, [Next]_vars, ~ refused', did_string_remainder' # <<>>
             PROVE  \E t \in Threads : pc'[t] = "dids" /\ pos'[t] % 5 \in 1 .. 3
  BY DEF Waiting
<1> USE DEF TypeInv, Typed
<1>1. \A t \in Threads : ~ ReceiveErrorPage(t)
  BY DEF ReceiveErrorPage
<1>2. ASSUME NEW t \in Threads, \/ ReceiveDids(t)
                                \/ ReceiveScopes(t)
      PROVE  \E u \in Threads : pc'[u] = "dids" /\ pos'[u] % 5 \in 1 .. 3
  <2>1. pc[t] = "idle" /\ \A u \in Threads \ {t} : pc'[u] = pc[u] /\ pos'[u] = pos[u]
    BY <1>2 DEF ReceiveDids, ReceiveScopes, Deliver
  <2>2. PICK u \in Threads : pc[u] = "dids" /\ pos[u] % 5 \in 1 .. 3
    BY <1>2 DEF ReceiveDids, ReceiveScopes, Deliver, Waiting
  <2> QED
    BY <2>1, <2>2
<1>3. ASSUME NEW t \in Threads, ParsePiece(t)
      PROVE  \E u \in Threads : pc'[u] = "dids" /\ pos'[u] % 5 \in 1 .. 3
  <2>1. ~ refused /\ pc[t] = "dids" /\ pc' = pc
    BY <1>3 DEF ParsePiece
  <2>2. PICK k \in 0 .. Len(names[t]) - 1, r \in 0 .. 4 : \E j \in r + 1 .. 5 :
           /\ names[t][k + 1] \in Names
           /\ pos[t] = 5 * k + r
           /\ pos'[t] = 5 * k + j
           /\ Piece(t) = Part(names[t][k + 1], r, j)
    BY <1>3, <2>1, PieceOfLine
  <2>3. PICK j \in r + 1 .. 5 :
           /\ names[t][k + 1] \in Names
           /\ pos[t] = 5 * k + r
           /\ pos'[t] = 5 * k + j
           /\ Piece(t) = Part(names[t][k + 1], r, j)
    BY <2>2
  <2> DEFINE n == names[t][k + 1]
             piece == Part(n, r, j)
             merged == coherentize_dids(piece, did_string_remainder)
  <2>4. did_string_remainder' = merged.rem
    BY <1>3, <2>3 DEF ParsePiece
  <2>5. /\ r = 4 => merged = [string |-> <<>>, rem |-> did_string_remainder]
        /\ j > 3 /\ r = 0 => merged = [string |-> Record(n), rem |-> did_string_remainder]
        /\ j > 3 /\ r \in 1 .. 3 =>
             merged = [string |-> did_string_remainder \o piece, rem |-> <<>>]
    <3> DEFINE rem == did_string_remainder
    <3>1. n \in Names /\ rem \in Seq(Characters)
      BY <2>3
    <3> HIDE DEF n, rem
    <3>2. LET whole == coherentize_dids(Part(n, r, j), rem) IN
          /\ r = 4 => whole = [string |-> <<>>, rem |-> rem]
          /\ j > 3 /\ r = 0 => whole = [string |-> Record(n), rem |-> rem]
          /\ j > 3 /\ r \in 1 .. 3 => whole = [string |-> rem \o Part(n, r, j), rem |-> <<>>]
      BY <3>1, Coherent, Zenon
    <3> QED
      BY <3>2, Zenon DEF rem
  <2> HIDE DEF merged
  <2>6. k \in Nat
    OBVIOUS
  <2>7. CASE j <= 3
    <3>1. j \in 0 .. 4 /\ j \in 1 .. 3
      BY <2>7
    <3>2. pos'[t] % 5 = j
      BY <2>3, <2>6, <3>1, FiveToALine
    <3> QED
      BY <2>1, <3>1, <3>2
  <2>8. CASE j > 3
    <3>1. r \notin 1 .. 3 /\ did_string_remainder' = did_string_remainder
      <4>1. r \notin 1 .. 3
        BY <2>4, <2>5, <2>8
      <4>2. r = 0 \/ r = 4
        BY <4>1
      <4> QED
        BY <2>4, <2>5, <2>8, <4>1, <4>2
    <3>2. pos[t] % 5 = r
      BY <2>3, <2>6, FiveToALine
    <3>3. PICK u \in Threads : pc[u] = "dids" /\ pos[u] % 5 \in 1 .. 3
      BY <2>1, <3>1 DEF Waiting
    <3>4. u # t
      BY <3>1, <3>2, <3>3
    <3>5. pc'[u] = pc[u] /\ pos'[u] = pos[u]
      BY <1>3, <3>4 DEF ParsePiece
    <3> QED
      BY <3>3, <3>5
  <2> QED
    BY <2>7, <2>8
<1>4. ASSUME NEW t \in Threads, TokenizeChunk(t)
      PROVE  \E u \in Threads : pc'[u] = "dids" /\ pos'[u] % 5 \in 1 .. 3
  <2>1. pc[t] = "scopes" /\ \A u \in Threads \ {t} : pc'[u] = pc[u] /\ pos'[u] = pos[u]
    BY <1>4 DEF TokenizeChunk
  <2>2. PICK u \in Threads : pc[u] = "dids" /\ pos[u] % 5 \in 1 .. 3
    BY <1>4 DEF TokenizeChunk, Waiting
  <2> QED
    BY <2>1, <2>2
<1>5. ASSUME NEW t \in Threads, Finish(t)
      PROVE  \E u \in Threads : pc'[u] = "dids" /\ pos'[u] % 5 \in 1 .. 3
  <2>1. /\ \A u \in Threads \ {t} : pc'[u] = pc[u] /\ pos'[u] = pos[u]
        /\ ~ refused /\ pos[t] = Len(response[t])
    BY <1>5 DEF Finish
  <2>2. PICK u \in Threads : pc[u] = "dids" /\ pos[u] % 5 \in 1 .. 3
    BY <1>5 DEF Finish, Waiting
  <2>3. ASSUME u = t PROVE FALSE
    <3>1. response[t] = DidResponse(names[t]) /\ names[t] \in Seq(Names)
      BY <2>1, <2>2, <2>3 DEF Sent
    <3>2. pos[t] = 5 * Len(names[t]) /\ Len(names[t]) \in Nat
      BY <2>1, <3>1, DidResponseIs
    <3>3. 5 * Len(names[t]) + 0 = 5 * Len(names[t]) /\ 0 \in 0 .. 4
      BY <3>2
    <3>4. pos[t] % 5 = 0
      BY <3>2, <3>3, FiveToALine
    <3> QED
      BY <2>2, <2>3, <3>4
  <2> QED
    BY <2>1, <2>2, <2>3
<1>6. ASSUME NEW t \in Threads, Return(t)
      PROVE  \E u \in Threads : pc'[u] = "dids" /\ pos'[u] % 5 \in 1 .. 3
  <2>1. pc[t] = "done" /\ \A u \in Threads \ {t} : pc'[u] = pc[u] /\ pos'[u] = pos[u]
    BY <1>6 DEF Return
  <2>2. PICK u \in Threads : pc[u] = "dids" /\ pos[u] % 5 \in 1 .. 3
    BY <1>6 DEF Return, Waiting
  <2> QED
    BY <2>1, <2>2
<1>7. CASE UNCHANGED vars
  BY <1>7 DEF vars, Waiting
<1> QED
  BY <1>1, <1>2, <1>3, <1>4, <1>5, <1>6, <1>7 DEF Next

LEMMA WaitingInitially == Init => Sent /\ Waiting
  BY DEF Init, Sent, Waiting

\* Whatever the number of threads and however they interleave, the shared remainder is
\* empty when no list of DiDs is being parsed (did_string_remainder, coherentize_dids).
THEOREM NothingStays == Spec => []NothingLeftOver
<1>1. Waiting => NothingLeftOver
  BY DEF Waiting, NothingLeftOver
<1> QED
  BY <1>1, TypeInvInitially, TypeInvInductive, WaitingInitially, SentInductive,
     WaitingInductive, PTL DEF Spec

--------------------------------------------------------------------------------
(* The entries of a list of DiDs *)

\* Two lists of DiDs are never parsed at the same time.
OneAtATime == \A t, u \in Threads : pc[t] = "dids" /\ pc[u] = "dids" => t = u

\* The records of the lines parsed so far, each from its last character on.
Records(ns, n) == [i \in 1 .. n |-> Record(ns[i])]
Ended(p) == (p + 1) \div 5
LineOf(p) == p \div 5
PlaceOf(p) == p % 5
\* Position p is at place j of line k + 1.
IsAt(p, k, j) == p \in Nat /\ k \in Nat /\ j \in 0 .. 5 /\ p = 5 * k + j
Gathered(t) == target[t] = Records(names[t], Ended(pos[t]))

\* What of the record at the thread's place has been set aside.
At(ns, p) == Held(ns[LineOf(p) + 1], PlaceOf(p))
Aside(t) == At(names[t], pos[t])

Reassembling ==
  ~ refused =>
    \A t \in Threads :
      /\ kind[t] = "dids" => Gathered(t)
      /\ pc[t] = "dids" => did_string_remainder = Aside(t)

LEMMA NoRecords ==
  ASSUME NEW ns
  PROVE  Records(ns, 0) = <<>>
  BY DEF Records

LEMMA OneMoreRecord ==
  ASSUME NEW ns \in Seq(Names), NEW k \in 0 .. Len(ns) - 1
  PROVE  Append(Records(ns, k), Record(ns[k + 1])) = Records(ns, k + 1)
<1> DEFINE S == Seq(Characters)
           R(i) == Record(ns[i])
<1>1. \A i \in 1 .. Len(ns) : R(i) \in S
  BY RecordIs
<1>2. k \in Nat /\ k + 1 \in Nat /\ k + 1 \in 1 .. Len(ns)
      /\ \A i \in 1 .. k + 1 : i \in 1 .. Len(ns)
  OBVIOUS
<1> HIDE DEF S, R
<1> DEFINE few == [i \in 1 .. k |-> R(i)]
           more == [i \in 1 .. k + 1 |-> R(i)]
<1>3. few \in [1 .. k -> S] /\ more \in [1 .. k + 1 -> S]
  BY <1>1, <1>2
<1>4. few \in Seq(S) /\ Len(few) = k /\ more \in Seq(S) /\ Len(more) = k + 1
  BY <1>2, <1>3
<1>5. /\ \A i \in 1 .. k : few[i] = R(i)
      /\ \A i \in 1 .. k + 1 : more[i] = R(i)
  OBVIOUS
<1> HIDE DEF few, more
<1>6. R(k + 1) \in S
  BY <1>1, <1>2
<1> DEFINE appended == Append(few, R(k + 1))
<1>7. /\ appended \in Seq(S)
      /\ Len(appended) = k + 1
      /\ \A i \in 1 .. k : appended[i] = few[i]
      /\ appended[k + 1] = R(k + 1)
  BY <1>2, <1>4, <1>6
<1> HIDE DEF appended
<1>8. \A i \in 1 .. k + 1 : appended[i] = more[i]
  <2> TAKE i \in 1 .. k + 1
  <2>1. i = k + 1 \/ i \in 1 .. k
    BY <1>2
  <2> QED
    BY <1>5, <1>7, <2>1
<1>9. appended = more
  BY <1>4, <1>7, <1>8, SeqEqual
<1> QED
  BY <1>9 DEF Records, appended, more, few, R

LEMMA PositionIsNat ==
  ASSUME NEW k \in Nat, NEW j \in 0 .. 5
  PROVE  5 * k + j \in Nat
  OBVIOUS

\* The lines that have ended, or lack only their newline, at place j of line k + 1; and
\* what is held there.
LEMMA LinesParsed ==
  ASSUME NEW p, NEW k, NEW j, IsAt(p, k, j)
  PROVE  /\ Ended(p) = IF j >= 4 THEN k + 1 ELSE k
         /\ j # 5 => LineOf(p) = k /\ PlaceOf(p) = j
         /\ j = 5 => PlaceOf(p) = 0
<1> USE DEF IsAt
<1>1. CASE j \in 0 .. 3
  <2>1. j + 1 \in 0 .. 4 /\ j \in 0 .. 4 /\ p + 1 = 5 * k + (j + 1)
    BY <1>1
  <2>2. Ended(p) = k
    <3>1. (5 * k + (j + 1)) \div 5 = k
      BY <2>1, FiveToALine
    <3> QED
      BY <2>1, <3>1 DEF Ended
  <2>3. LineOf(p) = k /\ PlaceOf(p) = j
    BY <2>1, FiveToALine DEF LineOf, PlaceOf
  <2> QED
    BY <1>1, <2>2, <2>3
<1>2. CASE j = 4
  <2>1. k + 1 \in Nat /\ 0 \in 0 .. 4 /\ 4 \in 0 .. 4
        /\ p + 1 = 5 * (k + 1) + 0 /\ p = 5 * k + 4
    BY <1>2
  <2>2. Ended(p) = k + 1
    <3>1. (5 * (k + 1) + 0) \div 5 = k + 1
      BY <2>1, FiveToALine
    <3> QED
      BY <2>1, <3>1 DEF Ended
  <2>3. LineOf(p) = k /\ PlaceOf(p) = 4
    <3>1. (5 * k + 4) \div 5 = k /\ (5 * k + 4) % 5 = 4
      BY <2>1, FiveToALine
    <3> QED
      BY <2>1, <3>1 DEF LineOf, PlaceOf
  <2> QED
    BY <1>2, <2>2, <2>3
<1>3. CASE j = 5
  <2>1. k + 1 \in Nat /\ 0 \in 0 .. 4 /\ 1 \in 0 .. 4
        /\ p + 1 = 5 * (k + 1) + 1 /\ p = 5 * (k + 1) + 0
    BY <1>3
  <2>2. Ended(p) = k + 1
    <3>1. (5 * (k + 1) + 1) \div 5 = k + 1
      BY <2>1, FiveToALine
    <3> QED
      BY <2>1, <3>1 DEF Ended
  <2>3. PlaceOf(p) = 0
    <3>1. (5 * (k + 1) + 0) % 5 = 0
      BY <2>1, FiveToALine
    <3> QED
      BY <2>1, <3>1 DEF PlaceOf
  <2> QED
    BY <1>3, <2>2, <2>3
<1> QED
  BY <1>1, <1>2, <1>3

LEMMA HeldAt ==
  ASSUME NEW ns, NEW p, NEW k, NEW j, IsAt(p, k, j)
  PROVE  /\ Ended(p) = IF j >= 4 THEN k + 1 ELSE k
         /\ At(ns, p) = Held(ns[k + 1], j)
<1>1. /\ Ended(p) = IF j >= 4 THEN k + 1 ELSE k
      /\ j # 5 => LineOf(p) = k /\ PlaceOf(p) = j
      /\ j = 5 => PlaceOf(p) = 0
  BY LinesParsed
<1>2. CASE j = 5
  <2>1. At(ns, p) = <<>> /\ Held(ns[k + 1], j) = <<>>
    BY <1>1, <1>2 DEF At, Held
  <2> QED
    BY <1>1, <2>1
<1>3. CASE j # 5
  <2>1. At(ns, p) = Held(ns[k + 1], j)
    BY <1>1, <1>3 DEF At
  <2> QED
    BY <1>1, <2>1
<1> QED
  BY <1>2, <1>3

LEMMA RecordNotEmpty ==
  ASSUME NEW n
  PROVE  Record(n) # <<>>
  BY DEF Record

LEMMA ReassemblingInductive ==
  TypeInv /\ Sent /\ Waiting /\ Reassembling /\ OneAtATime /\ OneAtATime' /\ [Next]_vars
    => Reassembling'
<1> SUFFICES ASSUME TypeInv, Sent, Waiting, Reassembling, OneAtATime, OneAtATime',
                    [Next]_vars, ~ refused'
             PROVE  \A t \in Threads :
                      /\ kind'[t] = "dids" => Gathered(t)'
                      /\ pc'[t] = "dids" => did_string_remainder' = Aside(t)'
  BY DEF Reassembling
<1> USE DEF TypeInv, Typed
<1>1. \A t \in Threads : ~ ReceiveErrorPage(t)
  BY DEF ReceiveErrorPage
<1>2. ASSUME NEW t \in Threads, ReceiveDids(t), NEW u \in Threads
      PROVE  /\ kind'[u] = "dids" => Gathered(u)'
             /\ pc'[u] = "dids" => did_string_remainder' = Aside(u)'
  <2>1. PICK ns : Deliver(t, "dids", ns, DidResponse(ns))
    BY <1>2 DEF ReceiveDids
  <2>2. /\ pc[t] = "idle" /\ pc'[t] = "dids" /\ pos'[t] = 0 /\ target'[t] = <<>>
        /\ ~ refused /\ did_string_remainder' = did_string_remainder
    BY <1>2, <2>1 DEF ReceiveDids, Deliver
  <2>3. \A v \in Threads \ {t} : /\ pc'[v] = pc[v] /\ kind'[v] = kind[v] /\ pos'[v] = pos[v]
                                  /\ target'[v] = target[v] /\ names'[v] = names[v]
    BY <2>1 DEF Deliver
  <2>4. ASSUME NEW v \in Threads
        PROVE  pc[v] # "dids"
    <3>1. v # t => pc'[v] # "dids"
      BY <2>2, Zenon DEF OneAtATime
    <3> QED
      BY <2>2, <2>3, <3>1
  <2>5. did_string_remainder = <<>>
    BY <2>2, <2>4 DEF Waiting
  <2>6. CASE u = t
    <3>1. Ended(0) = 0 /\ At(names'[t], 0) = <<>>
      <4>1. IsAt(0, 0, 0) /\ ~ (0 >= 4)
        BY DEF IsAt
      <4>2. Ended(0) = 0 /\ At(names'[t], 0) = Held(names'[t][0 + 1], 0)
        BY <4>1, HeldAt
      <4> QED
        BY <4>2 DEF Held
    <3>2. Gathered(t)'
      BY <2>2, <3>1, NoRecords DEF Gathered
    <3>3. Aside(t)' = <<>>
      BY <2>2, <3>1 DEF Aside
    <3> QED
      BY <2>2, <2>5, <2>6, <3>2, <3>3
  <2>7. CASE u # t
    BY <2>2, <2>3, <2>4, <2>7 DEF Gathered, Reassembling
  <2> QED
    BY <2>6, <2>7
<1>3. ASSUME NEW t \in Threads, ReceiveScopes(t), NEW u \in Threads
      PROVE  /\ kind'[u] = "dids" => Gathered(u)'
             /\ pc'[u] = "dids" => did_string_remainder' = Aside(u)'
  <2>1. /\ kind'[t] = "scopes" /\ pc'[t] = "scopes"
        /\ ~ refused /\ did_string_remainder' = did_string_remainder
        /\ \A v \in Threads \ {t} : /\ pc'[v] = pc[v] /\ kind'[v] = kind[v] /\ pos'[v] = pos[v]
                                    /\ target'[v] = target[v] /\ names'[v] = names[v]
    BY <1>3 DEF ReceiveScopes, Deliver
  <2> QED
    BY <2>1 DEF Gathered, Aside, Reassembling
<1>4. ASSUME NEW t \in Threads, ParsePiece(t), NEW u \in Threads
      PROVE  /\ kind'[u] = "dids" => Gathered(u)'
             /\ pc'[u] = "dids" => did_string_remainder' = Aside(u)'
  <2>1. /\ ~ refused /\ pc[t] = "dids" /\ kind[t] = "dids"
        /\ pc' = pc /\ kind' = kind /\ names' = names
    BY <1>4 DEF ParsePiece, Sent
  <2>2. \A v \in Threads \ {t} : /\ pos'[v] = pos[v] /\ target'[v] = target[v] /\ pc[v] # "dids"
    BY <1>4, <2>1 DEF ParsePiece, OneAtATime
  <2>3. CASE u # t
    BY <2>1, <2>2, <2>3 DEF Gathered, Reassembling
  <2>4. CASE u = t
    <3>1. PICK k \in 0 .. Len(names[t]) - 1, r \in 0 .. 4 : \E j \in r + 1 .. 5 :
             /\ names[t][k + 1] \in Names
             /\ pos[t] = 5 * k + r
             /\ pos'[t] = 5 * k + j
             /\ Piece(t) = Part(names[t][k + 1], r, j)
      BY <1>4, <2>1, PieceOfLine
    <3>2. PICK j \in r + 1 .. 5 :
             /\ names[t][k + 1] \in Names
             /\ pos[t] = 5 * k + r
             /\ pos'[t] = 5 * k + j
             /\ Piece(t) = Part(names[t][k + 1], r, j)
      BY <3>1
    <3> DEFINE n == names[t][k + 1]
               merged == coherentize_dids(Part(n, r, j), Held(n, r))
    <3>3. k \in Nat /\ k + 1 \in Nat /\ names[t] \in Seq(Names)
      OBVIOUS
    <3> DEFINE p == pos[t]
               q == pos'[t]
               ns == names[t]
    <3>4. /\ r \in 0 .. 5 /\ j \in 0 .. 5 /\ p = 5 * k + r /\ q = 5 * k + j
          /\ IsAt(p, k, r) /\ IsAt(q, k, j)
          /\ ns \in Seq(Names) /\ k \in 0 .. Len(ns) - 1
      <4>1. r \in 0 .. 5 /\ j \in 0 .. 5
        OBVIOUS
      <4>2. p = 5 * k + r /\ q = 5 * k + j
        BY <3>2, Zenon
      <4> HIDE DEF p, q
      <4>3. IsAt(p, k, r) /\ IsAt(q, k, j)
        <5>1. 5 * k + r \in Nat /\ 5 * k + j \in Nat
          BY <3>3, <4>1, PositionIsNat, Zenon
        <5>2. p \in Nat /\ q \in Nat
          BY <4>2, <5>1, Zenon
        <5> QED
          BY <3>3, <4>1, <4>2, <5>2, Zenon DEF IsAt
      <4>4. ns \in Seq(Names) /\ k \in 0 .. Len(ns) - 1
        BY <3>3
      <4> QED
        BY <4>1, <4>2, <4>3, <4>4, Zenon
    <3> HIDE DEF p, q, ns
    <3>5. did_string_remainder = Held(n, r)
      <4>1. did_string_remainder = At(names[t], pos[t])
        BY <2>1 DEF Reassembling, Aside
      <4>2. At(ns, p) = Held(ns[k + 1], r)
        BY <3>4, HeldAt
      <4> QED
        BY <4>1, <4>2 DEF p, ns
    <3>6. merged.rem = Held(n, j) /\ merged.string = IF r < 4 /\ j >= 4 THEN Record(n) ELSE <<>>
      BY <3>2, Merge
    <3>7. did_string_remainder' = merged.rem
      BY <1>4, <3>2, <3>5 DEF ParsePiece
    <3>8. target'[t] = IF merged.string = <<>> THEN target[t] ELSE Append(target[t], merged.string)
      BY <1>4, <3>2, <3>5 DEF ParsePiece
    <3> HIDE DEF merged
    <3>9. target'[t] = IF r < 4 /\ j >= 4 THEN Append(target[t], Record(n)) ELSE target[t]
      BY <3>6, <3>8, RecordNotEmpty
    <3>10. did_string_remainder' = Aside(t)'
      <4>1. At(ns, q) = Held(ns[k + 1], j)
        BY <3>4, HeldAt
      <4> QED
        BY <2>1, <3>6, <3>7, <4>1 DEF Aside, q, ns
    <3>11. Gathered(t)'
      <4>1. target[t] = Records(names[t], Ended(pos[t]))
        BY <2>1 DEF Reassembling, Gathered
      <4>2. Ended(p) = IF r >= 4 THEN k + 1 ELSE k
        BY <3>4, HeldAt
      <4>3. Ended(q) = IF j >= 4 THEN k + 1 ELSE k
        BY <3>4, HeldAt
      <4>4. Append(Records(ns, k), Record(ns[k + 1])) = Records(ns, k + 1)
        BY <3>4, OneMoreRecord
      <4>5. target[t] = IF r >= 4 THEN Records(ns, k + 1) ELSE Records(ns, k)
        BY <4>1, <4>2 DEF p, ns
      <4>6. \/ r < 4 /\ j >= 4 /\ ~ (r >= 4)
            \/ ~ (r < 4 /\ j >= 4) /\ (r >= 4 <=> j >= 4)
        OBVIOUS
      <4>7. Record(n) = Record(ns[k + 1])
        BY DEF ns
      <4>8. target'[t] = IF j >= 4 THEN Records(ns, k + 1) ELSE Records(ns, k)
        BY <3>9, <4>4, <4>5, <4>6, <4>7
      <4>9. names'[t] = ns
        BY <2>1 DEF ns
      <4> QED
        BY <4>3, <4>8, <4>9 DEF Gathered, q
    <3> QED
      BY <2>4, <3>10, <3>11
  <2> QED
    BY <2>3, <2>4
<1>5. ASSUME NEW t \in Threads, TokenizeChunk(t), NEW u \in Threads
      PROVE  /\ kind'[u] = "dids" => Gathered(u)'
             /\ pc'[u] = "dids" => did_string_remainder' = Aside(u)'
  <2>1. /\ pc[t] = "scopes" /\ kind[t] = "scopes" /\ pc'[t] \in {"scopes", "aborted"}
        /\ kind' = kind /\ names' = names
        /\ ~ refused /\ did_string_remainder' = did_string_remainder
        /\ \A v \in Threads \ {t} : /\ pc'[v] = pc[v] /\ pos'[v] = pos[v] /\ target'[v] = target[v]
    BY <1>5 DEF TokenizeChunk, Sent
  <2> QED
    BY <2>1 DEF Gathered, Aside, Reassembling
<1>6. ASSUME NEW t \in Threads, Finish(t), NEW u \in Threads
      PROVE  /\ kind'[u] = "dids" => Gathered(u)'
             /\ pc'[u] = "dids" => did_string_remainder' = Aside(u)'
  <2>1. /\ pc'[t] = "done" /\ \A v \in Threads \ {t} : pc'[v] = pc[v]
        /\ ~ refused
        /\ UNCHANGED <<kind, names, pos, target, did_string_remainder>>
    BY <1>6 DEF Finish
  <2> QED
    BY <2>1 DEF Gathered, Aside, Reassembling
<1>7. ASSUME NEW t \in Threads, Return(t), NEW u \in Threads
      PROVE  /\ kind'[u] = "dids" => Gathered(u)'
             /\ pc'[u] = "dids" => did_string_remainder' = Aside(u)'
  <2>1. /\ kind'[t] = "none" /\ pc'[t] = "idle"
        /\ ~ refused /\ did_string_remainder' = did_string_remainder
        /\ \A v \in Threads \ {t} : /\ pc'[v] = pc[v] /\ kind'[v] = kind[v] /\ pos'[v] = pos[v]
                                    /\ target'[v] = target[v] /\ names'[v] = names[v]
    BY <1>7 DEF Return
  <2> QED
    BY <2>1 DEF Gathered, Aside, Reassembling
<1>8. ASSUME UNCHANGED vars, NEW u \in Threads
      PROVE  /\ kind'[u] = "dids" => Gathered(u)'
             /\ pc'[u] = "dids" => did_string_remainder' = Aside(u)'
  BY <1>8 DEF vars, Gathered, Aside, Reassembling
<1> QED
  BY <1>1, <1>2, <1>3, <1>4, <1>5, <1>6, <1>7, <1>8 DEF Next

LEMMA GatheredIsReassembled == TypeInv /\ Sent /\ Reassembling => Reassembled
<1> SUFFICES ASSUME TypeInv, Sent, Reassembling, ~ refused,
                    NEW t \in Threads, pc[t] = "done", kind[t] = "dids"
             PROVE  target[t] = [i \in 1 .. Len(names[t]) |-> Record(names[t][i])]
  BY DEF Reassembled
<1> DEFINE n == Len(names[t])
<1>1. names[t] \in Seq(Names) /\ n \in Nat
  BY DEF TypeInv, Typed
<1>2. pos[t] = 5 * n
  BY <1>1, DidResponseIs DEF Sent
<1>3. pos[t] + 1 = 5 * n + 1 /\ 1 \in 0 .. 4
  BY <1>1, <1>2
<1>4. (pos[t] + 1) \div 5 = n
  BY <1>1, <1>3, FiveToALine
<1>5. target[t] = Records(names[t], (pos[t] + 1) \div 5)
  BY DEF Reassembling, Gathered, Ended
<1> QED
  BY <1>4, <1>5 DEF Records

LEMMA ReassemblingInitially == Init => Reassembling
  BY DEF Init, Reassembling

\* As long as two lists of DiDs are not parsed at the same time, the strings of each are
\* the records the server sent, in order, however long the list and wherever its chunks
\* are cut, in lists that follow each other on any threads (coherentize_dids).
THEOREM Merged == Spec /\ []OneAtATime => []Reassembled
  BY TypeInvInitially, TypeInvInductive, WaitingInitially, SentInductive, WaitingInductive,
     ReassemblingInitially, ReassemblingInductive, GatheredIsReassembled, PTL DEF Spec

--------------------------------------------------------------------------------
(* The entries of a list of scopes *)

Texts(ns) == [i \in 1 .. Len(ns) |-> Text(ns[i])]

\* Where item k of n ends.
ItemEnd(n, k) == IF k = n THEN 3 * n - 1 ELSE 3 * k

LEMMA ItemEndsGrow ==
  ASSUME NEW n \in Nat, NEW k \in 1 .. n, NEW m \in 1 .. n
  PROVE  /\ ItemEnd(n, k) \in 1 .. 3 * n - 1
         /\ ItemEnd(n, m) <= ItemEnd(n, k) <=> m <= k
         /\ ItemEnd(n, m) < ItemEnd(n, k) <=> m < k
         /\ ItemEnd(n, m) = ItemEnd(n, k) <=> m = k
  BY DEF ItemEnd

LEMMA EndsOfItems ==
  ASSUME NEW ns \in Seq(Names)
  PROVE  Ends(Items(ns)) = {ItemEnd(Len(ns), k) : k \in 1 .. Len(ns)}
<1> DEFINE n == Len(ns)
           text == Items(ns)
<1>1. n \in Nat
  OBVIOUS
<1>2. /\ Len(text) = IF n = 0 THEN 0 ELSE 3 * n - 1
      /\ \A k \in 0 .. n - 1, j \in 1 .. 3 :
           3 * k + j < 3 * n => (text[3 * k + j] = Comma <=> j = 3)
  <2>1. \A k \in 0 .. n - 1 : ns[k + 1] \in Names
    OBVIOUS
  <2>2. \A k \in 0 .. n - 1, j \in 1 .. 3 : Item(ns[k + 1])[j] = Comma <=> j = 3
    BY <2>1, ItemIs
  <2>3. /\ Len(text) = IF n = 0 THEN 0 ELSE 3 * n - 1
        /\ \A k \in 0 .. n - 1, j \in 1 .. 3 :
             3 * k + j < 3 * n => text[3 * k + j] = Item(ns[k + 1])[j]
    BY ItemsAre
  <2> HIDE DEF n, text
  <2>4. ASSUME NEW k \in 0 .. n - 1, NEW j \in 1 .. 3, 3 * k + j < 3 * n
        PROVE  text[3 * k + j] = Comma <=> j = 3
    <3>1. text[3 * k + j] = Item(ns[k + 1])[j]
      BY <2>3, <2>4, Zenon
    <3>2. Item(ns[k + 1])[j] = Comma <=> j = 3
      BY <2>2, Zenon
    <3> QED
      BY <3>1, <3>2, Zenon
  <2> QED
    BY <2>3, <2>4
<1> HIDE DEF n, text
<1>3. ASSUME NEW i \in Ends(text)
      PROVE  \E k \in 1 .. n : i = ItemEnd(n, k)
  <2>1. i \in 1 .. Len(text) /\ (text[i] = Comma \/ i = Len(text))
    BY DEF Ends
  <2>2. n # 0 /\ Len(text) = 3 * n - 1
    BY <1>2, <2>1
  <2>3. CASE i = Len(text)
    BY <1>1, <2>2, <2>3 DEF ItemEnd
  <2>4. CASE text[i] = Comma
    <3>1. i - 1 \in Nat
      BY <1>1, <2>1, <2>2
    <3>2. PICK k \in Nat, j \in 0 .. 2 : i - 1 = 3 * k + j
      BY <3>1, PlaceInItem
    <3>3. k \in 0 .. n - 1 /\ j + 1 \in 1 .. 3 /\ 3 * k + (j + 1) < 3 * n /\ i = 3 * k + (j + 1)
      BY <1>1, <2>1, <2>2, <3>2
    <3>4. j + 1 = 3
      BY <1>2, <2>4, <3>3, Zenon
    <3>5. i = 3 * (k + 1) /\ k + 1 \in 1 .. n /\ k + 1 # n
      BY <1>1, <3>2, <3>3, <3>4
    <3> QED
      BY <3>5 DEF ItemEnd
  <2> QED
    BY <2>1, <2>3, <2>4
<1>4. ASSUME NEW k \in 1 .. n
      PROVE  ItemEnd(n, k) \in Ends(text)
  <2>1. n # 0 /\ Len(text) = 3 * n - 1
    BY <1>1, <1>2
  <2>2. CASE k = n
    <3>1. ItemEnd(n, k) = 3 * n - 1 /\ 3 * n - 1 \in 1 .. 3 * n - 1
      BY <1>1, <2>1, <2>2 DEF ItemEnd
    <3> QED
      BY <2>1, <3>1 DEF Ends
  <2>3. CASE k # n
    <3>1. /\ k - 1 \in 0 .. n - 1 /\ 3 \in 1 .. 3
          /\ 3 * (k - 1) + 3 < 3 * n /\ 3 * (k - 1) + 3 \in 1 .. 3 * n - 1
      BY <1>1, <2>1, <2>3
    <3>2. text[3 * (k - 1) + 3] = Comma
      BY <1>2, <3>1, Zenon
    <3>3. ItemEnd(n, k) = 3 * (k - 1) + 3
      BY <1>1, <2>3 DEF ItemEnd
    <3> QED
      BY <2>1, <3>1, <3>2, <3>3 DEF Ends
  <2> QED
    BY <2>2, <2>3
<1>5. Ends(text) = {ItemEnd(n, k) : k \in 1 .. n}
  BY <1>3, <1>4
<1> QED
  BY <1>5 DEF n, text

\* Item k is the one with k ends up to its own.
LEMMA EndsUpTo ==
  ASSUME NEW ns \in Seq(Names), NEW k \in 1 .. Len(ns)
  PROVE  Cardinality({i \in Ends(Items(ns)) : i <= ItemEnd(Len(ns), k)}) = k
<1> DEFINE n == Len(ns)
           S == {i \in Ends(Items(ns)) : i <= ItemEnd(n, k)}
           f == [m \in 1 .. k |-> ItemEnd(n, m)]
<1>1. n \in Nat /\ k \in Nat /\ k \in 1 .. n /\ \A m \in 1 .. k : m \in 1 .. n
  OBVIOUS
<1>2. Ends(Items(ns)) = {ItemEnd(n, m) : m \in 1 .. n}
  BY EndsOfItems
<1> HIDE DEF n
<1>3. S = {ItemEnd(n, m) : m \in 1 .. k}
  <2>1. ASSUME NEW m \in 1 .. n
        PROVE  ItemEnd(n, m) <= ItemEnd(n, k) <=> m \in 1 .. k
    BY <1>1, ItemEndsGrow
  <2> QED
    BY <1>1, <1>2, <2>1
<1> HIDE DEF S
<1>4. f \in Bijection(1 .. k, S)
  <2>1. f \in [1 .. k -> S]
    BY <1>3
  <2>2. \A x, y \in 1 .. k : f[x] = f[y] => x = y
    BY <1>1, ItemEndsGrow
  <2>3. \A y \in S : \E x \in 1 .. k : f[x] = y
    BY <1>3
  <2> QED
    BY <2>1, <2>2, <2>3 DEF Bijection, Injection, Surjection, IsInjective
<1>5. ExistsBijection(1 .. k, S)
  BY <1>4 DEF ExistsBijection
<1>6. Cardinality(S) = k
  BY <1>1, <1>5, FS_CountingElements
<1> QED
  BY <1>6 DEF S, n

LEMMA NumberOfItems ==
  ASSUME NEW ns \in Seq(Names)
  PROVE  Cardinality(Ends(Items(ns))) = Len(ns)
<1>1. Len(ns) \in Nat
  OBVIOUS
<1>2. CASE Len(ns) = 0
  <2>1. 1 .. Len(ns) = {}
    BY <1>2
  <2>2. Ends(Items(ns)) = {}
    BY <2>1, EndsOfItems
  <2> QED
    BY <1>2, <2>2, FS_EmptySet
<1>3. CASE Len(ns) # 0
  <2> DEFINE n == Len(ns)
  <2>1. n \in 1 .. Len(ns) /\ n \in Nat /\ n \in 1 .. n
    BY <1>1, <1>3
  <2>2. \A i \in Ends(Items(ns)) : i <= ItemEnd(n, n)
    <3>1. Ends(Items(ns)) = {ItemEnd(n, m) : m \in 1 .. n}
      BY EndsOfItems
    <3>2. \A m \in 1 .. n : ItemEnd(n, m) <= ItemEnd(n, n)
      <4> HIDE DEF n
      <4> TAKE m \in 1 .. n
      <4>1. m <= n
        BY <2>1
      <4> QED
        BY <2>1, <4>1, ItemEndsGrow
    <3> QED
      BY <3>1, <3>2
  <2>3. {i \in Ends(Items(ns)) : i <= ItemEnd(n, n)} = Ends(Items(ns))
    BY <2>2
  <2>4. Cardinality({i \in Ends(Items(ns)) : i <= ItemEnd(n, n)}) = n
    BY <2>1, EndsUpTo
  <2> QED
    BY <2>3, <2>4
<1> QED
  BY <1>2, <1>3

LEMMA NthEndOfItems ==
  ASSUME NEW ns \in Seq(Names), NEW k \in 1 .. Len(ns)
  PROVE  NthEnd(Items(ns), k) = ItemEnd(Len(ns), k)
<1> DEFINE n == Len(ns)
           E == Ends(Items(ns))
           Nth(e) == Cardinality({i \in E : i <= e}) = k
<1>1. E = {ItemEnd(n, m) : m \in 1 .. n}
  BY EndsOfItems
<1>2. \A m \in 1 .. n : Nth(ItemEnd(n, m)) <=> m = k
  BY EndsUpTo
<1>3. ItemEnd(n, k) \in E /\ Nth(ItemEnd(n, k))
  BY <1>1, <1>2
<1>4. \A e \in E : Nth(e) => e = ItemEnd(n, k)
  BY <1>1, <1>2
<1>5. NthEnd(Items(ns), k) = CHOOSE e \in E : Nth(e)
  BY DEF NthEnd
<1> HIDE DEF E, Nth, n
<1>6. (CHOOSE e \in E : Nth(e)) = ItemEnd(n, k)
  BY <1>3, <1>4
<1> QED
  BY <1>5, <1>6 DEF n

LEMMA FromOfItems ==
  ASSUME NEW ns \in Seq(Names), NEW k \in 1 .. Len(ns)
  PROVE  From(Items(ns), ItemEnd(Len(ns), k)) = 3 * (k - 1) + 1
<1> DEFINE n == Len(ns)
           S == {0} \cup {i \in Ends(Items(ns)) : i < ItemEnd(n, k)}
<1>1. n \in Nat /\ k \in 1 .. n
  OBVIOUS
<1>2. Ends(Items(ns)) = {ItemEnd(n, m) : m \in 1 .. n}
  BY EndsOfItems
<1>3. From(Items(ns), ItemEnd(n, k)) = 1 + Max(S)
  BY DEF From
<1> HIDE DEF n
<1>4. 3 * (k - 1) \in S
  <2>1. CASE k = 1
    BY <2>1
  <2>2. CASE k # 1
    <3>1. k - 1 \in 1 .. n /\ k - 1 < k /\ k - 1 # n
      BY <1>1, <2>2
    <3>2. ItemEnd(n, k - 1) = 3 * (k - 1)
      BY <3>1 DEF ItemEnd
    <3>3. ItemEnd(n, k - 1) < ItemEnd(n, k)
      BY <1>1, <3>1, ItemEndsGrow
    <3> QED
      BY <1>2, <3>1, <3>2, <3>3
  <2> QED
    BY <2>1, <2>2
<1>5. \A i \in S : i \in Int /\ i <= 3 * (k - 1)
  <2> SUFFICES ASSUME NEW m \in 1 .. n, ItemEnd(n, m) < ItemEnd(n, k)
               PROVE  ItemEnd(n, m) \in Int /\ ItemEnd(n, m) <= 3 * (k - 1)
    BY <1>1, <1>2
  <2>1. m < k
    BY <1>1, ItemEndsGrow
  <2>2. m # n /\ m <= k - 1
    BY <1>1, <2>1
  <2> QED
    BY <1>1, <2>2 DEF ItemEnd
<1> HIDE DEF S
<1> DEFINE top == 3 * (k - 1)
<1>6. top \in S /\ \A i \in S : top >= i
  BY <1>1, <1>4, <1>5
<1>7. \A x \in S : (\A y \in S : x >= y) => x = top
  BY <1>1, <1>5, <1>6
<1> HIDE DEF top
<1>8. Max(S) = top
  BY <1>6, <1>7 DEF Max
<1> QED
  BY <1>1, <1>3, <1>8 DEF top, n

LEMMA ItemText ==
  ASSUME NEW ns \in Seq(Names), NEW k \in 1 .. Len(ns)
  PROVE  Upto(Items(ns), 3 * (k - 1) + 1, ItemEnd(Len(ns), k), Comma) = Text(ns[k])
<1> DEFINE n == Len(ns)
           text == Items(ns)
           item == Item(ns[k])
           from == 3 * (k - 1) + 1
           to == 3 * (k - 1) + 2
<1>1. n \in Nat /\ k \in 1 .. n /\ ns[k] \in Names /\ k - 1 \in 0 .. n - 1 /\ (k - 1) + 1 = k
  OBVIOUS
<1>2. /\ item[1] = Letter(ns[k], 1) /\ item[2] = Letter(ns[k], 2) /\ item[3] = Comma
      /\ item[2] # Comma
  <2>1. Letter(ns[k], 2) # Comma
    BY <1>1, LetterIs
  <2> QED
    BY <1>1, <2>1, ItemIs
<1>3. /\ text \in Seq(Characters)
      /\ Len(text) = 3 * n - 1
      /\ \A j \in 1 .. 3 : 3 * (k - 1) + j < 3 * n => text[3 * (k - 1) + j] = item[j]
  <2>1. /\ text \in Seq(Characters)
        /\ Len(text) = IF n = 0 THEN 0 ELSE 3 * n - 1
        /\ \A i \in 0 .. n - 1, j \in 1 .. 3 :
             3 * i + j < 3 * n => text[3 * i + j] = Item(ns[i + 1])[j]
    BY ItemsAre
  <2>2. n # 0
    BY <1>1
  <2>3. \A j \in 1 .. 3 :
          3 * (k - 1) + j < 3 * n => text[3 * (k - 1) + j] = Item(ns[(k - 1) + 1])[j]
    BY <1>1, <2>1, Zenon
  <2> QED
    BY <1>1, <2>1, <2>2, <2>3
<1> HIDE DEF n, text, item
<1>4. text[from] = Letter(ns[k], 1) /\ text[to] = Letter(ns[k], 2)
  <2>1. /\ 1 \in 1 .. 3 /\ 2 \in 1 .. 3
        /\ 3 * (k - 1) + 1 < 3 * n /\ 3 * (k - 1) + 2 < 3 * n
    BY <1>1
  <2> QED
    BY <1>2, <1>3, <2>1, Zenon
<1>5. Upto(text, from, ItemEnd(n, k), Comma) = SubSeq(text, from, to)
  <2>1. CASE k = n
    <3>1. ItemEnd(n, k) = to
      BY <1>1, <2>1 DEF ItemEnd
    <3>2. text[to] # Comma
      BY <1>2, <1>4
    <3> QED
      BY <3>1, <3>2 DEF Upto
  <2>2. CASE k # n
    <3>1. /\ ItemEnd(n, k) = 3 * (k - 1) + 3 /\ ItemEnd(n, k) - 1 = to
          /\ 3 \in 1 .. 3 /\ 3 * (k - 1) + 3 < 3 * n
      BY <1>1, <2>2 DEF ItemEnd
    <3>2. text[3 * (k - 1) + 3] = Comma
      BY <1>2, <1>3, <3>1, Zenon
    <3> QED
      BY <3>1, <3>2 DEF Upto
  <2> QED
    BY <2>1, <2>2
<1>6. SubSeq(text, from, to) = Text(ns[k])
  <2> DEFINE all == 3 * n - 1
             sub == SubSeq(text, from, to)
  <2>1. /\ all \in Nat /\ from \in 1 .. all + 1 /\ to \in from - 1 .. all
        /\ to - from + 1 = 2 /\ 1 + from - 1 = from /\ 2 + from - 1 = to
    BY <1>1
  <2>2. Len(text) = all
    BY <1>3
  <2> HIDE DEF all, from, to
  <2>3. /\ sub \in Seq(Characters)
        /\ Len(sub) = to - from + 1
        /\ \A m \in 1 .. to - from + 1 : sub[m] = text[m + from - 1]
    BY <1>3, <2>1, <2>2, PartIs
  <2> HIDE DEF sub
  <2>4. sub \in [1 .. 2 -> Characters] /\ sub[1] = text[from] /\ sub[2] = text[to]
    <3>1. sub \in [1 .. 2 -> Characters]
      <4>1. sub \in Seq(Characters)
        BY <2>3
      <4>2. Len(sub) = 2
        BY <2>1, <2>3, Zenon
      <4>3. sub \in [1 .. Len(sub) -> Characters]
        BY <4>1, LenProperties
      <4> QED
        BY <4>2, <4>3, Zenon
    <3>2. 1 \in 1 .. to - from + 1 /\ 2 \in 1 .. to - from + 1
      BY <2>1
    <3>3. sub[1] = text[1 + from - 1] /\ sub[2] = text[2 + from - 1]
      BY <2>3, <3>2, Zenon
    <3> QED
      BY <2>1, <3>1, <3>3
  <2>5. /\ Text(ns[k]) \in [1 .. 2 -> Characters]
        /\ Text(ns[k])[1] = Letter(ns[k], 1) /\ Text(ns[k])[2] = Letter(ns[k], 2)
    <3>1. Letter(ns[k], 1) \in Characters
      BY <1>1, LetterIs
    <3>2. Letter(ns[k], 2) \in Characters
      BY <1>1, LetterIs
    <3> QED
      BY <3>1, <3>2 DEF Text
  <2>6. \A m \in 1 .. 2 : sub[m] = Text(ns[k])[m]
    <3>1. \A m \in 1 .. 2 : m = 1 \/ m = 2
      OBVIOUS
    <3> QED
      BY <1>4, <2>4, <2>5, <3>1
  <2>7. sub = Text(ns[k])
    BY <2>4, <2>5, <2>6
  <2> QED
    BY <2>7 DEF sub
<1> QED
  BY <1>5, <1>6 DEF n, text

LEMMA ElementsOfItems ==
  ASSUME NEW ns \in Seq(Names)
  PROVE  Elements(Items(ns)) = Texts(ns)
<1> DEFINE n == Len(ns)
           text == Items(ns)
<1>1. Cardinality(Ends(text)) = n
  BY NumberOfItems
<1>2. \A k \in 1 .. n : Upto(text, From(text, NthEnd(text, k)), NthEnd(text, k), Comma) = Text(ns[k])
  BY NthEndOfItems, FromOfItems, ItemText
<1> QED
  BY <1>1, <1>2 DEF Elements, Texts

\* A list of scopes in one chunk, before and after its chunk.
Scoped ==
  \A t \in Threads :
    kind[t] = "scopes" /\ cuts[t] = {} =>
      /\ pc[t] # "aborted"
      /\ pc[t] = "scopes" => \/ pos[t] = 0 /\ target[t] = <<>>
                             \/ pos[t] = Len(response[t]) /\ target[t] = Texts(names[t])
      /\ pc[t] = "done" => target[t] = Texts(names[t])

LEMMA ChunkOfScopes ==
  ASSUME TypeInv, Sent, NEW t \in Threads, kind[t] = "scopes", cuts[t] = {}, pos[t] = 0
  PROVE  LET chunk == SubSeq(response[t], pos[t] + 1, ChunkEnd(t)) IN
         /\ Len(response[t]) # 0
         /\ ChunkEnd(t) = Len(response[t])
         /\ Len(chunk) # 1
         /\ Elements(Inner(chunk)) = Texts(names[t])
<1> DEFINE ns == names[t]
           text == response[t]
           n == Len(Items(ns))
<1>1. ns \in Seq(Names) /\ text = ScopeResponse(ns) /\ text \in Seq(Characters)
  BY DEF TypeInv, Typed, Sent
<1>2. n \in Nat /\ Len(text) = n + 2 /\ SubSeq(text, 2, n + 1) = Items(ns)
  BY <1>1, ItemsAre, ScopeResponseIs
<1> HIDE DEF n
<1>3. ChunkEnd(t) = Len(text)
  <2> DEFINE S == {i \in cuts[t] \cup {Len(text)} : i > pos[t]}
  <2>1. S = {Len(text)} /\ S \subseteq Nat
    BY <1>2
  <2> HIDE DEF S
  <2>2. Min(S) = Len(text)
    BY <2>1, LeastExists
  <2> QED
    BY <2>2 DEF ChunkEnd, S
<1>4. SubSeq(text, pos[t] + 1, ChunkEnd(t)) = text
  BY <1>1, <1>3, SubSeqFull
<1>5. Len(text) # 1 /\ Len(text) # 0 /\ Len(text) - 1 = n + 1
  BY <1>2
<1>6. Inner(text) = Items(ns)
  BY <1>2, <1>5 DEF Inner
<1> QED
  BY <1>1, <1>3, <1>4, <1>5, <1>6, ElementsOfItems

LEMMA ScopedInductive == TypeInv /\ Sent /\ Scoped /\ [Next]_vars => Scoped'
<1> SUFFICES ASSUME TypeInv, Sent, Scoped, [Next]_vars
             PROVE  Scoped'
  OBVIOUS
<1> USE DEF TypeInv, Typed
<1>1. ASSUME NEW t \in Threads, \/ ReceiveDids(t)
                                \/ ReceiveErrorPage(t)
      PROVE  Scoped'
  BY <1>1 DEF ReceiveDids, ReceiveErrorPage, Deliver, Scoped
<1>2. ASSUME NEW t \in Threads, ReceiveScopes(t)
      PROVE  Scoped'
  <2>1. pc'[t] = "scopes" /\ pos'[t] = 0 /\ target'[t] = <<>>
    BY <1>2 DEF ReceiveScopes, Deliver
  <2>2. \A u \in Threads \ {t} : /\ pc'[u] = pc[u] /\ kind'[u] = kind[u] /\ pos'[u] = pos[u]
                                  /\ target'[u] = target[u] /\ names'[u] = names[u]
                                  /\ response'[u] = response[u] /\ cuts'[u] = cuts[u]
    BY <1>2 DEF ReceiveScopes, Deliver
  <2> SUFFICES ASSUME NEW u \in Threads, kind'[u] = "scopes", cuts'[u] = {}
               PROVE  /\ pc'[u] # "aborted"
                      /\ pc'[u] = "scopes" =>
                           \/ pos'[u] = 0 /\ target'[u] = <<>>
                           \/ pos'[u] = Len(response'[u]) /\ target'[u] = Texts(names'[u])
                      /\ pc'[u] = "done" => target'[u] = Texts(names'[u])
    BY Zenon DEF Scoped
  <2>3. CASE u = t
    BY <2>1, <2>3
  <2>4. CASE u # t
    <3>1. kind[u] = "scopes" /\ cuts[u] = {}
      BY <2>2, <2>4
    <3> QED
      BY <2>2, <2>4, <3>1 DEF Scoped
  <2> QED
    BY <2>3, <2>4
<1>3. ASSUME NEW t \in Threads, ParsePiece(t)
      PROVE  Scoped'
  <2>1. pc[t] = "dids" /\ kind[t] = "dids"
    BY <1>3 DEF ParsePiece, Sent
  <2>2. \A u \in Threads \ {t} : pos'[u] = pos[u] /\ target'[u] = target[u]
    BY <1>3 DEF ParsePiece
  <2> QED
    BY <1>3, <2>1, <2>2 DEF ParsePiece, Scoped
<1>4. ASSUME NEW t \in Threads, TokenizeChunk(t)
      PROVE  Scoped'
  <2> DEFINE chunk == SubSeq(response[t], pos[t] + 1, ChunkEnd(t))
  <2>1. /\ pc[t] = "scopes" /\ kind[t] = "scopes" /\ pos[t] < Len(response[t])
        /\ UNCHANGED <<kind, names, response, cuts>>
        /\ Len(response[t]) \in Nat
    BY <1>4 DEF TokenizeChunk, Sent
  <2>2. \A u \in Threads \ {t} : pc'[u] = pc[u] /\ pos'[u] = pos[u] /\ target'[u] = target[u]
    BY <1>4 DEF TokenizeChunk
  <2>3. ASSUME cuts[t] = {}
        PROVE  /\ pc'[t] = "scopes"
               /\ pos'[t] = Len(response[t])
               /\ target'[t] = Texts(names[t])
    <3>1. pos[t] = 0 /\ target[t] = <<>>
      BY <2>1, <2>3 DEF Scoped
    <3>2. /\ ChunkEnd(t) = Len(response[t])
          /\ Len(chunk) # 1
          /\ Elements(Inner(chunk)) = Texts(names[t])
      BY <2>1, <2>3, <3>1, ChunkOfScopes
    <3>3. /\ target' = [target EXCEPT ![t] = @ \o Elements(Inner(chunk))]
          /\ pos' = [pos EXCEPT ![t] = ChunkEnd(t)]
          /\ UNCHANGED pc
      BY <1>4, <3>2 DEF TokenizeChunk
    <3> HIDE DEF chunk
    <3>4. target'[t] = <<>> \o Texts(names[t])
      BY <3>1, <3>2, <3>3
    <3>5. <<>> \o Texts(names[t]) = Texts(names[t])
      <4>1. names[t] \in Seq(Names)
        OBVIOUS
      <4>2. Texts(names[t]) = Elements(Items(names[t])) /\ Items(names[t]) \in Seq(Characters)
        BY <4>1, ElementsOfItems, ItemsAre
      <4>3. IsSequence(Texts(names[t]))
        BY <4>2, ElementsTyped
      <4> QED
        BY <4>3, ConcatEmptySeq DEF IsSequence
    <3> QED
      BY <2>1, <3>2, <3>3, <3>4, <3>5
  <2> QED
    BY <2>1, <2>2, <2>3 DEF Scoped
<1>5. ASSUME NEW t \in Threads, Finish(t)
      PROVE  Scoped'
  <2>1. /\ pc[t] \in {"dids", "scopes"} /\ kind[t] = pc[t] /\ pos[t] = Len(response[t])
        /\ pc'[t] = "done" /\ \A u \in Threads \ {t} : pc'[u] = pc[u]
        /\ UNCHANGED <<kind, names, response, cuts, pos, target>>
    BY <1>5 DEF Finish, Sent
  <2>2. ASSUME kind[t] = "scopes", cuts[t] = {}
        PROVE  target[t] = Texts(names[t])
    <3>1. pos[t] # 0
      BY <2>1, <2>2, ChunkOfScopes
    <3> QED
      BY <2>1, <2>2, <3>1 DEF Scoped
  <2> QED
    BY <2>1, <2>2 DEF Scoped
<1>6. ASSUME NEW t \in Threads, Return(t)
      PROVE  Scoped'
  BY <1>6 DEF Return, Scoped
<1>7. CASE UNCHANGED vars
  BY <1>7 DEF vars, Scoped
<1> QED
  BY <1>1, <1>2, <1>3, <1>4, <1>5, <1>6, <1>7 DEF Next

LEMMA ScopedInitially == Init => Scoped
  BY DEF Init, Scoped

\* A list of scopes that arrives in one chunk is read whole, however long it is, by any
\* number of threads, and the thread that reads it never throws (tokenize_python_list).
THEOREM ScopesListed == Spec => []WholeScopesListed
<1>1. Scoped => WholeScopesListed
  BY DEF Scoped, WholeScopesListed, Texts
<1> QED
  BY <1>1, TypeInvInitially, TypeInvInductive, WaitingInitially, SentInductive,
     ScopedInitially, ScopedInductive, PTL DEF Spec

================================================================================
