------------------------------- MODULE WalkProofs -------------------------------
(******************************************************************************)
(* Proofs about what a path stands for, for any servers, any catalogue and    *)
(* names of any length: first what the path functions of utils.cpp make of a  *)
(* text, then where a walk through the tree may be.                           *)
(******************************************************************************)
EXTENDS MountProofs, SequenceTheorems, FiniteSetTheorems

Slash == Tree!Slash

\* Letters are strings of one character, and a text is a sequence of them.
Letters == STRING \cup {Slash}
Text == Seq(Letters)

--------------------------------------------------------------------------------
(* Letters, numbers, and the removal of a text *)

LEMMA NameIs ==
  ASSUME NEW n \in Tree!Name
  PROVE  /\ n \in Text /\ Len(n) \in Nat \ {0}
         /\ \A i \in 1 .. Len(n) : n[i] \in Letters /\ n[i] # Slash
<1>1. n \in Seq(STRING \ {Slash}) /\ n # <<>>
  BY DEF Tree!Name, Slash
<1> QED
  BY <1>1, SeqMonotonic DEF Text, Letters

LEMMA SlashIs ==
  Slash \in Letters /\ <<Slash>> \in Text /\ Len(<<Slash>>) = 1 /\ <<Slash>>[1] = Slash
  BY DEF Letters, Text

\* The number that Min, or Max, chooses.
LEMMA LeastIs ==
  ASSUME NEW S, S \subseteq Int, NEW x \in S, \A y \in S : x <= y
  PROVE  Tree!Min(S) = x
<1>1. \E z \in S : \A y \in S : z <= y
  OBVIOUS
<1>2. Tree!Min(S) \in S /\ Tree!Min(S) <= x /\ x <= Tree!Min(S)
  BY <1>1 DEF Tree!Min
<1>3. Tree!Min(S) \in Int
  BY <1>2
<1> QED
  BY <1>2, <1>3

LEMMA GreatestIs ==
  ASSUME NEW S, S \subseteq Int, NEW x \in S, \A y \in S : y <= x
  PROVE  Tree!Max(S) = x
<1>1. \E z \in S : \A y \in S : z >= y
  OBVIOUS
<1>2. Tree!Max(S) \in S /\ Tree!Max(S) >= x /\ x >= Tree!Max(S)
  BY <1>1 DEF Tree!Max
<1>3. Tree!Max(S) \in Int
  BY <1>2
<1> QED
  BY <1>2, <1>3

\* A text that another one begins with is found at its front, wherever else it occurs
\* (remove_substring).
LEMMA FrontRemoved ==
  ASSUME NEW s \in Text, s # <<>>, NEW r \in Text
  PROVE  Tree!remove_substring(s \o r, s) = r
<1> DEFINE p == s \o r
           found == {i \in 1 .. Len(p) - Len(s) + 1 : SubSeq(p, i, i + Len(s) - 1) = s}
<1>1. Len(s) \in Nat \ {0} /\ Len(r) \in Nat /\ p \in Text /\ Len(p) = Len(s) + Len(r)
  BY ConcatProperties, EmptySeq DEF Text
<1>2. SubSeq(p, 1, Len(s)) = s
  BY <1>1, SubSeqOfConcat1, SubSeqFull DEF Text
<1>3. 1 \in found
  BY <1>1, <1>2
<1>4. Tree!Min(found) = 1
  <2>1. found \subseteq Int /\ \A y \in found : 1 <= y
    OBVIOUS
  <2> HIDE DEF found
  <2> QED
    BY <1>3, <2>1, LeastIs
<1>5. SubSeq(p, 1 + Len(s), Len(p)) = r
  <2>1. CASE r = <<>>
    BY <1>1, <2>1, SubSeqEmpty
  <2>2. CASE r # <<>>
    BY <1>1, <2>2, SubSeqOfConcat2, SubSeqFull, EmptySeq DEF Text
  <2> QED
    BY <2>1, <2>2
<1>6. SubSeq(p, 1, 1 - 1) = <<>>
  BY SubSeqEmpty
<1>7. found # {}
  BY <1>3
<1> HIDE DEF found
<1>8. Tree!remove_substring(p, s) = SubSeq(p, 1, 1 - 1) \o SubSeq(p, 1 + Len(s), Len(p))
  BY <1>4, <1>7 DEF Tree!remove_substring, found
<1> QED
  BY <1>5, <1>6, <1>8, ConcatEmptySeq DEF Text
--------------------------------------------------------------------------------
(* Texts and names *)

\* What a text looks like that ends in a name.
Proper(p) == p \in Text /\ p # <<>> /\ p[Len(p)] # Slash

LEMMA NameIsProper ==
  ASSUME NEW n \in Tree!Name
  PROVE  Proper(n) /\ n \in Text /\ n # <<>>
  BY NameIs, EmptySeq DEF Proper, Text

\* Two texts with a slash between them.
Rooted(r) == <<Slash>> \o r
Under(n, r) == n \o (<<Slash>> \o r)

LEMMA RootedIs ==
  ASSUME NEW r \in Text
  PROVE  /\ Rooted(r) \in Text /\ Len(Rooted(r)) = Len(r) + 1 /\ Len(r) \in Nat
         /\ Rooted(r)[1] = Slash
         /\ \A i \in 1 .. Len(r) : Rooted(r)[i + 1] = r[i]
<1>1. Len(r) \in Nat /\ Len(<<Slash>>) = 1
  BY DEF Text
<1>2. /\ Rooted(r) \in Text /\ Len(Rooted(r)) = Len(<<Slash>>) + Len(r)
      /\ \A i \in 1 .. Len(<<Slash>>) + Len(r) :
           Rooted(r)[i] = IF i <= Len(<<Slash>>) THEN <<Slash>>[i] ELSE r[i - Len(<<Slash>>)]
  BY SlashIs, ConcatProperties DEF Text, Rooted
<1> QED
  BY <1>1, <1>2, SlashIs

LEMMA UnderIs ==
  ASSUME NEW n \in Text, NEW r \in Text
  PROVE  /\ Under(n, r) \in Text /\ Len(Under(n, r)) = Len(n) + 1 + Len(r)
         /\ Len(n) \in Nat /\ Len(r) \in Nat
         /\ \A i \in 1 .. Len(n) : Under(n, r)[i] = n[i]
         /\ Under(n, r)[Len(n) + 1] = Slash
         /\ \A i \in 1 .. Len(r) : Under(n, r)[Len(n) + 1 + i] = r[i]
         /\ Under(n, r) = (n \o <<Slash>>) \o r
<1> DEFINE q == Rooted(r)
<1>1. Len(n) \in Nat /\ Len(r) \in Nat
  BY DEF Text
<1>2. /\ q \in Text /\ Len(q) = Len(r) + 1 /\ q[1] = Slash
      /\ \A i \in 1 .. Len(r) : q[i + 1] = r[i]
  BY RootedIs
<1>3. Under(n, r) = n \o q
  BY DEF Under, Rooted
<1> HIDE DEF q
<1>4. /\ n \o q \in Text /\ Len(n \o q) = Len(n) + Len(q)
      /\ \A i \in 1 .. Len(n) + Len(q) : (n \o q)[i] = IF i <= Len(n) THEN n[i] ELSE q[i - Len(n)]
  BY <1>2, ConcatProperties DEF Text
<1>5. Under(n, r) = (n \o <<Slash>>) \o r
  BY SlashIs, ConcatAssociative DEF Under, Text
<1> DEFINE k == Len(n)
           m == Len(r)
<1>6. k \in Nat /\ m \in Nat
  BY <1>1
<1> HIDE DEF k, m
<1>7. \A i \in 1 .. k : (n \o q)[i] = n[i]
  BY <1>2, <1>4, <1>6 DEF k, m
<1>8. (n \o q)[k + 1] = q[1]
  BY <1>2, <1>4, <1>6 DEF k, m
<1>9. \A i \in 1 .. m : (n \o q)[k + 1 + i] = q[i + 1]
  BY <1>2, <1>4, <1>6 DEF k, m
<1> QED
  BY <1>1, <1>2, <1>3, <1>4, <1>5, <1>7, <1>8, <1>9 DEF k, m

LEMMA UnderAssociative ==
  ASSUME NEW a \in Text, NEW b \in Text, NEW c \in Text
  PROVE  Under(Under(a, b), c) = Under(a, Under(b, c))
<1> DEFINE x == <<Slash>> \o b
           y == <<Slash>> \o c
<1>1. x \in Text /\ y \in Text
  BY SlashIs, ConcatProperties DEF Text
<1>2. (a \o x) \o y = a \o (x \o y)
  <2> HIDE DEF x, y
  <2> QED
    BY <1>1, ConcatAssociative DEF Text
<1>3. x \o y = <<Slash>> \o (b \o y)
  BY <1>1, SlashIs, ConcatAssociative DEF Text
<1> QED
  BY <1>2, <1>3 DEF Under

\* A text that ends in a name still does so below another one.
LEMMA ProperUnder ==
  ASSUME NEW n \in Text, NEW r, Proper(r)
  PROVE  Proper(Under(n, r)) /\ Proper(Rooted(r))
<1>1. r \in Text /\ Len(r) \in Nat \ {0} /\ r[Len(r)] # Slash
  BY EmptySeq DEF Proper, Text
<1> DEFINE k == Len(n)
           m == Len(r)
<1>2. k \in Nat /\ m \in Nat \ {0} /\ m \in 1 .. m
  BY <1>1 DEF Text
<1> HIDE DEF k, m
<1>3. /\ Under(n, r) \in Text /\ Len(Under(n, r)) = k + 1 + m
      /\ Under(n, r)[k + 1 + m] = r[m]
  BY <1>1, <1>2, UnderIs DEF k, m
<1>4. Rooted(r) \in Text /\ Len(Rooted(r)) = m + 1 /\ Rooted(r)[m + 1] = r[m]
  BY <1>1, <1>2, RootedIs DEF k, m
<1>5. r[m] # Slash
  BY <1>1 DEF m
<1> QED
  BY <1>2, <1>3, <1>4, <1>5, EmptySeq DEF Proper, Text

--------------------------------------------------------------------------------
(* What the path functions of utils.cpp make of such texts *)

\* A name is what comes before the first slash of a text that begins with it.
LEMMA UpToFirst ==
  ASSUME NEW n \in Tree!Name, NEW r \in Text
  PROVE  Tree!UpToSlash(Under(n, r)) = n /\ Tree!UpToSlash(n) = n
<1> DEFINE p == Under(n, r)
           k == Len(n)
           slashes == {i \in 1 .. Len(p) : p[i] = Slash}
<1>1. n \in Text /\ k \in Nat \ {0} /\ \A i \in 1 .. k : n[i] # Slash
  BY NameIs
<1>2. /\ p \in Text /\ Len(p) = k + 1 + Len(r) /\ Len(r) \in Nat
      /\ \A i \in 1 .. k : p[i] = n[i]
      /\ p[k + 1] = Slash
      /\ p = n \o (<<Slash>> \o r)
  BY <1>1, UnderIs DEF Under
<1> HIDE DEF p, k
<1>3. /\ slashes \subseteq Int /\ k + 1 \in slashes /\ slashes # {}
      /\ \A i \in slashes : k + 1 <= i
  BY <1>1, <1>2
<1> HIDE DEF slashes
<1>4. Tree!Min(slashes) = k + 1
  BY <1>3, LeastIs
<1>5. SubSeq(p, 1, k) = n
  <2>1. <<Slash>> \o r \in Text
    BY SlashIs, ConcatProperties DEF Text
  <2> QED
    BY <1>1, <1>2, <2>1, SubSeqOfConcat1, SubSeqFull DEF Text, k
<1>6. Tree!UpToSlash(p) = SubSeq(p, 1, (k + 1) - 1)
  BY <1>3, <1>4 DEF Tree!UpToSlash, slashes, Slash
<1>7. (k + 1) - 1 = k
  BY <1>1
<1>8. Tree!UpToSlash(n) = n
  BY <1>1 DEF Tree!UpToSlash, k, Slash
<1> QED
  BY <1>5, <1>6, <1>7, <1>8 DEF p

LEMMA RootRemoved ==
  ASSUME NEW r \in Text
  PROVE  Tree!remove_root_path(Rooted(r)) = r
  BY SlashIs, FrontRemoved, EmptySeq
     DEF Rooted, Tree!remove_root_path, Tree!rucio_root_path, Slash, Text

\* The server is the first name of a path (extract_server_name).
LEMMA ServerOf ==
  ASSUME NEW n \in Tree!Name, NEW r \in Text
  PROVE  /\ Tree!extract_server_name(Rooted(n)) = n
         /\ Tree!extract_server_name(Rooted(Under(n, r))) = n
  BY RootRemoved, UpToFirst, NameIs, UnderIs DEF Tree!extract_server_name

\* A slash at the end is taken off, and nothing else is.
LEMMA TrailingRemoved ==
  ASSUME NEW p, Proper(p)
  PROVE  /\ Tree!remove_trailing_token(p) = p
         /\ Tree!remove_trailing_token(Append(p, Slash)) = p
<1>1. p \in Text /\ Len(p) \in Nat \ {0} /\ p[Len(p)] # Slash
  BY EmptySeq DEF Proper, Text
<1> DEFINE q == Append(p, Slash)
           k == Len(p)
<1>2. q \in Text /\ Len(q) = k + 1 /\ q[k + 1] = Slash /\ k \in Nat \ {0}
  BY <1>1, SlashIs, AppendProperties DEF Text
<1>3. q = p \o <<Slash>>
  BY <1>1, SlashIs, AppendIsConcat DEF Text
<1>4. SubSeq(q, 1, k) = p
  BY <1>1, <1>3, SlashIs, SubSeqOfConcat1, SubSeqFull DEF Text
<1> HIDE DEF q, k
<1>5. Tree!remove_trailing_token(q) = SubSeq(q, 1, k)
  <2>1. Len(q) > 1 /\ q[Len(q)] = Slash /\ Len(q) - 1 = k
    BY <1>2
  <2> QED
    BY <2>1 DEF Tree!remove_trailing_token, Tree!Last, Tree!Front, Slash
<1>6. Tree!remove_trailing_token(p) = p
  BY <1>1 DEF Tree!remove_trailing_token, Tree!Last, Slash
<1> QED
  BY <1>4, <1>5, <1>6 DEF q

\* The scope is found behind the server, also where the server's name with a slash occurs
\* again further on (extract_scope).
LEMMA ScopeOf ==
  ASSUME NEW n \in Tree!Name, NEW r, Proper(r)
  PROVE  Tree!extract_scope(Rooted(Under(n, r))) = Tree!UpToSlash(r)
<1>1. n \in Text /\ r \in Text
  BY NameIs DEF Proper
<1> DEFINE p == Rooted(Under(n, r))
<1>2. Tree!extract_server_name(p) = n
  BY <1>1, ServerOf
<1>3. Tree!remove_trailing_token(Tree!remove_root_path(p)) = Under(n, r)
  BY <1>1, UnderIs, RootRemoved, ProperUnder, TrailingRemoved
<1>4. Under(n, r) = (n \o <<Slash>>) \o r
  BY <1>1, UnderIs
<1>5. n \o <<Slash>> \in Text /\ n \o <<Slash>> # <<>>
  BY <1>1, SlashIs, ConcatProperties, EmptySeq DEF Text
<1>6. Tree!remove_substring(Under(n, r), n \o <<Slash>>) = r
  BY <1>1, <1>4, <1>5, FrontRemoved
<1> HIDE DEF p
<1> QED
  BY <1>2, <1>3, <1>6 DEF Tree!extract_scope, Slash, p

\* The name is the last one of a path (extract_name).
LEMMA NameOf ==
  ASSUME NEW x \in Text, NEW n \in Tree!Name
  PROVE  /\ Tree!extract_name(Under(x, n)) = n
         /\ Tree!extract_name(Rooted(n)) = n
<1>1. ASSUME NEW q, Proper(q), NEW k \in Nat, Len(q) = k + Len(n), k \in 1 .. Len(q),
             q[k] = Slash, \A i \in 1 .. Len(n) : q[k + i] = n[i]
      PROVE  Tree!extract_name(q) = n
  <2> DEFINE m == Len(n)
             slashes == {i \in 1 .. Len(q) : q[i] = Slash}
  <2>1. n \in Text /\ m \in Nat \ {0} /\ \A i \in 1 .. m : n[i] # Slash /\ n[i] \in Letters
    BY NameIs
  <2>2. Len(q) = k + m /\ \A i \in 1 .. m : q[k + i] = n[i]
    BY <1>1
  <2> HIDE DEF m
  <2>3. \A j \in k + 1 .. k + m : q[j] # Slash /\ q[j] \in Letters
    <3> TAKE j \in k + 1 .. k + m
    <3>1. j - k \in 1 .. m /\ j = k + (j - k)
      BY <1>1, <2>1
    <3> QED
      BY <2>1, <2>2, <3>1
  <2>4. slashes \subseteq Int /\ k \in slashes /\ slashes # {} /\ \A i \in slashes : i <= k
    BY <1>1, <2>1, <2>2, <2>3
  <2> HIDE DEF slashes
  <2>5. Tree!Max(slashes) = k
    BY <2>4, GreatestIs
  <2>6. Tree!extract_name(q) = SubSeq(q, k + 1, k + m)
    <3>1. Tree!remove_trailing_token(q) = q
      BY <1>1, TrailingRemoved
    <3> QED
      BY <2>2, <2>4, <2>5, <3>1 DEF Tree!extract_name, slashes, Slash
  <2>7. /\ SubSeq(q, k + 1, k + m) \in Text
        /\ Len(SubSeq(q, k + 1, k + m)) = m
        /\ \A i \in 1 .. m : SubSeq(q, k + 1, k + m)[i] = q[k + i]
    <3>1. k + 1 \in Int /\ k + m \in Int /\ k + 1 <= k + m /\ (k + m) - (k + 1) + 1 = m
      BY <1>1, <2>1
    <3>2. \A i \in 1 .. m : (k + 1) + i - 1 = k + i
      BY <1>1, <2>1
    <3>3. /\ SubSeq(q, k + 1, k + m) \in Seq(Letters)
          /\ Len(SubSeq(q, k + 1, k + m)) = IF k + 1 <= k + m THEN (k + m) - (k + 1) + 1 ELSE 0
          /\ \A i \in 1 .. (k + m) - (k + 1) + 1 : SubSeq(q, k + 1, k + m)[i] = q[(k + 1) + i - 1]
      BY <2>3, <3>1, SubSeqProperties
    <3> QED
      BY <3>1, <3>2, <3>3 DEF Text
  <2> QED
    BY <2>1, <2>2, <2>6, <2>7, SeqEqual DEF Text, m
<1>2. n \in Text /\ Proper(n)
  BY NameIsProper
<1>3. Tree!extract_name(Under(x, n)) = n
  <2> DEFINE k == Len(x) + 1
             q == Under(x, n)
             m == Len(n)
  <2>1. Proper(q)
    BY <1>2, ProperUnder
  <2>2. Len(x) \in Nat /\ m \in Nat
    BY <1>2 DEF Text
  <2>3. Len(q) = k + m /\ q[k] = Slash /\ \A i \in 1 .. m : q[k + i] = n[i]
    BY <1>2, UnderIs
  <2>4. k \in Nat /\ k \in 1 .. Len(q)
    BY <2>2, <2>3
  <2> HIDE DEF k, q
  <2> QED
    BY <1>1, <2>1, <2>3, <2>4 DEF q
<1>4. Tree!extract_name(Rooted(n)) = n
  <2> DEFINE q == Rooted(n)
  <2>1. Proper(q)
    BY <1>2, ProperUnder
  <2>2. /\ Len(q) = 1 + Len(n) /\ Len(n) \in Nat /\ q[1] = Slash
        /\ \A i \in 1 .. Len(n) : q[1 + i] = n[i]
    BY <1>2, RootedIs
  <2>3. 1 \in Nat /\ 1 \in 1 .. Len(q)
    BY <2>2
  <2> HIDE DEF q
  <2> QED
    BY <1>1, <2>1, <2>2, <2>3 DEF q
<1> QED
  BY <1>3, <1>4

\* The slashes of a text before its last letter.
Slashes(p) == {i \in 1 .. Len(p) : p[i] = Slash /\ i < Len(p)}

\* The path functions count with this module's Cardinality.
LEMMA SameCardinality == \A S : Tree!Cardinality(S) = Cardinality(S)
  BY DEF Tree!Cardinality, Cardinality

LEMMA SlashesAreFinite ==
  ASSUME NEW p \in Text
  PROVE  /\ IsFiniteSet(Slashes(p)) /\ Cardinality(Slashes(p)) \in Nat
         /\ Slashes(p) \subseteq 1 .. Len(p) /\ Len(p) \in Nat
<1>1. Len(p) \in Nat /\ Slashes(p) \subseteq 1 .. Len(p)
  BY DEF Text, Slashes
<1>2. IsFiniteSet(1 .. Len(p))
  BY <1>1, FS_Interval
<1>3. IsFiniteSet(Slashes(p))
  BY <1>1, <1>2, FS_Subset
<1> QED
  BY <1>1, <1>3, FS_CardinalityType

\* The root, with or without another slash, ends in a slash, and has no third letter.
LEMMA RootIs ==
  ASSUME NEW p, Tree!is_root_path(p)
  PROVE  Len(p) \in {1, 2} /\ p[Len(p)] = Slash
<1>1. p = <<Slash>> \/ p = Rooted(<<Slash>>)
  BY DEF Tree!is_root_path, Tree!rucio_root_path, Rooted, Slash
<1>2. ASSUME NEW r \in Text, Len(r) = 1, r[1] = Slash
      PROVE  Len(Rooted(r)) = 2 /\ Rooted(r)[2] = Slash
  <2>1. 1 \in 1 .. Len(r)
    BY <1>2
  <2>2. Rooted(r)[1 + 1] = r[1] /\ Len(Rooted(r)) = Len(r) + 1
    BY <2>1, RootedIs
  <2> QED
    BY <1>2, <2>2
<1>3. Len(Rooted(<<Slash>>)) = 2 /\ Rooted(<<Slash>>)[2] = Slash
  BY <1>2, SlashIs, Zenon
<1> QED
  BY <1>1, <1>3, SlashIs

\* A text that ends in a name is not the root, with or without a slash at its end.
LEMMA DepthIs ==
  ASSUME NEW p, Proper(p)
  PROVE  ~ Tree!is_root_path(p) /\ Tree!path_depth(p) = Cardinality(Slashes(p))
<1>1. p \in Text /\ Len(p) \in Nat \ {0} /\ p[Len(p)] # Slash
  BY EmptySeq DEF Proper, Text
<1>2. ~ Tree!is_root_path(p)
  BY <1>1, RootIs
<1> QED
  BY <1>2, SameCardinality DEF Tree!path_depth, Slashes, Slash

\* Each name adds one to the depth.
LEMMA DepthUnder ==
  ASSUME NEW p, Proper(p), NEW n \in Tree!Name
  PROVE  Tree!path_depth(Under(p, n)) = Tree!path_depth(p) + 1
<1>1. p \in Text /\ n \in Text /\ Proper(n) /\ Proper(Under(p, n))
  BY NameIsProper, ProperUnder DEF Proper
<1>2. \A i \in 1 .. Len(n) : n[i] # Slash
  BY NameIs
<1> DEFINE q == Under(p, n)
           k == Len(p)
           m == Len(n)
<1>3. k \in Nat \ {0} /\ m \in Nat \ {0} /\ p[k] # Slash
  BY <1>1, NameIs, EmptySeq DEF Proper, Text
<1>4. /\ Len(q) = k + 1 + m
      /\ \A i \in 1 .. k : q[i] = p[i]
      /\ q[k + 1] = Slash
      /\ \A i \in 1 .. m : q[k + 1 + i] = n[i]
  BY <1>1, UnderIs
<1> HIDE DEF q
<1>5. \A j \in k + 2 .. k + 1 + m : q[j] # Slash
  <2> HIDE DEF k
  <2> TAKE j \in k + 2 .. k + 1 + m
  <2>1. j - (k + 1) \in 1 .. m /\ j = k + 1 + (j - (k + 1))
    BY <1>3
  <2> QED
    BY <1>2, <1>4, <2>1
<1>6. Slashes(q) = Slashes(p) \cup {k + 1}
  <2>1. \A i \in 1 .. k : i \in Slashes(q) <=> i \in Slashes(p)
    BY <1>3, <1>4 DEF Slashes
  <2>2. k + 1 \in Slashes(q)
    BY <1>3, <1>4 DEF Slashes
  <2>3. \A i \in Slashes(q) : i \in 1 .. k + 1
    BY <1>3, <1>4, <1>5 DEF Slashes
  <2>4. Slashes(p) \subseteq 1 .. k
    BY <1>1, SlashesAreFinite
  <2> QED
    BY <1>3, <2>1, <2>2, <2>3, <2>4
<1>7. k + 1 \notin Slashes(p)
  BY <1>3 DEF Slashes
<1>8. Cardinality(Slashes(q)) = Cardinality(Slashes(p)) + 1
  BY <1>1, <1>6, <1>7, SlashesAreFinite, FS_AddElement
<1> QED
  BY <1>1, <1>8, DepthIs DEF q

LEMMA DepthOfServer ==
  ASSUME NEW n \in Tree!Name
  PROVE  Tree!path_depth(Rooted(n)) = 1
<1>1. n \in Text /\ Proper(n) /\ Proper(Rooted(n))
  BY NameIsProper, ProperUnder DEF Proper
<1> DEFINE q == Rooted(n)
           m == Len(n)
<1>2. m \in Nat \ {0} /\ \A i \in 1 .. m : n[i] # Slash
  BY NameIs
<1>3. Len(q) = m + 1 /\ q[1] = Slash /\ \A i \in 1 .. m : q[i + 1] = n[i]
  BY <1>1, RootedIs
<1> HIDE DEF q, m
<1>4. \A j \in 2 .. m + 1 : q[j] # Slash
  <2> TAKE j \in 2 .. m + 1
  <2>1. j - 1 \in 1 .. m /\ j = (j - 1) + 1
    BY <1>2
  <2> QED
    BY <1>2, <1>3, <2>1
<1>5. Slashes(q) = {1}
  BY <1>2, <1>3, <1>4 DEF Slashes
<1> QED
  BY <1>1, <1>5, DepthIs, FS_Singleton DEF q

\* A slash at the end makes no difference.
LEMMA SlashedIs ==
  ASSUME NEW r, Proper(r)
  PROVE  LET p == Rooted(r) IN
         /\ Tree!path_depth(Append(p, Slash)) = Tree!path_depth(p)
         /\ Tree!extract_name(Append(p, Slash)) = Tree!extract_name(p)
         /\ Tree!extract_server_name(Append(p, Slash)) = Tree!UpToSlash(Append(r, Slash))
         /\ Tree!extract_server_name(Append(p, Slash)) = Tree!extract_server_name(p) =>
              Tree!extract_scope(Append(p, Slash)) = Tree!extract_scope(p)
<1> DEFINE p == Rooted(r)
           q == Append(p, Slash)
           k == Len(p)
<1>1. p \in Text /\ Proper(p) /\ r \in Text /\ k = Len(r) + 1 /\ Len(r) \in Nat \ {0}
  BY ProperUnder, RootedIs, EmptySeq DEF Proper, Text
<1>2. /\ q \in Text /\ Len(q) = k + 1 /\ q[k + 1] = Slash
      /\ \A i \in 1 .. k : q[i] = p[i]
  BY <1>1, SlashIs, AppendProperties DEF Text
<1>3. p[k] # Slash
  BY <1>1 DEF Proper
<1>4. q = Rooted(Append(r, Slash)) /\ Append(r, Slash) \in Text
  <2>1. Append(r, Slash) = r \o <<Slash>> /\ Append(r, Slash) \in Text
    BY <1>1, SlashIs, AppendIsConcat, AppendProperties DEF Text
  <2>2. q = (<<Slash>> \o r) \o <<Slash>>
    BY <1>1, SlashIs, AppendIsConcat DEF Text, Rooted
  <2>3. (<<Slash>> \o r) \o <<Slash>> = <<Slash>> \o (r \o <<Slash>>)
    BY <1>1, SlashIs, ConcatAssociative DEF Text
  <2> QED
    BY <2>1, <2>2, <2>3 DEF Rooted
<1>5. Tree!remove_root_path(p) = r /\ Tree!remove_root_path(q) = Append(r, Slash)
  BY <1>1, <1>4, RootRemoved
<1>6. /\ Tree!remove_trailing_token(r) = r /\ Tree!remove_trailing_token(Append(r, Slash)) = r
      /\ Tree!remove_trailing_token(p) = p /\ Tree!remove_trailing_token(q) = p
  BY <1>1, TrailingRemoved
<1>7. Tree!path_depth(q) = Tree!path_depth(p)
  <2> HIDE DEF p, q, k
  <2>1. k \in Nat /\ k >= 2 /\ k = Len(p)
    BY <1>1 DEF k
  <2>2. Slashes(q) = Slashes(p)
    BY <1>2, <1>3, <2>1 DEF Slashes
  <2>3. ~ Tree!is_root_path(q)
    BY <1>2, <2>1, RootIs
  <2>4. Tree!path_depth(q) = Cardinality(Slashes(q))
    BY <2>3, SameCardinality DEF Tree!path_depth, Slashes, Slash
  <2> QED
    BY <1>1, <2>2, <2>4, DepthIs
<1> HIDE DEF p, q
<1>8. Tree!extract_name(q) = Tree!extract_name(p)
  BY <1>6 DEF Tree!extract_name
<1>9. Tree!extract_server_name(q) = Tree!UpToSlash(Append(r, Slash))
  BY <1>5 DEF Tree!extract_server_name
<1>10. Tree!extract_server_name(q) = Tree!extract_server_name(p) =>
         Tree!extract_scope(q) = Tree!extract_scope(p)
  BY <1>5, <1>6 DEF Tree!extract_scope
<1> QED
  BY <1>7, <1>8, <1>9, <1>10 DEF p, q

LEMMA ServerSlashed ==
  ASSUME NEW n \in Tree!Name, NEW x \in Text
  PROVE  /\ Tree!UpToSlash(Append(n, Slash)) = n
         /\ Tree!UpToSlash(Append(Under(n, x), Slash)) = n
<1>1. n \in Text
  BY NameIs
<1>2. <<>> \in Text /\ <<Slash>> \o <<>> = <<Slash>>
  BY SlashIs, EmptySeq, ConcatEmptySeq DEF Text
<1>3. Append(n, Slash) = Under(n, <<>>)
  <2>1. Append(n, Slash) = n \o <<Slash>>
    BY <1>1, SlashIs, AppendIsConcat DEF Text
  <2> QED
    BY <1>2, <2>1 DEF Under
<1>4. Append(Under(n, x), Slash) = Under(n, x \o <<Slash>>)
  <2> DEFINE y == <<Slash>> \o x
  <2>1. y \in Text /\ n \o y \in Text
    BY <1>1, SlashIs, ConcatProperties DEF Text
  <2>2. Append(n \o y, Slash) = (n \o y) \o <<Slash>>
    BY <2>1, SlashIs, AppendIsConcat DEF Text
  <2>3. (n \o y) \o <<Slash>> = n \o (y \o <<Slash>>)
    BY <1>1, <2>1, SlashIs, ConcatAssociative DEF Text
  <2>4. y \o <<Slash>> = <<Slash>> \o (x \o <<Slash>>)
    BY SlashIs, ConcatAssociative DEF Text
  <2> QED
    BY <2>2, <2>3, <2>4 DEF Under
<1>5. x \o <<Slash>> \in Text
  BY SlashIs, ConcatProperties DEF Text
<1> QED
  BY <1>2, <1>3, <1>4, <1>5, UpToFirst

--------------------------------------------------------------------------------
(* The places of the tree: a server, a scope, a DiD below a scope *)

LEMMA RootedUnder ==
  ASSUME NEW a \in Text, NEW b \in Text
  PROVE  Rooted(Under(a, b)) = Under(Rooted(a), b)
<1>1. <<Slash>> \o b \in Text
  BY SlashIs, ConcatProperties DEF Text
<1> QED
  BY <1>1, SlashIs, ConcatAssociative DEF Text, Rooted, Under

LEMMA ServerPlace ==
  ASSUME NEW s \in Tree!Name
  PROVE  LET p == Rooted(s) IN
         /\ Proper(p) /\ ~ Tree!is_root_path(p)
         /\ Tree!path_depth(p) = 1
         /\ Tree!extract_server_name(p) = s
         /\ Tree!extract_name(p) = s
<1>1. Proper(s) /\ s \in Text
  BY NameIsProper
<1>2. Proper(Rooted(s)) /\ <<>> \in Text
  BY <1>1, ProperUnder, EmptySeq DEF Text
<1> QED
  BY <1>2, DepthIs, DepthOfServer, ServerOf, NameOf

LEMMA ScopePlace ==
  ASSUME NEW s \in Tree!Name, NEW c \in Tree!Name
  PROVE  LET p == Rooted(Under(s, c)) IN
         /\ Proper(p) /\ ~ Tree!is_root_path(p)
         /\ Tree!path_depth(p) = 2
         /\ Tree!extract_server_name(p) = s
         /\ Tree!extract_scope(p) = c
         /\ Tree!extract_name(p) = c
<1>1. Proper(s) /\ s \in Text /\ Proper(c) /\ c \in Text
  BY NameIsProper
<1>2. Proper(Under(s, c)) /\ Under(s, c) \in Text
  BY <1>1, ProperUnder DEF Proper
<1>3. Proper(Rooted(Under(s, c))) /\ Rooted(s) \in Text /\ Proper(Rooted(s))
  BY <1>1, <1>2, ProperUnder DEF Proper
<1>4. Rooted(Under(s, c)) = Under(Rooted(s), c)
  BY <1>1, RootedUnder
<1>5. Tree!path_depth(Rooted(Under(s, c))) = 2
  <2>1. Tree!path_depth(Under(Rooted(s), c)) = Tree!path_depth(Rooted(s)) + 1
    BY <1>3, DepthUnder
  <2>2. Tree!path_depth(Rooted(s)) = 1
    BY DepthOfServer
  <2> QED
    BY <1>4, <2>1, <2>2
<1>6. Tree!extract_name(Rooted(Under(s, c))) = c
  BY <1>3, <1>4, NameOf
<1>7. Tree!extract_scope(Rooted(Under(s, c))) = c
  BY <1>1, ScopeOf, UpToFirst
<1> QED
  BY <1>1, <1>3, <1>5, <1>6, <1>7, DepthIs, ServerOf

LEMMA DidPlace ==
  ASSUME NEW s \in Tree!Name, NEW c \in Tree!Name, NEW r, Proper(r)
  PROVE  LET p == Rooted(Under(s, Under(c, r))) IN
         /\ Proper(p) /\ ~ Tree!is_root_path(p)
         /\ Tree!extract_server_name(p) = s
         /\ Tree!extract_scope(p) = c
<1>1. s \in Text /\ c \in Text /\ r \in Text
  BY NameIsProper DEF Proper
<1>2. Proper(Under(c, r)) /\ Under(c, r) \in Text
  BY <1>1, ProperUnder DEF Proper
<1>3. Proper(Under(s, Under(c, r))) /\ Proper(Rooted(Under(s, Under(c, r))))
  BY <1>1, <1>2, ProperUnder
<1>4. Tree!extract_scope(Rooted(Under(s, Under(c, r)))) = c
  BY <1>1, <1>2, ScopeOf, UpToFirst
<1> QED
  BY <1>2, <1>3, <1>4, DepthIs, ServerOf

\* Going down appends a name.
LEMMA BelowRoot ==
  ASSUME NEW n \in Tree!Name
  PROVE  Tree!Below(Tree!rucio_root_path, n) = Rooted(n)
  BY DEF Tree!Below, Tree!is_root_path, Tree!rucio_root_path, Rooted, Slash

LEMMA BelowProper ==
  ASSUME NEW r \in Text, Proper(Rooted(r)), NEW n \in Tree!Name
  PROVE  LET q == Tree!Below(Rooted(r), n) IN
         /\ q = Rooted(Under(r, n))
         /\ Tree!extract_name(q) = n
         /\ Tree!path_depth(q) = Tree!path_depth(Rooted(r)) + 1
<1>1. Rooted(r) \in Text /\ n \in Text
  BY NameIs DEF Proper
<1>2. Tree!Below(Rooted(r), n) = (Rooted(r) \o <<Slash>>) \o n
  BY DepthIs DEF Tree!Below, Slash
<1>3. Tree!Below(Rooted(r), n) = Under(Rooted(r), n)
  BY <1>1, <1>2, UnderIs
<1> QED
  BY <1>1, <1>3, RootedUnder, NameOf, DepthUnder

--------------------------------------------------------------------------------
(* Where a walk may be *)

AtRoot == path = Tree!rucio_root_path /\ trail = <<>>

AtServer(s) == path = Rooted(s) /\ trail = <<>>

AtScope(s, c) == path = Rooted(Under(s, c)) /\ top = c /\ trail = <<>>

\* Below a scope: it is the last that was entered above the DiDs, the last DiD gave the
\* path its name, and each one lengthened the path by one name.
AtDid(s, c, r) ==
  /\ c \in Tree!Name /\ Proper(r)
  /\ path = Rooted(Under(s, Under(c, r)))
  /\ trail \in Seq(Tree!Dids) /\ trail # <<>>
  /\ top = c
  /\ Tree!extract_name(path) = trail[Len(trail)][2]
  /\ Tree!path_depth(path) = 2 + Len(trail)

WalkInv ==
  \/ AtRoot
  \/ pc = "mounted" /\ \E s \in rucio_server_names :
       \/ AtServer(s)
       \/ \E c \in Scopes[s] : AtScope(s, c)
       \/ \E c \in Tree!Name, r \in Text : AtDid(s, c, r)

\* Servers that are listed are registered, and their names and scopes are names.
LEMMA Catalogue ==
  ASSUME IInv
  PROVE  /\ rucio_server_names \subseteq Tree!Name \cap DOMAIN rucio_server_map
         /\ \A s \in rucio_server_names : Scopes[s] \subseteq Tree!Name
         /\ Tree!Dids \subseteq Tree!Name \X Tree!Name
         /\ \A d \in DOMAIN Contents : Contents[d] \subseteq Tree!Dids
<1>1. rucio_server_names \subseteq DOMAIN rucio_server_map
  BY DEF IInv, Startup!ListedAreValidated
<1>2. DOMAIN rucio_server_map \subseteq ServerNames
  BY DEF IInv, StartupTypeOK
<1> QED
  BY <1>1, <1>2, TreeAssumption DEF Tree!Assumption

LEMMA RootDepth ==
  /\ Tree!is_root_path(Tree!rucio_root_path)
  /\ \A p : Tree!is_root_path(p) => Tree!path_depth(p) = 0
  BY DEF Tree!is_root_path, Tree!path_depth

\* What readdir lists, place by place.
LEMMA TopmostIs ==
  ASSUME NEW p, NEW name \in Tree!Topmost(p)
  PROVE  \/ Tree!is_root_path(p) /\ name \in rucio_server_names
         \/ /\ ~ Tree!is_root_path(p)
            /\ Tree!path_depth(p) = 1
            /\ name \in Scopes[Tree!extract_server_name(p)]
<1>1. CASE Tree!is_hidden(p)
  <2>1. CASE Tree!is_root_path(p)
    BY <1>1, <2>1, RootDepth DEF Tree!Topmost, Tree!rucio_list_servers, Tree!is_server_mountpoint
  <2>2. CASE ~ Tree!is_root_path(p)
    BY <1>1, <2>2 DEF Tree!Topmost
  <2> QED
    BY <2>1, <2>2
<1>2. CASE ~ Tree!is_hidden(p)
  <2>1. CASE Tree!is_root_path(p)
    BY <1>2, <2>1, RootDepth DEF Tree!Topmost, Tree!rucio_list_servers, Tree!is_server_mountpoint
  <2>2. CASE ~ Tree!is_root_path(p)
    BY <1>2, <2>2 DEF Tree!Topmost, Tree!is_server_mountpoint
  <2> QED
    BY <2>1, <2>2
<1> QED
  BY <1>1, <1>2

LEMMA DidsInAre ==
  ASSUME IInv, NEW p, NEW d \in Tree!DidsIn(p)
  PROVE  d \in Tree!Dids /\ ~ (Tree!path_depth(p) < 2)
<1>1. \A k : Tree!DidsFiledUnder(k) \subseteq Tree!Dids
  BY DEF Tree!DidsFiledUnder
<1>2. \A k : Tree!ContentsFiledUnder(k) \subseteq Tree!Dids
  BY Catalogue DEF Tree!ContentsFiledUnder
<1>3. CASE Tree!is_hidden(p) \/ Tree!path_depth(p) < 2
  <2>1. ~ (Tree!is_main_scope(p) /\ ~ Tree!is_hidden(p))
    BY <1>3 DEF Tree!is_main_scope
  <2>2. Tree!DidsIn(p) = {}
    BY <1>3, <2>1 DEF Tree!DidsIn
  <2> QED
    BY <2>2
<1>4. CASE ~ (Tree!is_hidden(p) \/ Tree!path_depth(p) < 2)
  <2>1. \/ d \in Tree!DidsFiledUnder(Tree!ScopeKey(p))
        \/ d \in Tree!ContentsFiledUnder(Tree!DidKey(p))
    <3>1. CASE Tree!is_main_scope(p)
      BY <1>4, <3>1 DEF Tree!DidsIn
    <3>2. CASE ~ Tree!is_main_scope(p)
      BY <1>4, <3>2 DEF Tree!DidsIn
    <3> QED
      BY <3>1, <3>2
  <2> QED
    BY <1>1, <1>2, <1>4, <2>1
<1> QED
  BY <1>3, <1>4

\* From the root to a server, and from a server to one of its scopes.
LEMMA EnterTopStep ==
  ASSUME IInv, WalkInv, pc = "mounted", UNCHANGED startup, Tree!EnterTop
  PROVE  WalkInv'
<1>1. PICK name \in Tree!Topmost(path) : path' = Tree!Below(path, name) /\ top' = name
  BY DEF Tree!EnterTop
<1>2. trail' = trail /\ pc' = "mounted" /\ rucio_server_names' = rucio_server_names
  BY DEF Tree!EnterTop, startup
<1>3. CASE AtRoot
  <2>1. name \in rucio_server_names /\ name \in Tree!Name
    BY <1>3, RootDepth, TopmostIs, Catalogue DEF AtRoot
  <2>2. path' = Rooted(name)
    BY <1>1, <1>3, <2>1, BelowRoot DEF AtRoot
  <2> QED
    BY <1>2, <1>3, <2>1, <2>2 DEF WalkInv, AtRoot, AtServer
<1>4. ASSUME NEW s \in rucio_server_names, AtServer(s)
      PROVE  WalkInv'
  <2>1. s \in Tree!Name /\ s \in Text /\ Proper(Rooted(s))
    BY Catalogue, NameIs, ServerPlace
  <2>2. name \in Scopes[s] /\ name \in Tree!Name
    BY <1>4, <2>1, ServerPlace, TopmostIs, Catalogue DEF AtServer
  <2>3. path' = Rooted(Under(s, name))
    BY <1>1, <1>4, <2>1, <2>2, BelowProper DEF AtServer
  <2> QED
    BY <1>1, <1>2, <1>4, <2>2, <2>3 DEF WalkInv, AtServer, AtScope
<1>5. ASSUME NEW s \in rucio_server_names, NEW c \in Scopes[s], AtScope(s, c)
      PROVE  FALSE
  <2>1. s \in Tree!Name /\ c \in Tree!Name
    BY <1>5, Catalogue
  <2> QED
    BY <1>5, <2>1, ScopePlace, TopmostIs DEF AtScope
<1>6. ASSUME NEW s \in rucio_server_names, NEW c \in Tree!Name, NEW r \in Text, AtDid(s, c, r)
      PROVE  FALSE
  <2>1. s \in Tree!Name
    BY Catalogue
  <2>2. Len(trail) \in Nat \ {0} /\ Tree!path_depth(path) = 2 + Len(trail)
    BY <1>6, EmptySeq DEF AtDid
  <2>3. ~ Tree!is_root_path(path)
    BY <1>6, <2>1, DidPlace DEF AtDid
  <2> QED
    BY <2>2, <2>3, TopmostIs
<1> QED
  BY <1>3, <1>4, <1>5, <1>6 DEF WalkInv

\* From a scope to one of its DiDs, and from a container to what it holds.
LEMMA EnterStep ==
  ASSUME IInv, WalkInv, pc = "mounted", UNCHANGED startup, Tree!Enter
  PROVE  WalkInv'
<1>1. PICK d \in Tree!DidsIn(path) :
        path' = Tree!Below(path, d[2]) /\ trail' = Append(trail, d)
  BY DEF Tree!Enter
<1>2. pc' = "mounted" /\ rucio_server_names' = rucio_server_names /\ top' = top
  BY DEF startup, Tree!Enter
<1>3. /\ d \in Tree!Dids /\ d[1] \in Tree!Name /\ d[2] \in Tree!Name
      /\ ~ (Tree!path_depth(path) < 2)
  BY DidsInAre, Catalogue
<1>4. CASE AtRoot
  BY <1>3, <1>4, RootDepth DEF AtRoot
<1>5. ASSUME NEW s \in rucio_server_names, AtServer(s)
      PROVE  FALSE
  BY <1>3, <1>5, Catalogue, ServerPlace DEF AtServer
<1>6. ASSUME NEW s \in rucio_server_names, NEW c \in Scopes[s], AtScope(s, c)
      PROVE  WalkInv'
  <2>1. s \in Tree!Name /\ c \in Tree!Name /\ s \in Text /\ c \in Text
    BY <1>6, Catalogue, NameIs
  <2>2. Under(s, c) \in Text /\ Proper(Rooted(Under(s, c)))
        /\ Tree!path_depth(path) = 2 /\ top = c
    BY <1>6, <2>1, UnderIs, ScopePlace DEF AtScope
  <2>3. /\ path' = Rooted(Under(Under(s, c), d[2]))
        /\ Tree!extract_name(path') = d[2]
        /\ Tree!path_depth(path') = 3
    BY <1>1, <1>3, <1>6, <2>2, BelowProper DEF AtScope
  <2>4. path' = Rooted(Under(s, Under(c, d[2]))) /\ d[2] \in Text /\ Proper(d[2])
    BY <1>3, <2>1, <2>3, UnderAssociative, NameIsProper
  <2>5. trail' = <<d>>
    BY <1>1, <1>6 DEF AtScope
  <2>6. AtDid(s, c, d[2])'
    BY <1>2, <1>3, <2>1, <2>2, <2>3, <2>4, <2>5 DEF AtDid
  <2> QED
    BY <1>2, <2>1, <2>4, <2>6 DEF WalkInv
<1>7. ASSUME NEW s \in rucio_server_names, NEW c \in Tree!Name, NEW r \in Text, AtDid(s, c, r)
      PROVE  WalkInv'
  <2>1. s \in Tree!Name /\ s \in Text /\ c \in Text /\ Proper(r)
    BY <1>7, Catalogue, NameIs DEF AtDid
  <2>2. Under(c, r) \in Text /\ Under(s, Under(c, r)) \in Text
    BY <2>1, UnderIs
  <2>3. Proper(Rooted(Under(s, Under(c, r))))
    BY <2>1, DidPlace
  <2>4. /\ path' = Rooted(Under(Under(s, Under(c, r)), d[2]))
        /\ Tree!extract_name(path') = d[2]
        /\ Tree!path_depth(path') = 2 + Len(trail) + 1
    BY <1>1, <1>3, <1>7, <2>2, <2>3, BelowProper DEF AtDid
  <2>5. d[2] \in Text /\ Proper(d[2])
    BY <1>3, NameIsProper
  <2>6. path' = Rooted(Under(s, Under(c, Under(r, d[2]))))
    BY <2>1, <2>2, <2>4, <2>5, UnderAssociative
  <2>7. Under(r, d[2]) \in Text /\ Proper(Under(r, d[2]))
    BY <2>5, ProperUnder DEF Proper
  <2>8. /\ trail' \in Seq(Tree!Dids) /\ trail' # <<>>
        /\ Len(trail') = Len(trail) + 1 /\ trail'[Len(trail')] = d
        /\ Len(trail) \in Nat
    BY <1>1, <1>3, <1>7, AppendProperties, EmptySeq DEF AtDid
  <2>9. AtDid(s, c, Under(r, d[2]))'
    BY <1>2, <1>7, <2>4, <2>6, <2>7, <2>8 DEF AtDid
  <2> QED
    BY <1>2, <2>7, <2>9 DEF WalkInv
<1> QED
  BY <1>4, <1>5, <1>6, <1>7 DEF WalkInv

\* Nothing of the startup is left to do once the file system is mounted.
LEMMA MountedStays ==
  ASSUME pc = "mounted"
  PROVE  ~ Startup!Next
  BY DEF Startup!Next, Startup!NextFile, Startup!NoMoreFiles, Startup!Skip, Startup!Register,
      Startup!Ping, Startup!Authenticate, Startup!MakeDirectories, Startup!CheckPermissions

\* Wherever a walk is, it went there from the root, one listed entry at a time.
THEOREM WalkInvariant == Spec => []WalkInv
<1>1. Init => WalkInv
  BY DEF Init, Tree!Init, WalkInv, AtRoot
<1>2. IInv /\ WalkInv /\ [Next]_vars => WalkInv'
  <2> SUFFICES ASSUME IInv, WalkInv, [Next]_vars  PROVE WalkInv'
    OBVIOUS
  <2>1. CASE Startup!Next /\ UNCHANGED walk
    <3>1. AtRoot
      BY <2>1, MountedStays DEF WalkInv
    <3> QED
      BY <2>1, <3>1 DEF WalkInv, AtRoot, walk
  <2>2. CASE Walk
    BY <2>2, EnterTopStep, EnterStep DEF Walk
  <2>3. CASE UNCHANGED vars
    BY <2>3 DEF vars, startup, walk, WalkInv, AtRoot, AtServer, AtScope, AtDid
  <2> QED
    BY <2>1, <2>2, <2>3 DEF Next
<1>3. QED  BY <1>1, <1>2, Invariant, PTL DEF Spec

\* The four kinds of places, and what the path functions say of each.
LEMMA Places ==
  ASSUME IInv, WalkInv
  PROVE  \/ AtRoot /\ Tree!is_root_path(path) /\ Tree!path_depth(path) = 0
         \/ \E s \in rucio_server_names, r \in Text :
              /\ pc = "mounted"
              /\ s \in Tree!Name /\ Proper(r) /\ path = Rooted(r) /\ ~ Tree!is_root_path(path)
              /\ r = s \/ \E x \in Text : r = Under(s, x)
              /\ Tree!extract_server_name(path) = s
              /\ \/ AtServer(s) /\ Tree!path_depth(path) = 1
                 \/ \E c \in Scopes[s] : AtScope(s, c) /\ Tree!path_depth(path) = 2
                 \/ \E c \in Tree!Name, x \in Text :
                      /\ AtDid(s, c, x) /\ Tree!extract_scope(path) = c
                      /\ Tree!path_depth(path) \in Nat /\ Tree!path_depth(path) > 2
<1>1. CASE AtRoot
  BY <1>1, RootDepth DEF AtRoot
<1>2. ASSUME pc = "mounted", NEW s \in rucio_server_names, AtServer(s)
      PROVE  \E r \in Text :
               /\ s \in Tree!Name /\ Proper(r) /\ path = Rooted(r) /\ ~ Tree!is_root_path(path)
               /\ r = s /\ Tree!extract_server_name(path) = s
               /\ Tree!path_depth(path) = 1
  <2>1. s \in Tree!Name /\ s \in Text /\ Proper(s)
    BY Catalogue, NameIsProper
  <2> QED
    BY <1>2, <2>1, ServerPlace DEF AtServer
<1>3. ASSUME pc = "mounted", NEW s \in rucio_server_names, NEW c \in Scopes[s], AtScope(s, c)
      PROVE  \E r \in Text :
               /\ s \in Tree!Name /\ Proper(r) /\ path = Rooted(r) /\ ~ Tree!is_root_path(path)
               /\ \E x \in Text : r = Under(s, x)
               /\ Tree!extract_server_name(path) = s
               /\ Tree!path_depth(path) = 2
  <2>1. s \in Tree!Name /\ s \in Text /\ c \in Tree!Name /\ c \in Text /\ Proper(c)
    BY Catalogue, NameIsProper
  <2>2. Under(s, c) \in Text /\ Proper(Under(s, c))
    BY <2>1, ProperUnder DEF Proper
  <2> QED
    BY <1>3, <2>1, <2>2, ScopePlace DEF AtScope
<1>4. ASSUME pc = "mounted", NEW s \in rucio_server_names, NEW c \in Tree!Name, NEW x \in Text,
             AtDid(s, c, x)
      PROVE  /\ \E r \in Text :
                  /\ s \in Tree!Name /\ Proper(r) /\ path = Rooted(r) /\ ~ Tree!is_root_path(path)
                  /\ \E y \in Text : r = Under(s, y)
             /\ Tree!extract_server_name(path) = s
             /\ Tree!extract_scope(path) = c
             /\ Tree!path_depth(path) \in Nat /\ Tree!path_depth(path) > 2
  <2>1. s \in Tree!Name /\ s \in Text /\ c \in Text /\ Proper(x)
    BY <1>4, Catalogue, NameIsProper DEF AtDid
  <2>2. Under(c, x) \in Text /\ Proper(Under(c, x))
    BY <2>1, ProperUnder DEF Proper
  <2>3. Under(s, Under(c, x)) \in Text /\ Proper(Under(s, Under(c, x)))
    BY <2>1, <2>2, ProperUnder DEF Proper
  <2>4. Tree!path_depth(path) \in Nat /\ Tree!path_depth(path) > 2
    <3>1. Len(trail) \in Nat \ {0} /\ Tree!path_depth(path) = 2 + Len(trail)
      BY <1>4, EmptySeq DEF AtDid
    <3> QED
      BY <3>1
  <2> QED
    BY <1>4, <2>1, <2>2, <2>3, <2>4, DidPlace DEF AtDid
<1> QED
  BY <1>1, <1>2, <1>3, <1>4 DEF WalkInv

--------------------------------------------------------------------------------
(* What a path stands for *)

\* The depth of a path is the number of steps to it, and a slash at its end makes no
\* difference, for names and scopes of any length and DiDs nested to any depth.
THEOREM DepthsAreRight == Spec => []DepthIsRight
<1>1. IInv /\ WalkInv => DepthIsRight
  <2> SUFFICES ASSUME IInv, WalkInv  PROVE DepthIsRight
    OBVIOUS
  <2>1. Tree!path_depth(path) > 2 => Tree!path_depth(path) = 2 + Len(trail)
    BY Places DEF AtDid
  <2>2. ASSUME ~ Tree!is_root_path(path)
        PROVE  /\ Tree!path_depth(Append(path, Slash)) = Tree!path_depth(path)
               /\ Tree!extract_server_name(Append(path, Slash)) = Tree!extract_server_name(path)
               /\ Tree!extract_scope(Append(path, Slash)) = Tree!extract_scope(path)
               /\ Tree!extract_name(Append(path, Slash)) = Tree!extract_name(path)
    <3>1. PICK s \in Tree!Name, r \in Text :
             /\ Proper(r) /\ path = Rooted(r)
             /\ r = s \/ \E x \in Text : r = Under(s, x)
             /\ Tree!extract_server_name(path) = s
      BY <2>2, Places
    <3>2. Tree!UpToSlash(Append(r, Slash)) = s
      BY <3>1, ServerSlashed, EmptySeq DEF Text
    <3> QED
      BY <3>1, <3>2, SlashedIs
  <2> QED
    BY <2>1, <2>2 DEF DepthIsRight, Tree!DepthIsRight, Tree!InDids, Tree!get_did, Slash
<1>2. QED  BY <1>1, Invariant, WalkInvariant, PTL

\* Below a scope, on a walk in one scope, the last DiD has the scope of the path.
LEMMA LastDid ==
  ASSUME IInv, WalkInv, Tree!InDids, Tree!InOneScope
  PROVE  /\ Tree!get_did(path) = Tree!Last(trail)
         /\ Tree!Last(trail) \in Tree!Dids
         /\ pc = "mounted" /\ ~ Tree!is_root_path(path) /\ Tree!path_depth(path) > 2
         /\ Tree!extract_server_name(path) \in DOMAIN rucio_server_map
<1>1. Tree!path_depth(path) > 2
  BY DEF Tree!InDids
<1>2. PICK s \in rucio_server_names, c \in Tree!Name, x \in Text :
         /\ AtDid(s, c, x) /\ Tree!extract_scope(path) = c
         /\ Tree!extract_server_name(path) = s
         /\ pc = "mounted" /\ ~ Tree!is_root_path(path)
  BY <1>1, Places
<1> DEFINE n == Len(trail)
           d == trail[n]
<1>3. trail \in Seq(Tree!Dids) /\ n \in Nat \ {0} /\ DOMAIN trail = 1 .. n
  BY <1>2, EmptySeq DEF AtDid
<1>4. d \in Tree!Dids /\ d \in Tree!Range(trail)
  BY <1>3 DEF Tree!Range
<1>5. d[1] = top
  BY <1>3, <1>4 DEF Tree!InOneScope
<1>6. d = <<d[1], d[2]>>
  BY <1>4, Catalogue
<1>7. Tree!get_did(path) = <<c, d[2]>> /\ d[1] = c
  BY <1>2, <1>5 DEF AtDid, Tree!get_did
<1> QED
  BY <1>1, <1>2, <1>4, <1>6, <1>7, Catalogue DEF Tree!Last

\* The DiD of a path is the one that the walk has come to, as long as it kept to one
\* scope, whatever the names on its way and however often it met them (get_did).
THEOREM PathsNameTheirDids == Spec => []PathNamesItsDid
<1>1. IInv /\ WalkInv => PathNamesItsDid
  BY LastDid DEF PathNamesItsDid, Tree!PathNamesItsDid
<1>2. QED  BY <1>1, Invariant, WalkInvariant, PTL

\* A place below the scopes is asked for as a DiD.
LEMMA NotAtTheTop ==
  ASSUME NEW p, ~ Tree!is_root_path(p), Tree!path_depth(p) > 2
  PROVE  ~ Tree!IsTop(p) /\ ~ Tree!is_main_scope(p)
  BY DEF Tree!IsTop, Tree!is_server_mountpoint, Tree!is_main_scope

\* What is asked for of a place below the scopes: nothing, or what the cache of kinds or
\* the server makes of it.
LEMMA KindAsked ==
  ASSUME NEW p, ~ Tree!is_root_path(p), Tree!path_depth(p) > 2,
         "directory" \in Tree!rucio_getattr(p)
  PROVE  TRUE \in Tree!rucio_is_container(p)
<1>1. ~ Tree!IsTop(p) /\ ~ Tree!is_main_scope(p)
  BY NotAtTheTop
<1>2. "directory" \in
        {IF b THEN "directory" ELSE "file" : b \in Tree!rucio_is_container(p)}
  BY <1>1 DEF Tree!rucio_getattr
<1>3. Tree!rucio_is_container(p) \subseteq BOOLEAN
  BY DEF Tree!rucio_is_container
<1> QED
  BY <1>2, <1>3

\* File DiDs appear as files, in any catalogue and on any walk in one scope, whatever has
\* been listed before, unless a container or a data set is filed under the very text that
\* their server, scope and name run together to (rucio_getattr, rucio_is_container).
THEOREM FilesStayFiles == Spec => []FilesAppearUnlessShared
<1>1. IInv /\ WalkInv => FilesAppearUnlessShared
  <2> SUFFICES ASSUME IInv, WalkInv, Tree!AtFile, "directory" \in Tree!rucio_getattr(path),
                      Tree!FiledUnder(Tree!LastText) \cap DOMAIN Contents = {}
               PROVE  FALSE
    BY DEF FilesAppearUnlessShared, Tree!FilesAppearUnlessShared
  <2>1. /\ Tree!get_did(path) = Tree!Last(trail) /\ Tree!Last(trail) \in FileDids
        /\ ~ Tree!is_root_path(path) /\ Tree!path_depth(path) > 2
    BY LastDid DEF Tree!AtFile
  <2>2. Tree!DidKey(path) = Tree!LastText
    BY <2>1 DEF Tree!DidKey, Tree!ScopeKey, Tree!LastText, Tree!get_did
  <2>3. TRUE \in Tree!rucio_is_container(path)
    BY <2>1, KindAsked
  <2>4. (DOMAIN Contents)
          \cap ({Tree!get_did(path)} \cup Tree!FiledUnder(Tree!DidKey(path))) # {}
    BY <2>3 DEF Tree!rucio_is_container
  <2>5. Tree!Last(trail) \notin DOMAIN Contents
    BY <2>1, TreeAssumption DEF Tree!Assumption
  <2> QED
    BY <2>1, <2>2, <2>4, <2>5
<1>2. QED  BY <1>1, Invariant, WalkInvariant, PTL

\* A place below a registered server that is not left out is a directory or a file, if it
\* is a server, a scope that the server has, or a place below the scopes.
LEMMA Served ==
  ASSUME NEW p, ~ Tree!is_hidden(p), ~ Tree!is_mac_specific(p),
         Tree!extract_server_name(p) \in DOMAIN rucio_server_map,
         \/ Tree!path_depth(p) = 1
         \/ Tree!path_depth(p) = 2 /\ Tree!extract_scope(p) \in Scopes[Tree!extract_server_name(p)]
         \/ ~ Tree!is_root_path(p) /\ Tree!path_depth(p) > 2
  PROVE  Tree!rucio_getattr(p) \subseteq {"directory", "file"}
<1>1. CASE Tree!IsTop(p)
  BY <1>1 DEF Tree!rucio_getattr
<1>2. CASE ~ Tree!IsTop(p)
  <2>1. ~ Tree!is_root_path(p) /\ Tree!path_depth(p) > 2
    BY <1>2 DEF Tree!IsTop, Tree!is_server_mountpoint, Tree!is_main_scope
  <2>2. ~ Tree!is_main_scope(p)
    BY <2>1, NotAtTheTop
  <2> QED
    BY <1>2, <2>1, <2>2 DEF Tree!rucio_getattr
<1> QED
  BY <1>1, <1>2

\* A walk stays below servers that are listed, and whatever a directory lists can be
\* entered: no entry is refused or missing, but for names that are left out.
THEOREM ListingsAreServed == Spec => []ListedAreServed
<1>1. IInv /\ WalkInv => ListedAreServed
  <2> SUFFICES ASSUME IInv, WalkInv, pc = "mounted"
               PROVE  /\ Tree!ListedAreServed
                      /\ ~ Tree!is_root_path(path) =>
                           Tree!extract_server_name(path) \in rucio_server_names
    BY DEF ListedAreServed
  <2>1. ~ Tree!is_root_path(path) => Tree!extract_server_name(path) \in rucio_server_names
    BY Places
  <2>2. ASSUME NEW name \in Tree!Topmost(path), NEW p, p = Tree!Below(path, name),
               ~ Tree!is_hidden(p), ~ Tree!is_mac_specific(p)
        PROVE  Tree!rucio_getattr(p) \subseteq {"directory", "file"}
    <3>1. CASE AtRoot
      <4>1. name \in rucio_server_names /\ name \in Tree!Name
        BY <3>1, RootDepth, TopmostIs, Catalogue DEF AtRoot
      <4>2. p = Rooted(name)
        BY <2>2, <3>1, <4>1, BelowRoot DEF AtRoot
      <4> QED
        BY <2>2, <4>1, <4>2, ServerPlace, Catalogue, Served
    <3>2. ASSUME NEW s \in rucio_server_names, AtServer(s)
          PROVE  Tree!rucio_getattr(p) \subseteq {"directory", "file"}
      <4>1. s \in Tree!Name /\ s \in Text /\ Proper(Rooted(s))
        BY Catalogue, NameIs, ServerPlace
      <4>2. name \in Scopes[s] /\ name \in Tree!Name
        BY <3>2, <4>1, ServerPlace, TopmostIs, Catalogue DEF AtServer
      <4>3. p = Rooted(Under(s, name))
        BY <2>2, <3>2, <4>1, <4>2, BelowProper DEF AtServer
      <4> QED
        BY <2>2, <4>1, <4>2, <4>3, ScopePlace, Catalogue, Served
    <3>3. CASE Tree!path_depth(path) > 1
      BY <3>3, RootDepth, TopmostIs
    <3>4. \/ AtRoot \/ (\E s \in rucio_server_names : AtServer(s)) \/ Tree!path_depth(path) > 1
      BY Places
    <3> QED
      BY <3>1, <3>2, <3>3, <3>4
  <2>3. ASSUME NEW d \in Tree!DidsIn(path), NEW p, p = Tree!Below(path, d[2]),
               ~ Tree!is_hidden(p), ~ Tree!is_mac_specific(p)
        PROVE  Tree!rucio_getattr(p) \subseteq {"directory", "file"}
    <3>1. d \in Tree!Dids /\ d[2] \in Tree!Name /\ d[2] \in Text /\ Proper(d[2])
      BY DidsInAre, Catalogue, NameIsProper
    <3>2. ~ (Tree!path_depth(path) < 2)
      BY DidsInAre
    <3>3. ~ Tree!is_root_path(path)
      BY <3>2, RootDepth
    <3>4. PICK s \in Tree!Name, r \in Text :
            /\ s \in rucio_server_names /\ Proper(r) /\ path = Rooted(r)
            /\ r = s \/ \E x \in Text : r = Under(s, x)
            /\ Tree!path_depth(path) \in Nat
      BY <3>3, Places
    <3>5. s \in Text /\ Proper(Rooted(r))
      BY <3>4, NameIs, ProperUnder
    <3>6. p = Rooted(Under(r, d[2])) /\ Tree!path_depth(p) = Tree!path_depth(path) + 1
      BY <2>3, <3>1, <3>4, <3>5, BelowProper
    <3>7. PICK y \in Text : Under(r, d[2]) = Under(s, y)
      <4>1. ASSUME NEW x \in Text, r = Under(s, x)
            PROVE  Under(r, d[2]) = Under(s, Under(x, d[2])) /\ Under(x, d[2]) \in Text
        <5>1. Under(Under(s, x), d[2]) = Under(s, Under(x, d[2]))
          BY <3>1, <3>5, UnderAssociative
        <5>2. Under(x, d[2]) \in Text
          BY <3>1, UnderIs
        <5> QED
          BY <4>1, <5>1, <5>2
      <4>2. CASE r = s
        BY <3>1, <4>2, Zenon
      <4>3. r = s \/ \E x \in Text : r = Under(s, x)
        BY <3>4
      <4> QED
        BY <4>1, <4>2, <4>3, Zenon
    <3>8. Tree!extract_server_name(p) = s
      BY <3>6, <3>7, ServerOf
    <3>9. ~ Tree!is_root_path(p)
      BY <3>1, <3>4, <3>6, ProperUnder, DepthIs
    <3>10. Tree!path_depth(p) > 2
      BY <3>2, <3>4, <3>6
    <3> QED
      BY <2>3, <3>4, <3>8, <3>9, <3>10, Catalogue, Served
  <2> QED
    BY <2>1, <2>2, <2>3 DEF Tree!ListedAreServed
<1>2. QED  BY <1>1, Invariant, WalkInvariant, PTL
=================================================================================
