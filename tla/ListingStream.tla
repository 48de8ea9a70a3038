----------------------------- MODULE ListingStream -----------------------------
(******************************************************************************)
(* How the bytes of a listing become entries.  libcurl hands a response over  *)
(* in chunks cut anywhere.  A list of DiDs has one "{...}" per line: each     *)
(* chunk is split into lines, and a line broken by a cut is put together      *)
(* again through did_string_remainder, one variable for the whole process.    *)
(* A list of scopes is one "[...]" whose chunks are tokenized one by one.     *)
(*                                                                            *)
(* A character is a tuple; the text of an entry is two characters, so that a  *)
(* cut can fall inside it.                                                    *)
(******************************************************************************)
EXTENDS Integers, Sequences, SequencesExt, FiniteSetsExt

CONSTANTS
  Threads,     \* libfuse threads that list
  Names,       \* the entries a listing may hold
  MaxEntries,  \* entries of one listing
  MaxCuts,     \* cuts in one response
  ErrorPages   \* whether the server may answer a list of DiDs with plain text

ASSUME BoundsAssumption == MaxEntries \in Nat /\ MaxCuts \in Nat

Open == <<"{">>
Close == <<"}">>
Newline == <<"newline">>
LBracket == <<"[">>
Comma == <<",">>
RBracket == <<"]">>
Letter(n, i) == <<"text", n, i>>
Text(n) == <<Letter(n, 1), Letter(n, 2)>>
ErrorPage == <<<<"page", 1>>, <<"page", 2>>>>

Record(n) == <<Open, Letter(n, 1), Letter(n, 2), Close>>

\* One record to a line, all of one length.
Line(n) == Append(Record(n), Newline)

DidResponse(ns) ==
  [i \in 1 .. 5 * Len(ns) |-> Line(ns[(i - 1) \div 5 + 1])[((i - 1) % 5) + 1]]

\* The entries of a list of scopes, each with a comma but the last.
Item(n) == Append(Text(n), Comma)

Items(ns) ==
  [i \in 1 .. 3 * Len(ns) - 1 |-> Item(ns[(i - 1) \div 3 + 1])[((i - 1) % 3) + 1]]

ScopeResponse(ns) == <<LBracket>> \o Items(ns) \o <<RBracket>>

VARIABLES
  pc,         \* "idle", "dids", "scopes", "done", or "aborted" by an exception
  kind,       \* what the thread is listing, or listed last
  names,      \* what the server put in the response
  response,   \* its characters
  cuts,       \* the positions after which a chunk ends
  pos,        \* characters parsed so far
  target,     \* the entries found so far, as text
  did_string_remainder,
  refused     \* history: the server has answered a list of DiDs with an error page

vars == <<pc, kind, names, response, cuts, pos, target, did_string_remainder, refused>>

Init ==
  /\ pc = [t \in Threads |-> "idle"]
  /\ kind = [t \in Threads |-> "none"]
  /\ names = [t \in Threads |-> <<>>]
  /\ response = [t \in Threads |-> <<>>]
  /\ cuts = [t \in Threads |-> {}]
  /\ pos = [t \in Threads |-> 0]
  /\ target = [t \in Threads |-> <<>>]
  /\ did_string_remainder = <<>>
  /\ refused = FALSE

--------------------------------------------------------------------------------
(* A whole response is received before any of it is parsed *)

Deliver(t, k, ns, text) ==
  /\ pc[t] = "idle"
  /\ pc' = [pc EXCEPT ![t] = k]
  /\ kind' = [kind EXCEPT ![t] = k]
  /\ names' = [names EXCEPT ![t] = ns]
  /\ response' = [response EXCEPT ![t] = text]
  /\ \E n \in 0 .. MaxCuts : \E c \in kSubset(n, 1 .. Len(text) - 1) :
       cuts' = [cuts EXCEPT ![t] = c]
  /\ pos' = [pos EXCEPT ![t] = 0]
  /\ target' = [target EXCEPT ![t] = <<>>]
  /\ UNCHANGED did_string_remainder

ReceiveDids(t) ==
  /\ \E ns \in BoundedSeq(Names, MaxEntries) : Deliver(t, "dids", ns, DidResponse(ns))
  /\ UNCHANGED refused

\* An error page is listed too: curl reports CURLE_OK for any HTTP status.
ReceiveErrorPage(t) ==
  /\ ErrorPages
  /\ did_string_remainder = <<>>      \* bound: one unfinished page at a time
  /\ Deliver(t, "dids", <<>>, ErrorPage)
  /\ refused' = TRUE

ReceiveScopes(t) ==
  /\ \E ns \in BoundedSeq(Names, MaxEntries) : Deliver(t, "scopes", ns, ScopeResponse(ns))
  /\ UNCHANGED refused

--------------------------------------------------------------------------------
(* Lists of DiDs: split_dids and coherentize_dids *)

\* Where the next piece ends: a newline, the end of the chunk or of the response.
PieceEnd(t) ==
  Min({i \in (pos[t] + 1) .. Len(response[t]) :
         \/ response[t][i] = Newline
         \/ i \in cuts[t]
         \/ i = Len(response[t])})

\* A part of a text without the separator that ends it.
Upto(text, from, end, separator) ==
  SubSeq(text, from, IF text[end] = separator THEN end - 1 ELSE end)

Piece(t) == Upto(response[t], pos[t] + 1, PieceEnd(t), Newline)

Unfinished(piece) == piece = <<>> \/ Last(piece) # Close

\* Mutants: the remainder is replaced instead of extended; it is kept after use.
RemainderReplaced(piece, rem) ==
  IF Unfinished(piece) THEN [string |-> <<>>, rem |-> piece]
  ELSE IF Head(piece) # Open THEN [string |-> rem \o piece, rem |-> <<>>]
  ELSE [string |-> piece, rem |-> rem]

RemainderKept(piece, rem) ==
  IF Unfinished(piece) THEN [string |-> <<>>, rem |-> rem \o piece]
  ELSE IF Head(piece) # Open THEN [string |-> rem \o piece, rem |-> rem]
  ELSE [string |-> piece, rem |-> rem]

\* The string a piece becomes and the remainder left behind: a piece that does not
\* end a record is put aside, one that does not start a record completes it.
coherentize_dids(piece, rem) ==
  IF Unfinished(piece) THEN [string |-> <<>>, rem |-> rem \o piece]
  ELSE IF Head(piece) # Open THEN [string |-> rem \o piece, rem |-> <<>>]
  ELSE [string |-> piece, rem |-> rem]

\* Mutant: two characters are taken for the end of a line.
TwoForNewline(t) == PieceEnd(t) + 1

NextPiece(t) == PieceEnd(t)

ParsePiece(t) ==
  /\ pc[t] = "dids"
  /\ pos[t] < Len(response[t])
  /\ LET merged == coherentize_dids(Piece(t), did_string_remainder) IN
       /\ did_string_remainder' = merged.rem
       /\ target' = [target EXCEPT ![t] =
                       IF merged.string = <<>> THEN @ ELSE Append(@, merged.string)]
  /\ pos' = [pos EXCEPT ![t] = NextPiece(t)]
  /\ UNCHANGED <<pc, kind, names, response, cuts, refused>>

--------------------------------------------------------------------------------
(* Lists of scopes: tokenize_python_list, chunk by chunk *)

ChunkEnd(t) == Min({i \in cuts[t] \cup {Len(response[t])} : i > pos[t]})

\* Mutant: the opening bracket stays.
InnerWithBracket(chunk) == SubSeq(chunk, 1, Len(chunk) - 1)

\* The first and the last character go, whatever they are.
Inner(chunk) == SubSeq(chunk, 2, Len(chunk) - 1)

\* Where the elements of a comma-separated text end, and where one that ends there begins.
Ends(text) == {i \in 1 .. Len(text) : text[i] = Comma \/ i = Len(text)}
From(text, end) == 1 + Max({0} \cup {i \in Ends(text) : i < end})
NthEnd(text, k) == CHOOSE e \in Ends(text) : Cardinality({i \in Ends(text) : i <= e}) = k

\* The elements of a comma-separated text, none for an empty text.  Of the characters the
\* code strips from an element, quotes and blanks are not modelled, and the bracket that
\* closes the list, the last of its chunk, is already gone.
Elements(text) ==
  [k \in 1 .. Cardinality(Ends(text)) |->
     LET e == NthEnd(text, k) IN Upto(text, From(text, e), e, Comma)]

TokenizeChunk(t) ==
  LET chunk == SubSeq(response[t], pos[t] + 1, ChunkEnd(t)) IN
  /\ pc[t] = "scopes"
  /\ pos[t] < Len(response[t])
  /\ IF Len(chunk) = 1
       THEN \* erase(size() - 1) of the emptied copy throws
            pc' = [pc EXCEPT ![t] = "aborted"] /\ UNCHANGED <<target, pos>>
       ELSE /\ target' = [target EXCEPT ![t] = @ \o Elements(Inner(chunk))]
            /\ pos' = [pos EXCEPT ![t] = ChunkEnd(t)]
            /\ UNCHANGED pc
  /\ UNCHANGED <<kind, names, response, cuts, did_string_remainder, refused>>

--------------------------------------------------------------------------------
Finish(t) ==
  /\ pc[t] \in {"dids", "scopes"}
  /\ pos[t] = Len(response[t])
  /\ pc' = [pc EXCEPT ![t] = "done"]
  /\ UNCHANGED <<kind, names, response, cuts, pos, target, did_string_remainder, refused>>

\* The call returns; only the remainder outlives it.
Return(t) ==
  /\ pc[t] = "done"
  /\ pc' = [pc EXCEPT ![t] = "idle"]
  /\ kind' = [kind EXCEPT ![t] = "none"]
  /\ names' = [names EXCEPT ![t] = <<>>]
  /\ response' = [response EXCEPT ![t] = <<>>]
  /\ cuts' = [cuts EXCEPT ![t] = {}]
  /\ pos' = [pos EXCEPT ![t] = 0]
  /\ target' = [target EXCEPT ![t] = <<>>]
  /\ UNCHANGED <<did_string_remainder, refused>>

Next ==
  \E t \in Threads :
    \/ ReceiveDids(t)
    \/ ReceiveErrorPage(t)
    \/ ReceiveScopes(t)
    \/ ParsePiece(t)
    \/ TokenizeChunk(t)
    \/ Finish(t)
    \/ Return(t)

Spec == Init /\ [][Next]_vars

--------------------------------------------------------------------------------
(* Properties *)

\* The remainder is text, a thread is in one of its steps, and what it has parsed
\* does not go past its response (coherentize_dids, split_dids).
TypeOK ==
  \A t \in Threads :
    /\ pc[t] \in {"idle", "dids", "scopes", "done", "aborted"}
    /\ pos[t] \in 0 .. Len(response[t])
    /\ cuts[t] \subseteq 1 .. Len(response[t])
    /\ Len(target[t]) <= pos[t]

\* Strings split in multiple curl responses are merged together: as long as the server
\* has answered with listings only, the strings of a list of DiDs are the records the
\* server sent, in order, however the list was cut.
Reassembled ==
  \A t \in Threads :
    ~ refused /\ pc[t] = "done" /\ kind[t] = "dids" =>
      target[t] = [i \in 1 .. Len(names[t]) |-> Record(names[t][i])]

\* A listing leaves nothing behind in the shared remainder for the next one, unless it
\* was an error page.
NothingLeftOver ==
  ~ refused /\ (\A t \in Threads : pc[t] # "dids") => did_string_remainder = <<>>

\* A list of scopes that arrives in one chunk yields every scope, and never throws.
WholeScopesListed ==
  \A t \in Threads :
    kind[t] = "scopes" /\ cuts[t] = {} =>
      /\ pc[t] # "aborted"
      /\ pc[t] = "done" => target[t] = [i \in 1 .. Len(names[t]) |-> Text(names[t][i])]
================================================================================
