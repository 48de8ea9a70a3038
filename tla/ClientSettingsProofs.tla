-------------------------- MODULE ClientSettingsProofs --------------------------
(******************************************************************************)
(* Proofs that copies are complete and that a login returns its own token,    *)
(* for any servers, users, folders and clients.                               *)
(******************************************************************************)
EXTENDS ClientSettings, TLAPS

\* What a copy that no thread gave up on lacks, a thread at work on it will add.
WorkInv ==
  \A d \in DOMAIN copies \ spoilt :
    /\ copies[d].text = {} => \E c \in Clients : pc[c] = "fill" /\ Copy(c) = d
    /\ copies[d].token_paths = <<>> => \E c \in Copying : Copy(c) = d

\* What a copy holds was written for calls that have it.
WriterInv ==
  \A d \in DOMAIN copies :
    /\ \A s \in copies[d].text : \E y \in Calls : destination(y) = d /\ s[1] = y[1]
    /\ \A p \in Range(copies[d].token_paths) :
         \E y \in Calls : destination(y) = d /\ token_path(y) = p

\* The token at a path that belongs to one call alone is that call's, or is none.
TokenInv ==
  \A x \in Calls :
    OwnCopy(x) /\ OwnTokenPath(x) /\ TokenThere(x)
      => token_files[token_path(x)] \in {x, Malformed}

\* A login that has received something has not begun another call.
ReturnInv ==
  /\ DOMAIN received = Logins
  /\ \A l \in Logins : received[l] # Nothing => pc[l] = "returned"

IInv ==
  /\ TypeOK
  /\ WorkInv
  /\ WriterInv
  /\ TokenInv
  /\ ReturnInv
  /\ OwnTokenReceived

--------------------------------------------------------------------------------
\* The elements of a sequence with one more.
LEMMA RangeAppend ==
  ASSUME NEW S, NEW s \in Seq(S), NEW e \in S
  PROVE  Range(Append(s, e)) = Range(s) \cup {e}
<1>1. DOMAIN s = 1 .. Len(s) /\ DOMAIN Append(s, e) = 1 .. Len(s) + 1 /\ Len(s) \in Nat
  OBVIOUS
<1>2. /\ Append(s, e)[Len(s) + 1] = e
      /\ \A i \in 1 .. Len(s) : Append(s, e)[i] = s[i]
  OBVIOUS
<1>3. QED  BY <1>1, <1>2 DEF Range

\* The initial call is one of the calls.
LEMMA SomeoneCalls ==
  ASSUME Assumption  PROVE Someone \in Calls
BY DEF Assumption, Someone

\* All calls that have the copy of a call that has its own are that call.
LEMMA OwnCopyIsOwn ==
  ASSUME NEW x \in Calls, NEW y \in Calls, OwnCopy(x), destination(y) = destination(x)
  PROVE  y = x
<1>1. /\ temp_config_folder[y[1]] = temp_config_folder[x[1]]
      /\ y[1] \o <<"_">> \o y[2] = x[1] \o <<"_">> \o x[2]
  BY DEF destination
<1>2. QED  BY <1>1 DEF OwnCopy

\* So it is with token paths.
LEMMA OwnTokenPathIsOwn ==
  ASSUME NEW x \in Calls, NEW y \in Calls, OwnTokenPath(x), token_path(y) = token_path(x)
  PROVE  y = x
BY DEF OwnTokenPath, token_path

--------------------------------------------------------------------------------
(* Types *)

\* The initial states satisfy the inductive invariant.
LEMMA InitIInv ==
  ASSUME Assumption, Init  PROVE IInv
<1>1. TypeOK
  BY SomeoneCalls DEF Init, TypeOK, Steps, Editions, Assumption
<1>2. WorkInv /\ WriterInv /\ TokenInv /\ ReturnInv /\ OwnTokenReceived
  BY DEF Init, WorkInv, WriterInv, TokenInv, TokenThere, ReturnInv, OwnTokenReceived
<1>3. QED  BY <1>1, <1>2 DEF IInv

\* Steps that write no copy and end no thread's claim to one keep the types.
LEMMA GotoTypes ==
  ASSUME TypeOK, NEW c \in Clients, NEW step \in Steps, Goto(c, step),
         UNCHANGED <<settings_file, copies>>,
         step \in {"fill", "append", "start", "client"} => Copy(c) \in DOMAIN copies
  PROVE  TypeOK'
<1>1. \A b \in Clients : Copy(b)' = Copy(b)
  BY DEF Copy, destination, Goto
<1>2. pc' \in [Clients -> Steps] /\ call' \in [Clients -> Calls]
  BY DEF TypeOK, Goto
<1>3. \A b \in Clients : pc'[b] = IF b = c THEN step ELSE pc[b]
  BY DEF TypeOK, Goto
<1>4. QED  BY <1>1, <1>2, <1>3 DEF TypeOK

\* A thread that comes to rest keeps them.
LEMMA RestTypes ==
  ASSUME Assumption, TypeOK, NEW c \in Clients, Rest(c), UNCHANGED <<settings_file, copies>>
  PROVE  TypeOK'
<1>1. pc' \in [Clients -> Steps] /\ call' \in [Clients -> Calls]
  BY SomeoneCalls DEF TypeOK, Rest, Steps
<1>2. \A b \in Clients : pc'[b] = "idle" \/ (pc'[b] = pc[b] /\ Copy(b)' = Copy(b))
  BY DEF TypeOK, Rest, Copy, destination
<1>3. QED  BY <1>1, <1>2 DEF TypeOK

\* Creating a copy, empty, keeps the types, for copies stay.
LEMMA CreateCopyTypes ==
  ASSUME Assumption, TypeOK, NEW c \in Clients, CreateCopy(c)
  PROVE  TypeOK'
<1> DEFINE d == Copy(c)
           r == [text |-> {}, token_paths |-> <<>>]
<1>1. /\ DOMAIN copies' = DOMAIN copies \cup {d}
      /\ \A e \in DOMAIN copies' : copies'[e] = IF e = d THEN r ELSE copies[e]
  BY DEF CreateCopy, Written
<1>2. r \in CopyTypes
  BY DEF CopyTypes
<1>3. \A e \in DOMAIN copies' : copies'[e] \in CopyTypes
  BY <1>1, <1>2 DEF TypeOK
<1>4. \A b \in Clients : Copy(b)' = Copy(b)
  BY DEF Copy, destination, CreateCopy, Goto
<1>5. pc' \in [Clients -> Steps] /\ call' \in [Clients -> Calls] /\ settings_file' = settings_file
  BY DEF TypeOK, CreateCopy, Goto, Steps
<1>6. \A b \in Clients : pc'[b] = IF b = c THEN "fill" ELSE pc[b]
  BY DEF TypeOK, CreateCopy, Goto
<1>7. QED  BY <1>1, <1>3, <1>4, <1>5, <1>6 DEF TypeOK

\* Writing settings into a copy keeps the types.
LEMMA FillCopyTypes ==
  ASSUME Assumption, TypeOK, NEW c \in Clients, FillCopy(c)
  PROVE  TypeOK'
<1> DEFINE d == Copy(c)
           T == {token_path(x) : x \in Calls}
<1>1. d \in DOMAIN copies /\ copies[d] \in CopyTypes
  BY DEF TypeOK, FillCopy
<1>2. PICK text \in {{Source(c)}, copies[d].text \cup {Source(c)}}, paths \in Kept(c) :
        copies' = [copies EXCEPT ![d] = [text |-> text, token_paths |-> paths]]
  BY DEF FillCopy
<1>3. Source(c) \in Servers \X Editions
  BY DEF TypeOK, Source, Assumption
<1>4. text \in SUBSET (Servers \X Editions) /\ paths \in Seq(T)
  <2>1. copies[d].text \in SUBSET (Servers \X Editions) /\ copies[d].token_paths \in Seq(T)
    BY <1>1 DEF CopyTypes
  <2>2. paths \in {copies[d].token_paths, <<>>}
    BY DEF Kept
  <2>3. text \in SUBSET (Servers \X Editions)
    BY <1>3, <2>1
  <2> HIDE DEF T
  <2>4. <<>> \in Seq(T)
    OBVIOUS
  <2>5. QED  BY <2>1, <2>2, <2>3, <2>4
<1>5. /\ DOMAIN copies' = DOMAIN copies
      /\ \A e \in DOMAIN copies' : copies'[e] \in CopyTypes
  BY <1>1, <1>2, <1>4 DEF TypeOK, CopyTypes
<1>6. \A b \in Clients : Copy(b)' = Copy(b)
  BY DEF Copy, destination, FillCopy, Goto
<1>7. pc' \in [Clients -> Steps] /\ call' \in [Clients -> Calls] /\ settings_file' = settings_file
  BY DEF TypeOK, FillCopy, Goto, Steps
<1>8. \A b \in Clients : pc'[b] = IF b = c THEN "append" ELSE pc[b]
  BY DEF TypeOK, FillCopy, Goto
<1>9. QED  BY <1>1, <1>5, <1>6, <1>7, <1>8 DEF TypeOK

\* So does appending the token path.
LEMMA AppendTypes ==
  ASSUME Assumption, TypeOK, NEW c \in Clients, AppendTokenPath(c)
  PROVE  TypeOK'
<1> DEFINE d == Copy(c)
           T == {token_path(x) : x \in Calls}
           p == token_path(call[c])
<1>1. d \in DOMAIN copies /\ copies[d] \in CopyTypes
  BY DEF TypeOK, AppendTokenPath
<1>2. /\ DOMAIN copies' = DOMAIN copies
      /\ \A e \in DOMAIN copies' : copies'[e] \in CopyTypes
  <2>1. p \in T
    BY DEF TypeOK
  <2>2. Append(copies[d].token_paths, p) \in Seq(T)
    BY <1>1, <2>1 DEF CopyTypes
  <2>3. CASE copies' = [copies EXCEPT ![d].token_paths = Append(@, p)]
    BY <1>1, <2>2, <2>3 DEF TypeOK, CopyTypes
  <2>4. CASE UNCHANGED copies
    BY <2>4 DEF TypeOK
  <2>5. QED  BY <2>3, <2>4 DEF AppendTokenPath
<1>3. \A b \in Clients : Copy(b)' = Copy(b)
  BY DEF Copy, destination, AppendTokenPath, Goto
<1>4. pc' \in [Clients -> Steps] /\ call' \in [Clients -> Calls] /\ settings_file' = settings_file
  BY DEF TypeOK, AppendTokenPath, Goto, Steps
<1>5. \A b \in Clients : pc'[b] = IF b = c THEN "start" ELSE pc[b]
  BY DEF TypeOK, AppendTokenPath, Goto
<1>6. QED  BY <1>1, <1>2, <1>3, <1>4, <1>5 DEF TypeOK

--------------------------------------------------------------------------------
(* Steps that write no copy *)

\* Such a step of a thread that is not at work on a copy keeps what is said of copies.
LEMMA ElsewhereWork ==
  ASSUME WorkInv, UNCHANGED <<copies, spoilt>>,
         \A c \in Copying : pc'[c] = pc[c] /\ call'[c] = call[c]
  PROVE  WorkInv'
<1>1. \A c \in Copying : c \in Copying' /\ pc'[c] = pc[c] /\ Copy(c)' = Copy(c)
  BY DEF Copying, Copy, destination
<1>2. ASSUME NEW c \in Clients, pc[c] = "fill"  PROVE c \in Copying
  BY <1>2 DEF Copying
<1>3. QED  BY <1>1, <1>2 DEF WorkInv

\* What copies hold does not change with the threads.
LEMMA ElsewhereWriter ==
  ASSUME WriterInv, UNCHANGED copies
  PROVE  WriterInv'
BY DEF WriterInv, destination, token_path

\* Nor do tokens.
LEMMA ElsewhereToken ==
  ASSUME TokenInv, UNCHANGED token_files
  PROVE  TokenInv'
BY DEF TokenInv, OwnCopy, OwnTokenPath, TokenThere, token_path

\* What was received stays the login's as long as its call does.
LEMMA ElsewhereReceived ==
  ASSUME ReturnInv, OwnTokenReceived, UNCHANGED received,
         \A l \in Logins : pc[l] = "returned" => pc'[l] = pc[l] /\ call'[l] = call[l]
  PROVE  ReturnInv' /\ OwnTokenReceived'
<1>1. ReturnInv'
  BY DEF ReturnInv
<1>2. ASSUME NEW l \in Logins, received'[l] # Nothing, OwnCopy(call'[l]), OwnTokenPath(call'[l])
      PROVE  received'[l] = call'[l]
  <2>1. call'[l] = call[l] /\ received'[l] = received[l]
    BY <1>2 DEF ReturnInv
  <2>2. QED  BY <1>2, <2>1 DEF OwnTokenReceived
<1>3. OwnTokenReceived'
  BY <1>2 DEF OwnTokenReceived, OwnCopy, OwnTokenPath
<1>4. QED  BY <1>1, <1>3

--------------------------------------------------------------------------------
(* Steps at work on a copy *)

\* An empty copy is one that its maker is about to fill.
LEMMA CreateCopyKeeps ==
  ASSUME IInv, NEW c \in Clients, CreateCopy(c)
  PROVE  WorkInv' /\ WriterInv'
<1> DEFINE d == Copy(c)
           r == [text |-> {}, token_paths |-> <<>>]
<1>1. /\ DOMAIN copies' = DOMAIN copies \cup {d}
      /\ copies'[d] = r
      /\ \A e \in DOMAIN copies : e # d => copies'[e] = copies[e]
  BY DEF CreateCopy, Written
<1>2. \A b \in Clients : Copy(b)' = Copy(b)
  BY DEF Copy, destination, CreateCopy, Goto
<1>3. \A b \in Clients : pc'[b] = IF b = c THEN "fill" ELSE pc[b]
  BY DEF IInv, TypeOK, CreateCopy, Goto
<1>4. spoilt' = spoilt /\ pc[c] = "create"
  BY DEF CreateCopy
<1>5. ASSUME NEW e \in DOMAIN copies' \ spoilt'
      PROVE  /\ copies'[e].text = {} => \E b \in Clients : pc'[b] = "fill" /\ Copy(b)' = e
             /\ copies'[e].token_paths = <<>> => \E b \in Copying' : Copy(b)' = e
  <2>1. CASE e = d
    <3>1. c \in Copying' /\ pc'[c] = "fill" /\ Copy(c)' = e
      BY <1>2, <1>3, <2>1 DEF Copying
    <3>2. QED  BY <3>1
  <2>2. CASE e # d
    <3>1. e \in DOMAIN copies \ spoilt /\ copies'[e] = copies[e]
      BY <1>1, <1>4, <1>5, <2>2
    <3>2. \A b \in Copying : b \in Copying' /\ pc'[b] = pc[b]
      BY <1>3, <1>4 DEF Copying
    <3>3. QED  BY <1>2, <3>1, <3>2 DEF IInv, WorkInv, Copying
  <2>3. QED  BY <2>1, <2>2
<1>6. WriterInv'
  <2> SUFFICES ASSUME NEW e \in DOMAIN copies'
               PROVE  /\ \A s \in copies'[e].text :
                           \E y \in Calls : destination(y) = e /\ s[1] = y[1]
                      /\ \A p \in Range(copies'[e].token_paths) :
                           \E y \in Calls : destination(y) = e /\ token_path(y) = p
    BY DEF WriterInv, destination, token_path
  <2>1. CASE e = d
    <3>1. copies'[e].text = {} /\ Range(copies'[e].token_paths) = {}
      BY <1>1, <2>1 DEF Range
    <3>2. QED  BY <3>1
  <2>2. CASE e # d
    BY <1>1, <2>2 DEF IInv, WriterInv
  <2>3. QED  BY <2>1, <2>2
<1>7. QED  BY <1>5, <1>6 DEF WorkInv

\* A thread that has filled a copy is about to append to it.
LEMMA FillCopyKeeps ==
  ASSUME Assumption, IInv, NEW c \in Clients, FillCopy(c)
  PROVE  WorkInv' /\ WriterInv'
<1> DEFINE d == Copy(c)
<1>1. d \in DOMAIN copies /\ copies[d] \in CopyTypes /\ call[c] \in Calls
  BY DEF IInv, TypeOK, FillCopy
<1>2. PICK text \in {{Source(c)}, copies[d].text \cup {Source(c)}}, paths \in Kept(c) :
        copies' = [copies EXCEPT ![d] = [text |-> text, token_paths |-> paths]]
  BY DEF FillCopy
<1>3. /\ DOMAIN copies' = DOMAIN copies
      /\ copies'[d].text = text /\ copies'[d].token_paths = paths
      /\ \A e \in DOMAIN copies : e # d => copies'[e] = copies[e]
  BY <1>1, <1>2
<1>4. text # {}
  BY <1>2
<1>5. \A b \in Clients : Copy(b)' = Copy(b)
  BY DEF Copy, destination, FillCopy, Goto
<1>6. \A b \in Clients : pc'[b] = IF b = c THEN "append" ELSE pc[b]
  BY DEF IInv, TypeOK, FillCopy, Goto
<1>7. spoilt' = spoilt
  BY DEF FillCopy
<1>8. ASSUME NEW e \in DOMAIN copies' \ spoilt'
      PROVE  /\ copies'[e].text = {} => \E b \in Clients : pc'[b] = "fill" /\ Copy(b)' = e
             /\ copies'[e].token_paths = <<>> => \E b \in Copying' : Copy(b)' = e
  <2>1. CASE e = d
    <3>1. c \in Copying' /\ Copy(c)' = e
      BY <1>5, <1>6, <2>1 DEF Copying
    <3>2. QED  BY <1>3, <1>4, <2>1, <3>1
  <2>2. CASE e # d
    <3>1. e \in DOMAIN copies \ spoilt /\ copies'[e] = copies[e]
      BY <1>3, <1>7, <1>8, <2>2
    <3>2. \A b \in Clients : Copy(b) = e => (b \in Copying => b \in Copying') /\ pc'[b] = pc[b]
      BY <1>6, <2>2 DEF Copying
    <3>3. QED  BY <1>5, <3>1, <3>2 DEF IInv, WorkInv, Copying
  <2>3. QED  BY <2>1, <2>2
<1>9. WriterInv'
  <2> SUFFICES ASSUME NEW e \in DOMAIN copies'
               PROVE  /\ \A s \in copies'[e].text :
                           \E y \in Calls : destination(y) = e /\ s[1] = y[1]
                      /\ \A p \in Range(copies'[e].token_paths) :
                           \E y \in Calls : destination(y) = e /\ token_path(y) = p
    BY DEF WriterInv, destination, token_path
  <2>1. CASE e = d
    <3>1. destination(call[c]) = e
      BY <2>1 DEF Copy
    <3>2. \A s \in text : s[1] = call[c][1] \/ s \in copies[d].text
      BY <1>2 DEF Source
    <3>3. paths = <<>> \/ paths = copies[d].token_paths
      BY DEF Kept
    <3>4. \A p \in Range(paths) : p \in Range(copies[d].token_paths)
      BY <3>3 DEF Range
    <3>5. QED  BY <1>1, <1>3, <2>1, <3>1, <3>2, <3>4 DEF IInv, WriterInv
  <2>2. CASE e # d
    BY <1>3, <2>2 DEF IInv, WriterInv
  <2>3. QED  BY <2>1, <2>2
<1>10. QED  BY <1>8, <1>9 DEF WorkInv

\* A line appended completes the copy for good; one that was not spoils it.
LEMMA AppendKeeps ==
  ASSUME Assumption, IInv, NEW c \in Clients, AppendTokenPath(c)
  PROVE  WorkInv' /\ WriterInv'
<1> DEFINE d == Copy(c)
           p == token_path(call[c])
           old == copies[d].token_paths
           T == {token_path(x) : x \in Calls}
<1>1. d \in DOMAIN copies /\ copies[d] \in CopyTypes /\ call[c] \in Calls
  BY DEF IInv, TypeOK, AppendTokenPath
<1>2. old \in Seq(T) /\ p \in T
  BY <1>1 DEF CopyTypes
<1>3. \A b \in Clients : Copy(b)' = Copy(b)
  BY DEF Copy, destination, AppendTokenPath, Goto
<1>4. \A b \in Clients : pc'[b] = IF b = c THEN "start" ELSE pc[b]
  BY DEF IInv, TypeOK, AppendTokenPath, Goto
<1>5. pc[c] = "append"
  BY DEF AppendTokenPath
<1>6. CASE UNCHANGED spoilt /\ copies' = [copies EXCEPT ![d].token_paths = Append(@, p)]
  <2>1. /\ DOMAIN copies' = DOMAIN copies
        /\ copies'[d].text = copies[d].text
        /\ copies'[d].token_paths = Append(old, p)
        /\ \A e \in DOMAIN copies : e # d => copies'[e] = copies[e]
    BY <1>1, <1>6 DEF CopyTypes
  <2>2. Append(old, p) # <<>> /\ Range(Append(old, p)) = Range(old) \cup {p}
    <3> HIDE DEF old, p, T
    <3>1. QED  BY <1>2, RangeAppend
  <2>3. ASSUME NEW e \in DOMAIN copies' \ spoilt'
        PROVE  /\ copies'[e].text = {} => \E b \in Clients : pc'[b] = "fill" /\ Copy(b)' = e
               /\ copies'[e].token_paths = <<>> => \E b \in Copying' : Copy(b)' = e
    <3>1. e \in DOMAIN copies \ spoilt /\ copies'[e].text = copies[e].text
      BY <1>6, <2>1, <2>3
    <3>2. copies[e].text = {} => \E b \in Clients : pc'[b] = "fill" /\ Copy(b)' = e
      BY <1>3, <1>4, <1>5, <3>1 DEF IInv, WorkInv
    <3>3. CASE e = d
      BY <2>1, <2>2, <3>1, <3>2, <3>3
    <3>4. CASE e # d
      <4>1. \A b \in Copying : Copy(b) = e => b \in Copying'
        BY <1>4, <3>4 DEF Copying
      <4>2. Copying \subseteq Clients
        BY DEF Copying
      <4>3. QED  BY <1>3, <2>1, <3>1, <3>2, <3>4, <4>1, <4>2 DEF IInv, WorkInv
    <3>5. QED  BY <3>3, <3>4
  <2>4. WriterInv'
    <3> SUFFICES ASSUME NEW e \in DOMAIN copies'
                 PROVE  /\ \A s \in copies'[e].text :
                             \E y \in Calls : destination(y) = e /\ s[1] = y[1]
                        /\ \A q \in Range(copies'[e].token_paths) :
                             \E y \in Calls : destination(y) = e /\ token_path(y) = q
      BY DEF WriterInv, destination, token_path
    <3>1. CASE e = d
      <4>1. destination(call[c]) = e
        BY <3>1 DEF Copy
      <4>2. \A s \in copies'[e].text : \E y \in Calls : destination(y) = e /\ s[1] = y[1]
        BY <1>1, <2>1, <3>1 DEF IInv, WriterInv
      <4>3. \A q \in Range(old) : \E y \in Calls : destination(y) = e /\ token_path(y) = q
        BY <1>1, <3>1 DEF IInv, WriterInv
      <4>4. \E y \in Calls : destination(y) = e /\ token_path(y) = p
        BY <1>1, <4>1
      <4>5. Range(copies'[e].token_paths) = Range(old) \cup {p}
        BY <2>1, <2>2, <3>1
      <4> HIDE DEF old, p
      <4>6. QED  BY <4>2, <4>3, <4>4, <4>5
    <3>2. CASE e # d
      BY <2>1, <3>2 DEF IInv, WriterInv
    <3>3. QED  BY <3>1, <3>2
  <2>5. QED  BY <2>3, <2>4 DEF WorkInv
<1>7. CASE spoilt' = spoilt \cup {d} /\ UNCHANGED copies
  <2>1. ASSUME NEW e \in DOMAIN copies' \ spoilt'
        PROVE  /\ copies'[e].text = {} => \E b \in Clients : pc'[b] = "fill" /\ Copy(b)' = e
               /\ copies'[e].token_paths = <<>> => \E b \in Copying' : Copy(b)' = e
    <3>1. e \in DOMAIN copies \ spoilt /\ copies'[e] = copies[e] /\ e # d
      BY <1>7, <2>1
    <3>2. \A b \in Clients : Copy(b) = e => (b \in Copying => b \in Copying') /\ pc'[b] = pc[b]
      BY <1>4, <3>1 DEF Copying
    <3>3. QED  BY <1>3, <3>1, <3>2 DEF IInv, WorkInv, Copying
  <2>2. WriterInv'
    BY <1>7, ElsewhereWriter DEF IInv
  <2>3. QED  BY <2>1, <2>2 DEF WorkInv
<1>8. QED  BY <1>6, <1>7 DEF AppendTokenPath

\* A thread that gives up spoils the copy, if it has begun it.
LEMMA CopyFailsKeeps ==
  ASSUME IInv, NEW c \in Clients, CopyFails(c)
  PROVE  WorkInv' /\ WriterInv'
<1>1. \A b \in Clients : b # c => pc'[b] = pc[b] /\ Copy(b)' = Copy(b)
  BY DEF IInv, TypeOK, CopyFails, Goto, Rest, Copy, destination
<1>2. copies' = copies
  BY DEF CopyFails, files
<1>3. ASSUME NEW e \in DOMAIN copies' \ spoilt'
      PROVE  /\ copies'[e].text = {} => \E b \in Clients : pc'[b] = "fill" /\ Copy(b)' = e
             /\ copies'[e].token_paths = <<>> => \E b \in Copying' : Copy(b)' = e
  <2>1. e \in DOMAIN copies \ spoilt /\ (c \in Copying => Copy(c) # e)
    BY <1>2, <1>3 DEF CopyFails, Copying
  <2>2. \A b \in Copying : Copy(b) = e => b \in Copying' /\ pc'[b] = pc[b] /\ Copy(b)' = e
    BY <1>1, <2>1 DEF Copying
  <2>3. \A b \in Clients : pc[b] = "fill" => b \in Copying
    BY DEF Copying
  <2>4. QED  BY <1>2, <2>1, <2>2, <2>3 DEF IInv, WorkInv
<1>4. WriterInv'
  BY <1>2, ElsewhereWriter DEF IInv
<1>5. QED  BY <1>3, <1>4 DEF WorkInv

\* The end of the process spoils the copies that were being made.
LEMMA RestartKeeps ==
  ASSUME Assumption, IInv, Restart
  PROVE  IInv'
<1>1. /\ copies' = copies /\ token_files' = token_files
      /\ spoilt' = spoilt \cup {Copy(c) : c \in Copying}
      /\ pc' = [c \in Clients |-> "idle"]
      /\ call' = [c \in Clients |-> Someone]
      /\ received' = [l \in Logins |-> Nothing]
  BY DEF Restart
<1>2. TypeOK'
  <2>1. settings_file' \in [Servers -> Editions]
    <3>1. CASE UNCHANGED settings_file
      BY <3>1 DEF IInv, TypeOK
    <3>2. CASE \E s \in Servers : /\ settings_file[s] < MaxEdition
                                  /\ settings_file' = [settings_file EXCEPT ![s] = @ + 1]
      BY <3>2 DEF IInv, TypeOK, Editions, Assumption
    <3>3. QED  BY <3>1, <3>2 DEF Restart
  <2>2. QED  BY <1>1, <2>1, SomeoneCalls DEF IInv, TypeOK, Steps
<1>3. WorkInv'
  <2>1. ASSUME NEW e \in DOMAIN copies' \ spoilt'
        PROVE  copies'[e].text # {} /\ copies'[e].token_paths # <<>>
    <3>1. \A c \in Clients : pc[c] = "fill" => c \in Copying
      BY DEF Copying
    <3>2. QED  BY <1>1, <2>1, <3>1 DEF IInv, WorkInv
  <2>2. QED  BY <2>1 DEF WorkInv
<1>4. WriterInv' /\ TokenInv'
  BY <1>1, ElsewhereWriter, ElsewhereToken DEF IInv
<1>5. ReturnInv' /\ OwnTokenReceived'
  BY <1>1 DEF ReturnInv, OwnTokenReceived
<1>6. QED  BY <1>2, <1>3, <1>4, <1>5 DEF IInv

--------------------------------------------------------------------------------
(* Clients and tokens *)

\* A client leaves a token of its own call at a path that one call has alone, for the
\* copy it was given is that call's.
LEMMA ClientSucceedsKeepsTokens ==
  ASSUME Assumption, IInv, NEW c \in Clients, ClientSucceeds(c)
  PROVE  TokenInv'
<1> DEFINE d == Copy(c)
           copy == copies[d]
<1>1. CASE UNCHANGED token_files
  BY <1>1, ElsewhereToken DEF IInv
<1>2. CASE \E p \in Range(copy.token_paths), s \in copy.text :
             \E t \in {<<s[1], call[c][2]>>, Malformed} : token_files' = Written(token_files, p, t)
  <2> PICK p \in Range(copy.token_paths), s \in copy.text :
        \E t \in {<<s[1], call[c][2]>>, Malformed} : token_files' = Written(token_files, p, t)
    BY <1>2
  <2> PICK t \in {<<s[1], call[c][2]>>, Malformed} : token_files' = Written(token_files, p, t)
    OBVIOUS
  <2>1. d \in DOMAIN copies /\ call[c] \in Calls
    BY DEF IInv, TypeOK, ClientSucceeds
  <2>2. PICK y \in Calls : destination(y) = d /\ token_path(y) = p
    BY <2>1 DEF IInv, WriterInv
  <2>3. PICK z \in Calls : destination(z) = d /\ s[1] = z[1]
    BY <2>1 DEF IInv, WriterInv
  <2>4. /\ DOMAIN token_files' = DOMAIN token_files \cup {p}
        /\ token_files'[p] = t
        /\ \A q \in DOMAIN token_files : q # p => token_files'[q] = token_files[q]
    BY DEF Written
  <2>5. ASSUME NEW x \in Calls, OwnCopy(x), OwnTokenPath(x), token_path(x) \in DOMAIN token_files'
        PROVE  token_files'[token_path(x)] \in {x, Malformed}
    <3>1. CASE token_path(x) = p
      <4>1. y = x
        BY <2>2, <2>5, <3>1, OwnTokenPathIsOwn
      <4>2. destination(call[c]) = destination(x) /\ destination(z) = destination(x)
        BY <2>2, <2>3, <4>1 DEF Copy
      <4>3. call[c] = x /\ z = x
        BY <2>1, <2>5, <4>2, OwnCopyIsOwn
      <4>4. x = <<x[1], x[2]>>
        BY DEF Assumption
      <4>5. t \in {x, Malformed}
        BY <2>3, <4>3, <4>4
      <4>6. QED  BY <2>4, <3>1, <4>5
    <3>2. CASE token_path(x) # p
      BY <2>4, <2>5, <3>2 DEF IInv, TokenInv, TokenThere
    <3>3. QED  BY <3>1, <3>2
  <2>6. QED  BY <2>5 DEF TokenInv, TokenThere, OwnCopy, OwnTokenPath, token_path
<1>3. QED  BY <1>1, <1>2 DEF ClientSucceeds

\* A login that reads its token gets its own.
LEMMA ReadTokenKeeps ==
  ASSUME Assumption, IInv, NEW l \in Logins, ReadToken(l)
  PROVE  ReturnInv' /\ OwnTokenReceived'
<1>1. /\ \A k \in Logins : pc'[k] = IF k = l THEN "returned" ELSE pc[k]
      /\ call' = call /\ call[l] \in Calls /\ DOMAIN received = Logins
  BY DEF IInv, TypeOK, ReturnInv, ReadToken, Goto, Clients
<1>2. /\ DOMAIN received' = Logins
      /\ \A k \in Logins : k # l => received'[k] = received[k]
      /\ IF TokenThere(call[l]) THEN received'[l] = token_files[token_path(call[l])]
                               ELSE received'[l] = received[l]
  BY <1>1 DEF ReadToken
<1>3. ReturnInv'
  BY <1>1, <1>2 DEF IInv, ReturnInv
<1>4. ASSUME NEW k \in Logins, received'[k] # Nothing, OwnCopy(call[k]), OwnTokenPath(call[k])
      PROVE  received'[k] = call[k]
  <2>1. CASE k = l /\ TokenThere(call[l])
    <3>1. token_files[token_path(call[l])] # Malformed
      BY <2>1 DEF ReadToken
    <3>2. QED  BY <1>1, <1>2, <1>4, <2>1, <3>1 DEF IInv, TokenInv
  <2>2. CASE ~ (k = l /\ TokenThere(call[l]))
    BY <1>2, <1>4, <2>2 DEF IInv, OwnTokenReceived
  <2>3. QED  BY <2>1, <2>2
<1>5. OwnTokenReceived'
  BY <1>1, <1>4 DEF OwnTokenReceived, OwnCopy, OwnTokenPath
<1>6. QED  BY <1>3, <1>5

\* So does one that is over.
LEMMA ReturnKeeps ==
  ASSUME IInv, NEW l \in Logins, Return(l)
  PROVE  ReturnInv' /\ OwnTokenReceived'
<1>1. /\ \A k \in Logins : k # l => pc'[k] = pc[k] /\ call'[k] = call[k]
      /\ received' = [received EXCEPT ![l] = Nothing] /\ DOMAIN received = Logins
  BY DEF IInv, TypeOK, ReturnInv, Return, Rest, Clients
<1>2. ReturnInv'
  BY <1>1 DEF IInv, ReturnInv
<1>3. ASSUME NEW k \in Logins, received'[k] # Nothing, OwnCopy(call'[k]), OwnTokenPath(call'[k])
      PROVE  received'[k] = call'[k]
  BY <1>1, <1>3 DEF IInv, OwnTokenReceived
<1>4. OwnTokenReceived'
  BY <1>3 DEF OwnTokenReceived, OwnCopy, OwnTokenPath
<1>5. QED  BY <1>2, <1>4

--------------------------------------------------------------------------------
\* Steps that change neither files nor what was received, nor move a thread that is at
\* work on a copy or has returned.
LEMMA QuietKeeps ==
  ASSUME IInv, TypeOK', UNCHANGED <<files, received, spoilt>>, NEW c \in Clients,
         \A b \in Clients : b # c => pc'[b] = pc[b] /\ call'[b] = call[b],
         pc[c] \notin {"fill", "append", "returned"}
  PROVE  IInv'
<1>1. WorkInv'
  BY ElsewhereWork DEF IInv, files, Copying
<1>2. WriterInv' /\ TokenInv'
  BY ElsewhereWriter, ElsewhereToken DEF IInv, files
<1>3. ReturnInv' /\ OwnTokenReceived'
  BY ElsewhereReceived DEF IInv, Clients
<1>4. QED  BY <1>1, <1>2, <1>3 DEF IInv

\* The steps of copyConfig keep the inductive invariant.
LEMMA CopiesKeep ==
  ASSUME Assumption, IInv, NEW c \in Clients, Copies(c)
  PROVE  IInv'
<1>1. CASE Begin(c)
  <2>1. TypeOK'
    <3>1. \A b \in Clients : pc'[b] \in {"look", pc[b]} /\ (pc'[b] = "look" \/ call'[b] = call[b])
      BY <1>1 DEF IInv, TypeOK, Begin
    <3>2. pc' \in [Clients -> Steps] /\ call' \in [Clients -> Calls]
      BY <1>1 DEF IInv, TypeOK, Begin, Steps
    <3>3. QED  BY <1>1, <3>1, <3>2 DEF IInv, TypeOK, Begin, files, Copy, destination
  <2>2. QED  BY <1>1, <2>1, QuietKeeps DEF IInv, TypeOK, Begin
<1>2. CASE LookForCopy(c)
  <2>1. TypeOK'
    BY <1>2, GotoTypes DEF IInv, LookForCopy, CopyExists, Steps, files
  <2>2. QED  BY <1>2, <2>1, QuietKeeps DEF IInv, TypeOK, LookForCopy, Goto
<1>3. \A l \in Logins :
        /\ CopyFails(c) \/ CreateCopy(c) \/ FillCopy(c) \/ AppendTokenPath(c)
        /\ pc[l] = "returned"
        => pc'[l] = pc[l] /\ call'[l] = call[l]
  BY DEF IInv, TypeOK, CreateCopy, FillCopy, AppendTokenPath, CopyFails, Goto, Rest, Clients
<1>4. CASE CreateCopy(c)
  <2>1. TypeOK' /\ WorkInv' /\ WriterInv'
    BY <1>4, CreateCopyTypes, CreateCopyKeeps DEF IInv
  <2>2. TokenInv' /\ ReturnInv' /\ OwnTokenReceived'
    BY <1>3, <1>4, ElsewhereToken, ElsewhereReceived DEF IInv, CreateCopy
  <2>3. QED  BY <2>1, <2>2 DEF IInv
<1>5. CASE FillCopy(c)
  <2>1. TypeOK' /\ WorkInv' /\ WriterInv'
    BY <1>5, FillCopyTypes, FillCopyKeeps DEF IInv
  <2>2. TokenInv' /\ ReturnInv' /\ OwnTokenReceived'
    BY <1>3, <1>5, ElsewhereToken, ElsewhereReceived DEF IInv, FillCopy
  <2>3. QED  BY <2>1, <2>2 DEF IInv
<1>6. CASE AppendTokenPath(c)
  <2>1. TypeOK' /\ WorkInv' /\ WriterInv'
    BY <1>6, AppendTypes, AppendKeeps DEF IInv
  <2>2. TokenInv' /\ ReturnInv' /\ OwnTokenReceived'
    BY <1>3, <1>6, ElsewhereToken, ElsewhereReceived DEF IInv, AppendTokenPath
  <2>3. QED  BY <2>1, <2>2 DEF IInv
<1>7. CASE CopyFails(c)
  <2>1. TypeOK'
    <3>1. CASE Rest(c)
      BY <1>7, <3>1, RestTypes DEF IInv, CopyFails, files
    <3>2. CASE Goto(c, "start without")
      BY <1>7, <3>2, GotoTypes DEF IInv, CopyFails, files, Steps
    <3>3. QED  BY <1>7, <3>1, <3>2 DEF CopyFails
  <2>2. WorkInv' /\ WriterInv'
    BY <1>7, CopyFailsKeeps
  <2>3. TokenInv' /\ ReturnInv' /\ OwnTokenReceived'
    BY <1>3, <1>7, ElsewhereToken, ElsewhereReceived DEF IInv, CopyFails, files
  <2>4. QED  BY <2>1, <2>2, <2>3 DEF IInv
<1>8. QED  BY <1>1, <1>2, <1>4, <1>5, <1>6, <1>7 DEF Copies

\* So do those of clients.
LEMMA ClientKeeps ==
  ASSUME Assumption, IInv, NEW c \in Clients, StartClient(c) \/ ClientSucceeds(c) \/ ClientFails(c)
  PROVE  IInv'
<1>1. /\ \A b \in Clients : b # c => pc'[b] = pc[b] /\ call'[b] = call[b]
      /\ pc[c] \notin {"fill", "append", "returned"}
      /\ UNCHANGED <<settings_file, copies, received, spoilt>>
  BY DEF IInv, TypeOK, StartClient, ClientSucceeds, ClientFails, Goto, Rest, files
<1>2. TypeOK'
  <2>1. CASE StartClient(c)
    BY <2>1, GotoTypes DEF IInv, TypeOK, StartClient, Steps, files
  <2>2. CASE ClientSucceeds(c)
    BY <2>2, GotoTypes, RestTypes DEF IInv, ClientSucceeds, Steps
  <2>3. CASE ClientFails(c)
    BY <2>3, RestTypes DEF IInv, ClientFails, files
  <2>4. QED  BY <2>1, <2>2, <2>3
<1>3. WorkInv' /\ WriterInv'
  BY <1>1, ElsewhereWork, ElsewhereWriter DEF IInv, Copying
<1>4. TokenInv'
  <2>1. CASE ClientSucceeds(c)
    BY <2>1, ClientSucceedsKeepsTokens
  <2>2. CASE StartClient(c) \/ ClientFails(c)
    BY <2>2, ElsewhereToken DEF IInv, StartClient, ClientFails, files
  <2>3. QED  BY <2>1, <2>2
<1>5. ReturnInv' /\ OwnTokenReceived'
  BY <1>1, ElsewhereReceived DEF IInv, Clients
<1>6. QED  BY <1>2, <1>3, <1>4, <1>5 DEF IInv

\* And those of a login's parent.
LEMMA LoginKeeps ==
  ASSUME Assumption, IInv, NEW l \in Logins, ReadToken(l) \/ Return(l)
  PROVE  IInv'
<1>1. /\ l \in Clients
      /\ \A b \in Clients : b # l => pc'[b] = pc[b] /\ call'[b] = call[b]
      /\ pc[l] \notin {"fill", "append"}
      /\ UNCHANGED <<files, spoilt>>
  BY DEF IInv, TypeOK, ReadToken, Return, Goto, Rest, Clients
<1>2. TypeOK'
  BY <1>1, GotoTypes, RestTypes DEF IInv, ReadToken, Return, Steps, files
<1>3. WorkInv' /\ WriterInv' /\ TokenInv'
  BY <1>1, ElsewhereWork, ElsewhereWriter, ElsewhereToken DEF IInv, Copying, files
<1>4. ReturnInv' /\ OwnTokenReceived'
  BY ReadTokenKeeps, ReturnKeeps
<1>5. QED  BY <1>2, <1>3, <1>4 DEF IInv

\* Every step keeps the inductive invariant.
LEMMA StepKeeps ==
  ASSUME Assumption, IInv, [Next]_vars
  PROVE  IInv'
<1>1. CASE UNCHANGED vars
  <2>1. /\ UNCHANGED <<settings_file, copies, token_files>>
        /\ pc' = pc /\ call' = call /\ received' = received /\ spoilt' = spoilt
    BY <1>1 DEF vars, files
  <2>2. TypeOK'
    BY <2>1 DEF IInv, TypeOK, Copy, destination
  <2>3. WorkInv' /\ WriterInv' /\ TokenInv' /\ ReturnInv' /\ OwnTokenReceived'
    BY <2>1, ElsewhereWork, ElsewhereWriter, ElsewhereToken, ElsewhereReceived DEF IInv
  <2>4. QED  BY <2>2, <2>3 DEF IInv
<1>2. ASSUME NEW l \in Logins, NoJsonWebToken(l)  PROVE IInv'
  BY <1>2, RestartKeeps DEF NoJsonWebToken
<1>3. QED  BY <1>1, <1>2, CopiesKeep, ClientKeeps, LoginKeeps, RestartKeeps DEF Next

\* The inductive invariant holds in every behaviour.
THEOREM Invariant ==
  ASSUME Assumption  PROVE Spec => []IInv
<1>1. Init => IInv
  BY InitIInv
<1>2. IInv /\ [Next]_vars => IInv'
  BY StepKeeps
<1>3. QED  BY <1>1, <1>2, PTL DEF Spec

\* Files, threads and calls keep their types, and a thread finds the copy that it works
\* on or starts a client with.
THEOREM TypeCorrect ==
  ASSUME Assumption  PROVE Spec => []TypeOK
<1>1. IInv => TypeOK
  BY DEF IInv
<1>2. QED  BY <1>1, Invariant, PTL

\* A copy that no thread works on or gave up on has settings and a token path, those of
\* its server and user if it is theirs alone, for any number of threads that make it.
THEOREM CompleteCopies ==
  ASSUME Assumption  PROVE Spec => []CopiesAreComplete
<1>1. IInv => CopiesAreComplete
  <2> SUFFICES ASSUME IInv, NEW x \in Calls,
                      destination(x) \in DOMAIN copies \ (spoilt \cup {Copy(c) : c \in Copying})
               PROVE  /\ copies[destination(x)].text # {} /\ copies[destination(x)].token_paths # <<>>
                      /\ OwnCopy(x) =>
                           /\ \A s \in copies[destination(x)].text : s[1] = x[1]
                           /\ Range(copies[destination(x)].token_paths) =
                                {<<temp_config_folder[x[1]], x[2]>>}
    BY DEF CopiesAreComplete
  <2> DEFINE d == destination(x)
             paths == copies[d].token_paths
             T == {token_path(y) : y \in Calls}
  <2>1. copies[d].text # {} /\ paths # <<>>
    BY DEF IInv, WorkInv, Copying
  <2>2. ASSUME OwnCopy(x)
        PROVE  /\ \A s \in copies[d].text : s[1] = x[1]
               /\ \A p \in Range(paths) : p = token_path(x)
    BY <2>2, OwnCopyIsOwn DEF IInv, WriterInv
  <2>3. paths[1] \in Range(paths)
    <3>1. paths \in Seq(T)
      BY DEF IInv, TypeOK, CopyTypes
    <3> HIDE DEF paths, T
    <3>2. QED  BY <2>1, <3>1 DEF Range
  <2>4. QED  BY <2>1, <2>2, <2>3 DEF token_path
<1>2. QED  BY <1>1, Invariant, PTL

\* A login returns a token for its user and of its server, however old the file is,
\* where no other call shares its copy or its token path.
THEOREM OwnTokens ==
  ASSUME Assumption  PROVE Spec => []OwnTokenReceived
<1>1. IInv => OwnTokenReceived
  BY DEF IInv
<1>2. QED  BY <1>1, Invariant, PTL
================================================================================
