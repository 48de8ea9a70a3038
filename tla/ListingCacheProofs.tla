--------------------------- MODULE ListingCacheProofs ---------------------------
(******************************************************************************)
(* Proofs that listings are fresh and their entries known, and that the kinds *)
(* and sizes kept are given ones, for any number of threads, directories and  *)
(* DiDs, and for calls of any length up to chache_duration.                   *)
(******************************************************************************)
EXTENDS ListingCache, TLAPS

USE DEF caches, strings

Known(k) == k \in DOMAIN is_container_cache /\ k \in DOMAIN file_size_cache

\* The part of the type invariant that is about a map of sizes.
SizesTyped(map) ==
  /\ DOMAIN map \subseteq Keys
  /\ \A k \in DOMAIN map : map[k] \in Int \cup Garbage

\* A listing expires at most chache_duration after the server sent it, and the
\* entries of a listing of DiDs are known.
ListingInv ==
  \A k \in DOMAIN listings :
    /\ listings[k].at <= now
    /\ listings[k].expires <= listings[k].at + chache_duration
    /\ listings[k].of.level # "scopes" =>
         \A r \in listings[k].dids : Known(Key(listings[k].of.scope, r.name))

\* A call in progress began at most MaxCall ago.
ClockInv ==
  \A t \in Threads :
    /\ time_now[t] <= now /\ at[t] <= now
    /\ pc[t] # "idle" => now <= time_now[t] + MaxCall

\* Only a thread that fills has records to parse or to record, and a thread has no
\* listing before it has one.
BrokenInv ==
  \A t \in Threads :
    /\ pc[t] # "fill" => broken[t] = {} /\ held[t] = {} /\ todo[t] = {}
    /\ pc[t] \in {"idle", "fetch"} => dids[t] = {}

\* A thread that fills got its listing after its call began, and every record it has
\* done with is known.
FillInv ==
  \A t \in Threads : pc[t] = "fill" =>
    /\ time_now[t] <= at[t]
    /\ IF dir[t].level = "scopes" THEN broken[t] = {} /\ held[t] = {} /\ todo[t] = {}
       ELSE \A r \in dids[t] : r \in todo[t] \/ Known(Key(dir[t].scope, r.name))

\* A thread about to answer finds a listing fresh enough for its own call.
AnswerInv ==
  \A t \in Threads : pc[t] = "answer" =>
    /\ Cached(dir[t])
    /\ listings[ListingKey(dir[t])].at + chache_duration >= time_now[t]

\* Only named entries of DiD directories are asked about.
AskInv ==
  \A t \in Threads : pc[t] \in {"kind", "file", "size"} =>
    dir[t].level # "scopes" /\ did[t] \in DidNames

IInv ==
  /\ TypeOK
  /\ ListingInv
  /\ ClockInv
  /\ BrokenInv
  /\ FillInv
  /\ AnswerInv
  /\ AskInv
  /\ AnswersAreFresh

--------------------------------------------------------------------------------
\* What set_value leaves in a map.
LEMMA SetValue ==
  ASSUME NEW map, NEW k, NEW v
  PROVE  /\ DOMAIN set_value(map, k, v) = DOMAIN map \cup {k}
         /\ set_value(map, k, v)[k] = v
         /\ \A x \in DOMAIN map : x # k => set_value(map, k, v)[x] = map[x]
BY DEF set_value

\* A map of sizes that is given one more size is one.
LEMMA SetValueSized ==
  ASSUME NEW map, NEW k, NEW v \in Int \cup Garbage,
         \A x \in DOMAIN map : map[x] \in Int \cup Garbage
  PROVE  /\ DOMAIN set_value(map, k, v) = DOMAIN map \cup {k}
         /\ \A x \in DOMAIN set_value(map, k, v) :
              set_value(map, k, v)[x] \in Int \cup Garbage
BY DEF set_value

\* What passes through an int is an integer.
LEMMA AsIntIsInt ==
  ASSUME NEW n \in Nat  PROVE AsInt(n) \in Int
<1>1. n + IntMax + 1 \in Nat /\ 2 * (IntMax + 1) \in Nat /\ 2 * (IntMax + 1) > 0
  BY DidsAssumption
<1>2. ASSUME NEW x \in Nat, NEW y \in Nat, y > 0  PROVE x % y \in Int
  BY <1>2
<1>3. (n + IntMax + 1) % (2 * (IntMax + 1)) \in Int
  BY <1>1, <1>2
<1>4. QED  BY <1>3, DidsAssumption DEF AsInt

\* What fits an int comes out of it as it is.
LEMMA AsIntKeeps ==
  ASSUME NEW n \in Nat, n <= IntMax  PROVE AsInt(n) = n
<1>1. n + IntMax + 1 \in Nat /\ n + IntMax + 1 < 2 * (IntMax + 1)
  BY DidsAssumption
<1>2. ASSUME NEW x \in Nat, NEW y \in Nat, x < y  PROVE x % y = x
  BY <1>2
<1>3. (n + IntMax + 1) % (2 * (IntMax + 1)) = n + IntMax + 1
  BY <1>1, <1>2, DidsAssumption
<1>4. QED  BY <1>3, DidsAssumption DEF AsInt

\* A record that a server sent is one, and so is what is put together wrongly.
LEMMA RecordIsRecord ==
  /\ \A d \in DiDs : Record(d) \in Records
  /\ \A n \in AllNames : NoRecord(n) \in Records
BY DEF Records

\* The fields of a record.
LEMMA RecordFields ==
  ASSUME NEW r \in Records
  PROVE  r.name \in AllNames /\ r.bytes \in Nat
<1>1. ASSUME NEW d \in DiDs, r = Record(d)  PROVE r.name \in AllNames /\ r.bytes \in Nat
  BY <1>1, DidsAssumption DEF Record, AllNames, DidNames
<1>2. ASSUME NEW n \in AllNames, r = NoRecord(n)  PROVE r.name \in AllNames /\ r.bytes \in Nat
  BY <1>2 DEF NoRecord
<1>3. QED  BY <1>1, <1>2 DEF Records

\* The size that a record gives is a size.
LEMMA SizesOfIsSize ==
  ASSUME NEW r \in Records
  PROVE  SizesOf(r) \subseteq Int \cup Garbage
<1>1. AsInt(r.bytes) \in Int
  BY RecordFields, AsIntIsInt
<1>2. QED  BY <1>1 DEF SizesOf

\* A reply is a set of records.
LEMMA RepliesAreRecords ==
  ASSUME NEW d \in Dirs, NEW rs \in Replies(d)
  PROVE  rs \in SUBSET Records
<1>1. Contents[d] \in SUBSET DiDs
  BY DirsAssumption
<1>2. NoRecord(Nameless) \in Records
  BY RecordIsRecord DEF AllNames
<1>3. CASE rs \in {{Record(c) : c \in cs} : cs \in SUBSET Contents[d]}
  BY <1>1, <1>3, RecordIsRecord
<1>4. CASE rs = {NoRecord(Nameless)}
  BY <1>2, <1>4
<1>5. QED  BY <1>3, <1>4 DEF Replies

\* The first directory is one of the directories.
LEMMA AnyDirIsDir == AnyDir \in Dirs
BY DirsAssumption DEF AnyDir

\* A key built for a directory of DiDs is one of the keys.
LEMMA KeyIsKey ==
  ASSUME NEW d \in Dirs, NEW n \in AllNames
  PROVE  Key(d.scope, n) \in Keys
BY DEF Keys, Scopes

\* The initial states satisfy the inductive invariant.
THEOREM InitIInv == Init => IInv
<1> SUFFICES ASSUME Init  PROVE IInv
  OBVIOUS
<1>1. DOMAIN listings = {} /\ DOMAIN is_container_cache = {} /\ DOMAIN file_size_cache = {}
  BY DEF Init
<1>2. TypeOK
  BY <1>1, AnyDirIsDir DEF Init, TypeOK, AllNames, Steps
<1>3. ListingInv /\ ClockInv /\ BrokenInv /\ FillInv /\ AnswerInv /\ AskInv
        /\ AnswersAreFresh
  BY <1>1 DEF Init, ListingInv, ClockInv, BrokenInv, FillInv, AnswerInv, AskInv, AnswersAreFresh
<1>4. QED  BY <1>2, <1>3 DEF IInv

--------------------------------------------------------------------------------
\* Looking in the cache keeps the invariant.
LEMMA BeginKeeps ==
  ASSUME IInv, NEW t \in Threads, NEW d \in Dirs, Begin(t, d)
  PROVE  IInv'
<1>1. TypeOK'
  BY DEF IInv, TypeOK, Begin, Steps
<1>2. ListingInv'
  BY DEF IInv, ListingInv, Known, Begin
<1>3. ClockInv'
  BY DurationAssumption DEF IInv, TypeOK, ClockInv, Begin
<1>4. BrokenInv' /\ FillInv'
  BY DEF IInv, TypeOK, BrokenInv, FillInv, Known, Begin, Idle
<1>5. AnswerInv'
  <2>1. Usable(d) => listings[ListingKey(d)].at + chache_duration >= now
    BY DurationAssumption DEF Usable, Cached, IInv, TypeOK, ListingInv
  <2>2. QED  BY <2>1 DEF IInv, TypeOK, AnswerInv, Begin, Usable, Cached
<1>6. AskInv' /\ AnswersAreFresh'
  BY DEF IInv, TypeOK, AskInv, AnswersAreFresh, Begin
<1>7. QED  BY <1>1, <1>2, <1>3, <1>4, <1>5, <1>6 DEF IInv

\* A reply keeps the invariant.
LEMMA FetchKeeps ==
  ASSUME IInv, NEW t \in Threads, Fetch(t)
  PROVE  IInv'
<1> PICK rs \in Replies(dir[t]) : \E bs \in SUBSET rs :
      IF dir[t].level = "scopes"
        THEN /\ dids' = [dids EXCEPT ![t] = rs]
             /\ UNCHANGED <<broken, todo>>
        ELSE /\ dids' = [dids EXCEPT ![t] = rs \ bs]
             /\ todo' = [todo EXCEPT ![t] = rs \ bs]
             /\ broken' = [broken EXCEPT ![t] = bs]
  BY DEF Fetch
<1>1. PICK bs \in SUBSET rs :
        IF dir[t].level = "scopes"
          THEN /\ dids' = [dids EXCEPT ![t] = rs]
               /\ UNCHANGED <<broken, todo>>
          ELSE /\ dids' = [dids EXCEPT ![t] = rs \ bs]
               /\ todo' = [todo EXCEPT ![t] = rs \ bs]
               /\ broken' = [broken EXCEPT ![t] = bs]
  OBVIOUS
<1>2. rs \in SUBSET Records /\ bs \in SUBSET Records /\ rs \ bs \in SUBSET Records
  BY RepliesAreRecords DEF IInv, TypeOK
<1>3. /\ pc[t] = "fetch" /\ pc' = [pc EXCEPT ![t] = "fill"] /\ at' = [at EXCEPT ![t] = now]
      /\ UNCHANGED <<now, listings, is_container_cache, file_size_cache,
                     did_string_remainder, crossed, time_now, dir, did, held>>
  BY DEF Fetch
<1>4. broken[t] = {} /\ held[t] = {} /\ todo[t] = {}
  BY <1>3 DEF IInv, BrokenInv
<1>5. /\ dids' \in [Threads -> SUBSET Records] /\ todo' \in [Threads -> SUBSET Records]
      /\ broken' \in [Threads -> SUBSET Records]
      /\ \A u \in Threads : u # t =>
           dids'[u] = dids[u] /\ todo'[u] = todo[u] /\ broken'[u] = broken[u]
      /\ IF dir[t].level = "scopes" THEN broken'[t] = {} /\ todo'[t] = {}
         ELSE dids'[t] = todo'[t]
  <2>1. /\ dids \in [Threads -> SUBSET Records] /\ todo \in [Threads -> SUBSET Records]
        /\ broken \in [Threads -> SUBSET Records]
    BY DEF IInv, TypeOK
  <2>2. CASE dir[t].level = "scopes"
    BY <1>1, <1>2, <1>4, <2>1, <2>2
  <2>3. CASE dir[t].level # "scopes"
    BY <1>1, <1>2, <2>1, <2>3
  <2>4. QED  BY <2>2, <2>3
<1>6. TypeOK'
  BY <1>3, <1>5 DEF IInv, TypeOK, Steps
<1>7. ListingInv' /\ ClockInv'
  BY <1>3 DEF IInv, TypeOK, ListingInv, ClockInv, Known
<1>8. BrokenInv'
  BY <1>3, <1>5 DEF IInv, TypeOK, BrokenInv
<1>9. FillInv'
  BY <1>3, <1>4, <1>5 DEF IInv, TypeOK, ClockInv, FillInv, Known
<1>10. AnswerInv' /\ AskInv' /\ AnswersAreFresh'
  BY <1>3 DEF IInv, TypeOK, AnswerInv, Cached, AskInv, AnswersAreFresh
<1>11. QED  BY <1>6, <1>7, <1>8, <1>9, <1>10 DEF IInv

\* So does an error page that leaves nothing to record.
LEMMA FetchPageKeeps ==
  ASSUME IInv, NEW t \in Threads, FetchPage(t)
  PROVE  IInv'
<1>1. dids[t] = {} /\ broken[t] = {} /\ held[t] = {} /\ todo[t] = {}
  BY DEF IInv, BrokenInv, FetchPage
<1>2. TypeOK'
  BY DEF IInv, TypeOK, FetchPage, PutAside, Steps
<1>3. ListingInv' /\ ClockInv'
  BY DEF IInv, TypeOK, ListingInv, ClockInv, Known, FetchPage
<1>4. BrokenInv' /\ FillInv'
  BY <1>1 DEF IInv, TypeOK, ClockInv, BrokenInv, FillInv, Known, FetchPage
<1>5. AnswerInv' /\ AskInv' /\ AnswersAreFresh'
  BY DEF IInv, TypeOK, AnswerInv, Cached, AskInv, AnswersAreFresh, FetchPage
<1>6. QED  BY <1>2, <1>3, <1>4, <1>5 DEF IInv

\* Putting the first piece of a record aside keeps the invariant.
LEMMA PutPieceKeeps ==
  ASSUME IInv, NEW t \in Threads, NEW r \in broken[t], PutPiece(t, r)
  PROVE  IInv'
<1>1. pc[t] = "fill" /\ r \in Records
  BY DEF IInv, TypeOK, BrokenInv
<1>2. TypeOK'
  BY <1>1 DEF IInv, TypeOK, PutPiece, PutAside
<1>3. ListingInv' /\ ClockInv'
  BY DEF IInv, ListingInv, ClockInv, Known, PutPiece
<1>4. BrokenInv' /\ FillInv'
  BY <1>1 DEF IInv, TypeOK, BrokenInv, FillInv, Known, PutPiece
<1>5. AnswerInv' /\ AskInv' /\ AnswersAreFresh'
  BY DEF IInv, AnswerInv, Cached, AskInv, AnswersAreFresh, PutPiece
<1>6. QED  BY <1>2, <1>3, <1>4, <1>5 DEF IInv

\* What comes out of two pieces is one more record to be recorded.
LEMMA JoinPiecesKeeps ==
  ASSUME IInv, NEW t \in Threads, JoinPieces(t)
  PROVE  IInv'
<1>1. held[t] # {} /\ pc[t] = "fill"
  BY DEF IInv, BrokenInv, JoinPieces
<1>2. PICK r \in Records :
        /\ dids' = [dids EXCEPT ![t] = @ \cup {r}]
        /\ todo' = [todo EXCEPT ![t] = @ \cup {r}]
  <2>1. held[t] \subseteq Records /\ \A n \in DidNames \cup {Nameless} : NoRecord(n) \in Records
    BY RecordIsRecord DEF IInv, TypeOK, AllNames
  <2>2. PICK r \in IF did_string_remainder = {t} THEN held[t]
                  ELSE {NoRecord(n) : n \in DidNames \cup {Nameless}} :
          /\ dids' = [dids EXCEPT ![t] = @ \cup {r}]
          /\ todo' = [todo EXCEPT ![t] = @ \cup {r}]
    BY DEF JoinPieces
  <2>3. r \in Records
    BY <2>1, <2>2
  <2>4. QED  BY <2>2, <2>3
<1>3. dir[t].level # "scopes"
  BY <1>1 DEF IInv, FillInv
<1>4. /\ held' = [held EXCEPT ![t] = {}] /\ did_string_remainder' = {}
      /\ UNCHANGED <<now, listings, is_container_cache, file_size_cache, crossed, pc,
                     time_now, dir, did, at, broken>>
  BY DEF JoinPieces
<1>5. TypeOK'
  BY <1>2, <1>4 DEF IInv, TypeOK
<1>6. ListingInv' /\ ClockInv'
  BY <1>4 DEF IInv, ListingInv, ClockInv, Known
<1>7. BrokenInv' /\ FillInv'
  BY <1>1, <1>2, <1>3, <1>4 DEF IInv, TypeOK, BrokenInv, FillInv, Known
<1>8. AnswerInv' /\ AskInv'
  BY <1>4 DEF IInv, AnswerInv, Cached, AskInv
<1>9. AnswersAreFresh'
  BY <1>4 DEF IInv, AnswersAreFresh
<1>10. QED  BY <1>5, <1>6, <1>7, <1>8, <1>9 DEF IInv

\* A thread that ends its call, its size request recorded or not, keeps it.
LEMMA ForgetKeeps ==
  ASSUME IInv, NEW t \in Threads, pc[t] # "fill", Forget(t),
         UNCHANGED <<now, listings, is_container_cache, strings>>,
         DOMAIN file_size_cache \subseteq DOMAIN file_size_cache',
         SizesTyped(file_size_cache')
  PROVE  IInv'
<1>1. TypeOK'
  BY AnyDirIsDir DEF IInv, TypeOK, SizesTyped, Forget, AllNames, Steps
<1>2. ListingInv' /\ ClockInv'
  BY DEF IInv, TypeOK, ListingInv, ClockInv, Known, Forget
<1>3. BrokenInv' /\ FillInv'
  BY DEF IInv, TypeOK, BrokenInv, FillInv, Known, Forget
<1>4. AnswerInv' /\ AskInv' /\ AnswersAreFresh'
  BY DEF IInv, TypeOK, AnswerInv, Cached, AskInv, AnswersAreFresh, Forget
<1>5. QED  BY <1>1, <1>2, <1>3, <1>4 DEF IInv

\* Recording one record makes it known and leaves the others so.
LEMMA FillKeeps ==
  ASSUME IInv, NEW t \in Threads, NEW r \in todo[t], Fill(t, r)
  PROVE  IInv'
<1> DEFINE k == Key(dir[t].scope, r.name)
<1>1. PICK b \in KindsOf(r) :
        is_container_cache' = set_value(is_container_cache, k, b)
  BY DEF Fill
<1>2. DOMAIN is_container_cache' = DOMAIN is_container_cache \cup {k}
  BY <1>1, SetValue
<1>4. dir[t] \in Dirs /\ dir[t].level # "scopes" /\ r \in Records /\ r.name \in AllNames
  <2>1. dir[t] \in Dirs /\ dir[t].level # "scopes" /\ r \in Records
    BY DEF IInv, TypeOK, FillInv, Fill
  <2>2. QED  BY <2>1, RecordFields
<1>3. /\ DOMAIN file_size_cache' = DOMAIN file_size_cache \cup {k}
      /\ \A x \in DOMAIN file_size_cache' : file_size_cache'[x] \in Int \cup Garbage
  <2>1. PICK v \in SizesOf(r) :
          file_size_cache' = set_value(file_size_cache, k, v)
    BY DEF Fill
  <2>2. v \in Int \cup Garbage
    BY <1>4, SizesOfIsSize
  <2>3. QED  BY <2>1, <2>2, SetValueSized DEF IInv, TypeOK
<1>5. k \in Keys
  BY <1>4, KeyIsKey
<1>6. TypeOK'
  BY <1>2, <1>3, <1>5 DEF IInv, TypeOK, Fill
<1>7. \A x : Known(x) => Known(x)'
  BY <1>2, <1>3 DEF Known
<1>8. k \in DOMAIN is_container_cache' /\ k \in DOMAIN file_size_cache'
  BY <1>2, <1>3
<1>9. ListingInv'
  BY <1>7 DEF IInv, ListingInv, Fill
<1>10. FillInv'
  <2> SUFFICES ASSUME NEW u \in Threads, pc[u] = "fill"
               PROVE  /\ time_now[u] <= at[u]
                      /\ IF dir[u].level = "scopes"
                           THEN broken[u] = {} /\ held[u] = {} /\ todo'[u] = {}
                         ELSE \A q \in dids[u] :
                           q \in todo'[u] \/ Known(Key(dir[u].scope, q.name))'
    BY DEF FillInv, Fill
  <2>1. CASE u = t
    BY <1>4, <1>7, <1>8, <2>1 DEF IInv, TypeOK, FillInv, Known, Fill
  <2>2. CASE u # t
    BY <1>7, <2>2 DEF IInv, TypeOK, FillInv, Fill
  <2>3. QED  BY <2>1, <2>2
<1>11. ClockInv' /\ BrokenInv' /\ AnswerInv' /\ AskInv' /\ AnswersAreFresh'
  BY DEF IInv, TypeOK, ClockInv, BrokenInv, AnswerInv, Cached, AskInv, AnswersAreFresh, Fill
<1>12. QED  BY <1>6, <1>9, <1>10, <1>11 DEF IInv

\* Storing a listing keeps every waiting answer fresh: a call that may still store
\* began at most MaxCall, hence at most chache_duration, ago.
LEMMA StoreKeeps ==
  ASSUME IInv, NEW t \in Threads, Store(t)
  PROVE  IInv'
<1> DEFINE k == ListingKey(dir[t])
           l == [expires |-> Expiry(t), dids |-> dids[t], at |-> at[t], of |-> dir[t]]
<1>1. /\ DOMAIN listings' = DOMAIN listings \cup {k}
      /\ listings'[k] = l
      /\ \A x \in DOMAIN listings : x # k => listings'[x] = listings[x]
  <2>1. listings' = set_value(listings, k, l)
    BY DEF Store
  <2> HIDE DEF k, l
  <2>2. QED  BY <2>1 DEF set_value
<1>2. /\ pc[t] = "fill" /\ todo[t] = {}
      /\ l.expires = time_now[t] + chache_duration
      /\ l.at = at[t] /\ l.dids = dids[t] /\ l.of = dir[t]
  BY DEF Store, Storable, Expiry
<1>3. /\ time_now[t] \in Nat /\ at[t] \in Nat /\ now \in Nat
      /\ time_now[t] <= at[t] /\ at[t] <= now /\ now <= time_now[t] + MaxCall
  BY <1>2 DEF IInv, TypeOK, ClockInv, FillInv
<1>4. l \in [expires : Nat, dids : SUBSET Records, at : Nat, of : Dirs]
  BY <1>2, <1>3, DurationAssumption DEF IInv, TypeOK
<1>5. TypeOK'
  <2>1. /\ DOMAIN listings' \subseteq {ListingKey(d) : d \in Dirs}
        /\ \A x \in DOMAIN listings' :
             listings'[x] \in [expires : Nat, dids : SUBSET Records, at : Nat, of : Dirs]
    BY <1>1, <1>4 DEF IInv, TypeOK
  <2>2. /\ pc' \in [Threads -> Steps] /\ dids' \in [Threads -> SUBSET Records]
        /\ at' \in [Threads -> Nat] /\ todo' \in [Threads -> SUBSET Records]
    BY DEF IInv, TypeOK, Store, Steps
  <2>3. QED  BY <2>1, <2>2 DEF IInv, TypeOK, Store
<1>6. ListingInv'
  <2> SUFFICES ASSUME NEW x \in DOMAIN listings'
               PROVE  /\ listings'[x].at <= now
                      /\ listings'[x].expires <= listings'[x].at + chache_duration
                      /\ listings'[x].of.level # "scopes" =>
                           \A r \in listings'[x].dids :
                             Known(Key(listings'[x].of.scope, r.name))
    BY DEF ListingInv, Known, Store
  <2>1. CASE x = k
    BY <1>1, <1>2, <1>3, <2>1, DurationAssumption DEF IInv, FillInv
  <2>2. CASE x # k
    BY <1>1, <2>2 DEF IInv, ListingInv
  <2>3. QED  BY <2>1, <2>2
<1>7. AnswerInv'
  <2> SUFFICES ASSUME NEW u \in Threads, pc'[u] = "answer"
               PROVE  /\ ListingKey(dir[u]) \in DOMAIN listings'
                      /\ listings'[ListingKey(dir[u])].at + chache_duration >= time_now[u]
    BY DEF AnswerInv, Cached, Store
  <2>1. CASE ListingKey(dir[u]) = k
    <3>1. time_now[u] <= now /\ time_now[u] \in Nat
      BY DEF IInv, TypeOK, ClockInv
    <3>2. QED  BY <1>1, <1>2, <1>3, <2>1, <3>1, DurationAssumption
  <2>2. CASE ListingKey(dir[u]) # k
    <3>1. u # t
      BY <2>2
    <3>2. pc[u] = "answer"
      BY <3>1 DEF IInv, TypeOK, Store
    <3>3. QED  BY <1>1, <2>2, <3>2 DEF IInv, AnswerInv, Cached
  <2>3. QED  BY <2>1, <2>2
<1>8. ClockInv'
  BY <1>2 DEF IInv, TypeOK, ClockInv, Store
<1>9. BrokenInv' /\ FillInv' /\ AskInv' /\ AnswersAreFresh'
  BY <1>2 DEF IInv, TypeOK, BrokenInv, FillInv, Known, Storable, Parsed, AskInv, AnswersAreFresh, Store
<1>10. QED  BY <1>5, <1>6, <1>7, <1>8, <1>9 DEF IInv

\* Copying the listing out of the cache hands out a fresh one.
LEMMA AnswerKeeps ==
  ASSUME IInv, NEW t \in Threads, Answer(t)
  PROVE  IInv'
<1> DEFINE l == listings[ListingKey(dir[t])]
<1>1. /\ ListingKey(dir[t]) \in DOMAIN listings
      /\ l.at + chache_duration >= time_now[t]
  BY DEF IInv, AnswerInv, Cached, Answer
<1>2. l.at \in Nat /\ l.at <= now /\ l.dids \in SUBSET Records
  BY <1>1 DEF IInv, TypeOK, ListingInv
<1>3. TypeOK'
  BY <1>2 DEF IInv, TypeOK, Answer, Steps
<1>4. ClockInv'
  BY <1>2 DEF IInv, TypeOK, ClockInv, Answer
<1>5. AnswersAreFresh'
  BY <1>1 DEF IInv, TypeOK, AnswersAreFresh, Answer
<1>6. ListingInv' /\ BrokenInv' /\ FillInv' /\ AnswerInv' /\ AskInv'
  BY DEF IInv, TypeOK, ListingInv, BrokenInv, FillInv, Known, AnswerInv, Cached, AskInv, Answer
<1>7. QED  BY <1>3, <1>4, <1>5, <1>6 DEF IInv

\* Looking at one DiD keeps the invariant.
LEMMA AskKindKeeps ==
  ASSUME IInv, NEW t \in Threads, NEW d \in Dirs, NEW n \in DidNames,
         d.level # "scopes", AskKind(t, d, n)
  PROVE  IInv'
<1>1. TypeOK'
  BY DEF IInv, TypeOK, AskKind, AllNames, Steps
<1>2. ClockInv'
  BY DurationAssumption DEF IInv, TypeOK, ClockInv, AskKind
<1>3. ListingInv' /\ BrokenInv' /\ FillInv'
  BY DEF IInv, TypeOK, ListingInv, BrokenInv, FillInv, Known, AskKind, Idle
<1>4. AnswerInv' /\ AskInv' /\ AnswersAreFresh'
  BY DEF IInv, TypeOK, AnswerInv, Cached, AskInv, AnswersAreFresh, AskKind
<1>5. QED  BY <1>1, <1>2, <1>3, <1>4 DEF IInv

\* So does the server's reply about it.
LEMMA LearnKindKeeps ==
  ASSUME IInv, NEW t \in Threads, LearnKind(t)
  PROVE  IInv'
<1>1. /\ pc[t] = "kind"
      /\ \/ pc' = [pc EXCEPT ![t] = "file"]
         \/ pc' = [pc EXCEPT ![t] = "directory"]
  BY DEF LearnKind
<1>2. TypeOK'
  BY <1>1 DEF IInv, TypeOK, LearnKind, Steps
<1>3. ListingInv' /\ ClockInv'
  BY <1>1 DEF IInv, TypeOK, ListingInv, ClockInv, Known, LearnKind
<1>4. BrokenInv' /\ FillInv' /\ AnswerInv'
  BY <1>1 DEF IInv, TypeOK, BrokenInv, FillInv, Known, AnswerInv, Cached, LearnKind
<1>5. AskInv' /\ AnswersAreFresh'
  BY <1>1 DEF IInv, TypeOK, AskInv, AnswersAreFresh, LearnKind
<1>6. QED  BY <1>2, <1>3, <1>4, <1>5 DEF IInv

\* Asking for a size, with the size known or not, keeps the invariant.
LEMMA AskSizeKeeps ==
  ASSUME IInv, NEW t \in Threads, AskSize(t)
  PROVE  IInv'
<1>1. CASE Key(dir[t].scope, did[t]) \in DOMAIN file_size_cache
  <2>1. /\ pc[t] = "file" /\ Forget(t)
        /\ UNCHANGED <<now, listings, is_container_cache, file_size_cache, strings>>
    BY <1>1 DEF AskSize
  <2>2. SizesTyped(file_size_cache)
    BY DEF IInv, TypeOK, SizesTyped
  <2>3. SizesTyped(file_size_cache')
    BY <2>1, <2>2
  <2>4. QED  BY <2>1, <2>3, ForgetKeeps
<1>2. CASE Key(dir[t].scope, did[t]) \notin DOMAIN file_size_cache
  <2>1. /\ pc[t] = "file" /\ pc' = [pc EXCEPT ![t] = "size"]
        /\ UNCHANGED <<now, caches, strings, time_now, dir, did, at, broken, held, dids, todo>>
    BY <1>2 DEF AskSize
  <2>2. TypeOK'
    BY <2>1 DEF IInv, TypeOK, Steps
  <2>3. ListingInv' /\ ClockInv'
    BY <2>1 DEF IInv, TypeOK, ListingInv, ClockInv, Known
  <2>4. BrokenInv' /\ FillInv' /\ AnswerInv'
    BY <2>1 DEF IInv, TypeOK, BrokenInv, FillInv, Known, AnswerInv, Cached
  <2>5. AskInv' /\ AnswersAreFresh'
    BY <2>1 DEF IInv, TypeOK, AskInv, AnswersAreFresh
  <2>6. QED  BY <2>2, <2>3, <2>4, <2>5 DEF IInv
<1>3. QED  BY <1>1, <1>2

\* A size recorded is one more key; a size not recorded changes nothing.
LEMMA LearnSizeKeeps ==
  ASSUME IInv, NEW t \in Threads, LearnSize(t)
  PROVE  IInv'
<1> DEFINE k == Key(dir[t].scope, did[t])
           v == AsInt(Bytes[Asked(t)])
<1>1. k \in Keys
  BY KeyIsKey DEF IInv, TypeOK, AskInv, LearnSize
<1>2. Asked(t) \in DiDs => v \in Int
  BY AsIntIsInt, DidsAssumption
<1>3. /\ DOMAIN file_size_cache \subseteq DOMAIN file_size_cache'
      /\ SizesTyped(file_size_cache')
  <2>1. SizesTyped(file_size_cache)
    BY DEF IInv, TypeOK, SizesTyped
  <2>2. \/ file_size_cache' = file_size_cache
        \/ /\ v \in Int
           /\ file_size_cache' = [x \in DOMAIN file_size_cache \cup {k} |->
                                    IF x = k THEN v ELSE file_size_cache[x]]
    BY <1>2 DEF LearnSize, emplace, set_value
  <2> HIDE DEF k, v
  <2>3. QED  BY <1>1, <2>1, <2>2 DEF SizesTyped
<1>4. /\ pc[t] = "size" /\ Forget(t)
      /\ UNCHANGED <<now, listings, is_container_cache, strings>>
  BY DEF LearnSize
<1>5. QED  BY <1>3, <1>4, ForgetKeeps

\* Time passes only while no call exceeds its length.
LEMMA TickKeeps ==
  ASSUME IInv, Tick
  PROVE  IInv'
<1>1. TypeOK'
  BY DEF IInv, TypeOK, Tick, locals
<1>2. ListingInv'
  BY DEF IInv, TypeOK, ListingInv, Known, Tick, locals
<1>3. ClockInv'
  <2> SUFFICES ASSUME NEW t \in Threads
               PROVE  /\ time_now[t] <= now' /\ at[t] <= now'
                      /\ pc[t] # "idle" => now' <= time_now[t] + MaxCall
    BY DEF ClockInv, Tick, locals
  <2>1. time_now[t] \in Nat /\ at[t] \in Nat /\ now \in Nat /\ now' = now + 1
    BY DEF IInv, TypeOK, Tick
  <2>2. time_now[t] <= now /\ at[t] <= now
    BY DEF IInv, ClockInv
  <2>3. pc[t] # "idle" => now < time_now[t] + MaxCall
    BY DEF Tick, Idle
  <2>4. QED  BY <2>1, <2>2, <2>3, DurationAssumption
<1>4. BrokenInv' /\ FillInv' /\ AnswerInv' /\ AskInv' /\ AnswersAreFresh'
  BY DEF IInv, BrokenInv, FillInv, Known, AnswerInv, Cached, AskInv, AnswersAreFresh, Tick, locals
<1>5. QED  BY <1>1, <1>2, <1>3, <1>4 DEF IInv

--------------------------------------------------------------------------------
\* Every step keeps the inductive invariant.
LEMMA StepKeeps == IInv /\ [Next]_vars => IInv'
<1> SUFFICES ASSUME IInv, [Next]_vars  PROVE IInv'
  OBVIOUS
<1>1. ASSUME NEW t \in Threads, NEW d \in Dirs, Begin(t, d)  PROVE IInv'
  BY <1>1, BeginKeeps
<1>2. ASSUME NEW t \in Threads, Fetch(t)  PROVE IInv'
  BY <1>2, FetchKeeps
<1>3. ASSUME NEW t \in Threads, FetchFails(t)  PROVE IInv'
  <2>1. file_size_cache' = file_size_cache /\ SizesTyped(file_size_cache)
    BY <1>3 DEF FetchFails, IInv, TypeOK, SizesTyped
  <2>2. /\ pc[t] # "fill" /\ Forget(t)
        /\ UNCHANGED <<now, listings, is_container_cache, strings>>
    BY <1>3 DEF FetchFails
  <2>3. QED  BY <2>1, <2>2, ForgetKeeps
<1>4. ASSUME NEW t \in Threads, NEW r \in todo[t], Fill(t, r)  PROVE IInv'
  BY <1>4, FillKeeps
<1>5. ASSUME NEW t \in Threads, Store(t)  PROVE IInv'
  BY <1>5, StoreKeeps
<1>6. ASSUME NEW t \in Threads, Answer(t)  PROVE IInv'
  BY <1>6, AnswerKeeps
<1>7. ASSUME NEW t \in Threads, NEW d \in Dirs, NEW n \in DidNames,
             d.level # "scopes", AskKind(t, d, n)
      PROVE  IInv'
  BY <1>7, AskKindKeeps
<1>8. ASSUME NEW t \in Threads, LearnKind(t)  PROVE IInv'
  BY <1>8, LearnKindKeeps
<1>9. ASSUME NEW t \in Threads, AskSize(t)  PROVE IInv'
  BY <1>9, AskSizeKeeps
<1>10. ASSUME NEW t \in Threads, LearnSize(t)  PROVE IInv'
  BY <1>10, LearnSizeKeeps
<1>11. ASSUME NEW t \in Threads, Return(t)  PROVE IInv'
  <2>1. file_size_cache' = file_size_cache /\ SizesTyped(file_size_cache)
    BY <1>11 DEF Return, IInv, TypeOK, SizesTyped
  <2>2. /\ pc[t] # "fill" /\ Forget(t)
        /\ UNCHANGED <<now, listings, is_container_cache, strings>>
    BY <1>11 DEF Return
  <2>3. QED  BY <2>1, <2>2, ForgetKeeps
<1>12. ASSUME NEW t \in Threads, FetchPage(t)  PROVE IInv'
  BY <1>12, FetchPageKeeps
<1>13. ASSUME NEW t \in Threads, NEW r \in broken[t], PutPiece(t, r)  PROVE IInv'
  BY <1>13, PutPieceKeeps
<1>14. ASSUME NEW t \in Threads, JoinPieces(t)  PROVE IInv'
  BY <1>14, JoinPiecesKeeps
<1>15. CASE UNCHANGED vars
  <2>1. UNCHANGED <<now, caches, strings, pc, time_now, dir, did, at, broken, held, dids, todo>>
    BY <1>15 DEF vars, locals
  <2>2. TypeOK'
    BY <2>1 DEF IInv, TypeOK
  <2>3. ListingInv' /\ ClockInv' /\ BrokenInv' /\ FillInv' /\ AnswerInv' /\ AskInv'
        /\ AnswersAreFresh'
    BY <2>1 DEF IInv, ListingInv, ClockInv, BrokenInv, FillInv, Known, AnswerInv, Cached,
                AskInv, AnswersAreFresh
  <2>4. QED  BY <2>2, <2>3 DEF IInv
<1>16. QED
  BY <1>1, <1>2, <1>3, <1>4, <1>5, <1>6, <1>7, <1>8, <1>9, <1>10, <1>11, <1>12, <1>13,
     <1>14, <1>15, TickKeeps DEF Next

\* The inductive invariant holds in every behaviour.
THEOREM Invariant == Spec => []IInv
<1>1. QED  BY InitIInv, StepKeeps, PTL DEF Spec

\* Every listing handed out was sent by the server at most chache_duration seconds
\* before the call began, for any number of concurrent calls.
THEOREM FreshAnswers == Spec => []AnswersAreFresh
<1>1. IInv => AnswersAreFresh
  BY DEF IInv
<1>2. QED  BY <1>1, Invariant, PTL

\* Every entry of every cached listing of DiDs has its kind and its size cached.
THEOREM KnownEntries == Spec => []ListedIsKnown
<1>1. IInv => ListedIsKnown
  BY DEF IInv, ListingInv, Known, ListedIsKnown
<1>2. QED  BY <1>1, Invariant, PTL

\* The caches and the threads' locals keep their types.
THEOREM TypeCorrect == Spec => []TypeOK
<1>1. IInv => TypeOK
  BY DEF IInv
<1>2. QED  BY <1>1, Invariant, PTL

--------------------------------------------------------------------------------
(* Kinds and sizes, as long as no text was appended to another's *)

\* What is put aside is the first piece of one record.
Alone ==
  ~ crossed => \A t \in Threads : held[t] # {} => did_string_remainder = {t}

\* A record that the server may send for a directory.
SentFor(d, r) == r = NoRecord(Nameless) \/ \E c \in Contents[d] : r = Record(c)

\* What a thread has yet to parse or to record was sent for its directory.
OwnRecords ==
  ~ crossed =>
    \A t \in Threads : \A r \in broken[t] \cup held[t] \cup todo[t] : SentFor(dir[t], r)

GivenInv == Alone /\ OwnRecords

\* A reply is made of records sent for the directory.
LEMMA RepliesAreSent ==
  ASSUME NEW d \in Dirs, NEW rs \in Replies(d), NEW r \in rs
  PROVE  SentFor(d, r)
BY DEF Replies, SentFor

\* A reply brings records of the directory that the thread asked for.
LEMMA FetchGiven ==
  ASSUME IInv, GivenInv, NEW t \in Threads, Fetch(t)
  PROVE  GivenInv'
<1>1. /\ dir' = dir /\ held' = held /\ crossed' = crossed
      /\ did_string_remainder' = did_string_remainder
  BY DEF Fetch
<1>2. Alone'
  BY <1>1 DEF GivenInv, Alone
<1>3. \A u \in Threads : u # t => broken'[u] = broken[u] /\ todo'[u] = todo[u]
  BY DEF Fetch, IInv, TypeOK
<1>4. \A r \in broken'[t] \cup held'[t] \cup todo'[t] : SentFor(dir[t], r)
  <2>1. broken[t] = {} /\ held[t] = {} /\ todo[t] = {}
    BY DEF IInv, BrokenInv, Fetch
  <2> PICK rs \in Replies(dir[t]) : \E bs \in SUBSET rs :
        IF dir[t].level = "scopes"
          THEN /\ dids' = [dids EXCEPT ![t] = rs]
               /\ UNCHANGED <<broken, todo>>
          ELSE /\ dids' = [dids EXCEPT ![t] = rs \ bs]
               /\ todo' = [todo EXCEPT ![t] = rs \ bs]
               /\ broken' = [broken EXCEPT ![t] = bs]
    BY DEF Fetch
  <2>2. broken'[t] \subseteq rs /\ held'[t] = {} /\ todo'[t] \subseteq rs
    BY <1>1, <2>1 DEF IInv, TypeOK
  <2>3. dir[t] \in Dirs
    BY DEF IInv, TypeOK
  <2>4. QED  BY <2>2, <2>3, RepliesAreSent
<1>5. OwnRecords'
  <2> SUFFICES ASSUME ~ crossed, NEW u \in Threads,
                      NEW r \in broken'[u] \cup held'[u] \cup todo'[u]
               PROVE  SentFor(dir[u], r)
    BY <1>1 DEF OwnRecords, SentFor
  <2>1. CASE u = t
    BY <1>4, <2>1
  <2>2. CASE u # t
    BY <1>1, <1>3, <2>2 DEF GivenInv, OwnRecords
  <2>3. QED  BY <2>1, <2>2
<1>6. QED  BY <1>2, <1>5 DEF GivenInv

\* A piece put aside where there was nothing is alone there.
LEMMA PutPieceGiven ==
  ASSUME IInv, GivenInv, NEW t \in Threads, NEW r \in broken[t], PutPiece(t, r)
  PROVE  GivenInv'
<1>1. CASE crossed'
  BY <1>1 DEF GivenInv, Alone, OwnRecords
<1>2. CASE ~ crossed'
  <2>1. ~ crossed /\ did_string_remainder = {} /\ did_string_remainder' = {t}
    BY <1>2 DEF PutPiece, PutAside
  <2>2. \A u \in Threads : held[u] = {}
    BY <2>1 DEF GivenInv, Alone
  <2>3. /\ held' = [held EXCEPT ![t] = {r}] /\ broken' = [broken EXCEPT ![t] = @ \ {r}]
        /\ dir' = dir /\ todo' = todo
    BY DEF PutPiece
  <2>4. /\ held \in [Threads -> SUBSET Records] /\ broken \in [Threads -> SUBSET Records]
    BY DEF IInv, TypeOK
  <2>5. \A u \in Threads : held'[u] # {} => u = t
    BY <2>2, <2>3, <2>4
  <2>6. \A u \in Threads :
          broken'[u] \cup held'[u] \cup todo'[u] \subseteq broken[u] \cup held[u] \cup todo[u]
    BY <2>3, <2>4
  <2>7. Alone'
    BY <2>1, <2>5 DEF Alone
  <2>8. OwnRecords'
    BY <2>1, <2>3, <2>6 DEF GivenInv, OwnRecords, SentFor
  <2>9. QED  BY <2>7, <2>8 DEF GivenInv
<1>3. QED  BY <1>1, <1>2

\* Two pieces joined in a remainder that held nothing else are the record.
LEMMA JoinPiecesGiven ==
  ASSUME IInv, GivenInv, NEW t \in Threads, JoinPieces(t)
  PROVE  GivenInv'
<1>1. CASE crossed
  BY <1>1 DEF GivenInv, Alone, OwnRecords, JoinPieces
<1>2. CASE ~ crossed
  <2>1. did_string_remainder = {t}
    BY <1>2 DEF GivenInv, Alone, JoinPieces
  <2>2. /\ held' = [held EXCEPT ![t] = {}]
        /\ dir' = dir /\ broken' = broken /\ crossed' = crossed
    BY DEF JoinPieces
  <2>3. PICK r \in held[t] : todo' = [todo EXCEPT ![t] = @ \cup {r}]
    BY <2>1 DEF JoinPieces
  <2>4. held \in [Threads -> SUBSET Records] /\ todo \in [Threads -> SUBSET Records]
    BY DEF IInv, TypeOK
  <2>5. \A u \in Threads :
          broken'[u] \cup held'[u] \cup todo'[u] \subseteq broken[u] \cup held[u] \cup todo[u]
    BY <2>2, <2>3, <2>4
  <2>6. \A u \in Threads : held'[u] = {}
    <3> SUFFICES ASSUME NEW u \in Threads, u # t  PROVE held[u] = {}
      BY <2>2, <2>4
    <3>1. held[u] # {} => did_string_remainder = {u}
      BY <1>2 DEF GivenInv, Alone
    <3>2. QED  BY <2>1, <3>1
  <2>7. Alone'
    BY <2>6 DEF Alone
  <2>8. OwnRecords'
    BY <2>2, <2>5 DEF GivenInv, OwnRecords, SentFor
  <2>9. QED  BY <2>7, <2>8 DEF GivenInv
<1>3. QED  BY <1>1, <1>2

\* An error page put aside where there was nothing crosses nobody's record.
LEMMA FetchPageGiven ==
  ASSUME GivenInv, NEW t \in Threads, FetchPage(t)
  PROVE  GivenInv'
<1>1. CASE crossed'
  BY <1>1 DEF GivenInv, Alone, OwnRecords
<1>2. CASE ~ crossed'
  <2>1. ~ crossed /\ did_string_remainder = {}
    BY <1>2 DEF FetchPage, PutAside
  <2>2. \A u \in Threads : held[u] = {}
    BY <2>1 DEF GivenInv, Alone
  <2>3. QED  BY <2>1, <2>2 DEF GivenInv, Alone, OwnRecords, SentFor, FetchPage
<1>3. QED  BY <1>1, <1>2

\* A thread without records may go to another directory.
LEMMA MoveGiven ==
  ASSUME GivenInv, NEW t \in Threads,
         broken[t] = {} /\ held[t] = {} /\ todo[t] = {},
         \A u \in Threads : u # t => dir'[u] = dir[u],
         UNCHANGED <<broken, held, todo, strings>>
  PROVE  GivenInv'
<1>1. Alone'
  BY DEF GivenInv, Alone
<1>2. OwnRecords'
  BY DEF GivenInv, OwnRecords, SentFor
<1>3. QED  BY <1>1, <1>2 DEF GivenInv

\* Every step keeps records with the directory they were sent for.
LEMMA GivenStep == IInv /\ GivenInv /\ [Next]_vars => GivenInv'
<1> SUFFICES ASSUME IInv, GivenInv, [Next]_vars  PROVE GivenInv'
  OBVIOUS
<1>1. ASSUME NEW t \in Threads, Fetch(t)  PROVE GivenInv'
  BY <1>1, FetchGiven
<1>2. ASSUME NEW t \in Threads, NEW r \in broken[t], PutPiece(t, r)  PROVE GivenInv'
  BY <1>2, PutPieceGiven
<1>3. ASSUME NEW t \in Threads, JoinPieces(t)  PROVE GivenInv'
  BY <1>3, JoinPiecesGiven
<1>4. ASSUME NEW t \in Threads, FetchPage(t)  PROVE GivenInv'
  BY <1>4, FetchPageGiven
<1>5. ASSUME NEW t \in Threads, pc[t] # "fill", UNCHANGED <<broken, held, todo, strings>>,
             \A u \in Threads : u # t => dir'[u] = dir[u]
      PROVE  GivenInv'
  BY <1>5, MoveGiven DEF IInv, BrokenInv
<1>6. ASSUME NEW t \in Threads,
             \/ \E d \in Dirs : Begin(t, d)
             \/ \E d \in Dirs, n \in DidNames : d.level # "scopes" /\ AskKind(t, d, n)
             \/ FetchFails(t) \/ AskSize(t) \/ LearnSize(t) \/ Return(t)
      PROVE  GivenInv'
  <2>1. /\ pc[t] # "fill" /\ UNCHANGED <<broken, held, todo, strings>>
        /\ \A u \in Threads : u # t => dir'[u] = dir[u]
    BY <1>6 DEF IInv, TypeOK, Idle, Begin, AskKind, FetchFails, AskSize, LearnSize, Return, Forget
  <2>2. QED  BY <1>5, <2>1
<1>7. ASSUME NEW t \in Threads,
             (\E r \in todo[t] : Fill(t, r)) \/ Store(t) \/ Answer(t) \/ LearnKind(t)
      PROVE  GivenInv'
  <2>1. /\ UNCHANGED <<dir, broken, held, strings>>
        /\ \A u \in Threads : todo'[u] \subseteq todo[u]
    BY <1>7 DEF IInv, TypeOK, Fill, Store, Answer, LearnKind
  <2>2. QED  BY <2>1 DEF GivenInv, Alone, OwnRecords, SentFor
<1>8. CASE UNCHANGED <<strings, locals>>
  BY <1>8 DEF locals, GivenInv, Alone, OwnRecords, SentFor
<1>9. QED  BY <1>1, <1>2, <1>3, <1>4, <1>6, <1>7, <1>8 DEF Next, Tick, vars

\* The invariants hold together in every behaviour.
LEMMA GivenInvariant == Spec => [](IInv /\ GivenInv)
<1>1. Init => GivenInv
  BY DEF Init, GivenInv, Alone, OwnRecords
<1>2. QED  BY <1>1, GivenStep, Invariant, PTL DEF Spec

\* A text once appended to another's stays so.
LEMMA CrossedStays == [Next]_vars => (crossed => crossed')
<1>1. ASSUME NEW t \in Threads, FetchPage(t) \/ \E r \in broken[t] : PutPiece(t, r)
      PROVE  crossed => crossed'
  BY <1>1 DEF FetchPage, PutPiece, PutAside
<1>2. CASE UNCHANGED crossed
  BY <1>2
<1>3. QED
  BY <1>1, <1>2 DEF Next, vars, Begin, Fetch, FetchFails, JoinPieces, Fill, Store, Answer,
     AskKind, LearnKind, AskSize, LearnSize, Return, Tick

\* Only the filling in of a listing writes kinds; sizes are written by LearnSize too.
LEMMA CacheWriters ==
  [Next]_vars =>
    \/ \E t \in Threads : \E r \in todo[t] : Fill(t, r)
    \/ UNCHANGED is_container_cache /\ \E t \in Threads : LearnSize(t)
    \/ UNCHANGED <<is_container_cache, file_size_cache>>
BY DEF Next, vars, Begin, Fetch, FetchFails, FetchPage, PutPiece, JoinPieces, Store, Answer,
   AskKind, LearnKind, AskSize, LearnSize, Return, Tick

\* The key that a record is filed under, and the DiD that it is filed for.
LEMMA FillNamesakes ==
  ASSUME IInv, GivenInv, ~ crossed, NEW t \in Threads, NEW r \in todo[t], Fill(t, r)
  PROVE  \/ Key(dir[t].scope, r.name) \in PageKeys
         \/ \E d \in Namesakes(Key(dir[t].scope, r.name)) : r = Record(d)
<1>1. SentFor(dir[t], r)
  BY DEF GivenInv, OwnRecords
<1>2. dir[t] \in Dirs /\ dir[t].level # "scopes"
  BY DEF IInv, TypeOK, FillInv, Fill
<1>3. CASE r = NoRecord(Nameless)
  BY <1>2, <1>3 DEF NoRecord, Key, PageKeys, Scopes
<1>4. ASSUME NEW c \in Contents[dir[t]], r = Record(c)
      PROVE  c \in Namesakes(Key(dir[t].scope, r.name))
  <2>1. c \in DiDs
    BY <1>2, DirsAssumption
  <2>2. r.name = c.name
    BY <1>4 DEF Record
  <2>3. QED  BY <1>2, <2>1, <2>2 DEF Namesakes, Key
<1>5. QED  BY <1>1, <1>3, <1>4 DEF SentFor

\* A record's own kind is filed.
LEMMA FillGivesKind ==
  ASSUME IInv, GivenInv, KindsAreGiven, NEW t \in Threads, NEW r \in todo[t], Fill(t, r)
  PROVE  KindsAreGiven'
<1> DEFINE q == Key(dir[t].scope, r.name)
<1>1. PICK b \in KindsOf(r) : is_container_cache' = set_value(is_container_cache, q, b)
  BY DEF Fill
<1>2. crossed' = crossed
  BY DEF Fill
<1> SUFFICES ASSUME ~ crossed, NEW k \in DOMAIN is_container_cache'
             PROVE  \/ k \in PageKeys
                    \/ \E d \in Namesakes(k) : is_container_cache'[k] = (Type[d] # "FILE")
  BY <1>2 DEF KindsAreGiven
<1>3. CASE k = q
  <2>1. is_container_cache'[k] = b
    BY <1>1, <1>3 DEF set_value
  <2>2. CASE k \in PageKeys
    BY <2>2
  <2>3. ASSUME NEW d \in Namesakes(k), r = Record(d)  PROVE b = (Type[d] # "FILE")
    <3>1. d \in DiDs
      BY DEF Namesakes
    <3>2. r.type = Type[d] /\ Type[d] \in Types
      BY <2>3, <3>1, DidsAssumption DEF Record
    <3>3. r.type # "unset"
      BY <3>2 DEF Types
    <3>4. QED  BY <1>1, <3>2, <3>3 DEF KindsOf, rucio_is_container
  <2>4. QED  BY <1>3, <2>1, <2>2, <2>3, FillNamesakes
<1>4. CASE k # q
  <2>1. k \in DOMAIN is_container_cache /\ is_container_cache'[k] = is_container_cache[k]
    <3> HIDE DEF q
    <3>1. QED  BY <1>1, <1>4 DEF set_value
  <2>2. QED  BY <2>1 DEF KindsAreGiven
<1>5. QED  BY <1>3, <1>4

\* As long as no text was appended to another's in the remainder, the cache says under a
\* text what the server says of a DiD of that text.
THEOREM GivenKinds == Spec => []KindsAreGiven
<1>1. Init => KindsAreGiven
  BY DEF Init, KindsAreGiven
<1>2. IInv /\ GivenInv /\ KindsAreGiven /\ [Next]_vars => KindsAreGiven'
  <2> SUFFICES ASSUME IInv, GivenInv, KindsAreGiven, [Next]_vars  PROVE KindsAreGiven'
    OBVIOUS
  <2>1. CASE \E t \in Threads : \E r \in todo[t] : Fill(t, r)
    BY <2>1, FillGivesKind
  <2>2. CASE UNCHANGED is_container_cache
    BY <2>2, CrossedStays DEF KindsAreGiven
  <2>3. QED  BY <2>1, <2>2, CacheWriters
<1>3. QED  BY <1>1, <1>2, GivenInvariant, PTL DEF Spec

\* What may be kept as the size of a DiD.
SizeOf(d, v) ==
  Bytes[d] > IntMax \/ v = Bytes[d] \/ (Type[d] # "FILE" /\ v \in Garbage)

\* One more size of a namesake of its key leaves the sizes given.
LEMMA OneMoreSize ==
  ASSUME SizesAreGiven, NEW q, NEW v, (crossed => crossed'),
         ~ crossed => q \in PageKeys \/ \E d \in Namesakes(q) : SizeOf(d, v),
         file_size_cache' = set_value(file_size_cache, q, v)
  PROVE  SizesAreGiven'
<1> SUFFICES ASSUME ~ crossed, NEW k \in DOMAIN file_size_cache'
             PROVE  \/ k \in PageKeys
                    \/ \E d \in Namesakes(k) : SizeOf(d, file_size_cache'[k])
  BY DEF SizesAreGiven, SizeOf
<1>1. CASE k = q
  <2>1. file_size_cache'[k] = v
    BY <1>1 DEF set_value
  <2>2. QED  BY <1>1, <2>1
<1>2. CASE k # q
  <2>1. k \in DOMAIN file_size_cache /\ file_size_cache'[k] = file_size_cache[k]
    BY <1>2 DEF set_value
  <2>2. QED  BY <2>1 DEF SizesAreGiven, SizeOf
<1>3. QED  BY <1>1, <1>2

\* What passes through an int is the size of a file, if the int holds it.
LEMMA AsIntIsSize ==
  ASSUME NEW d \in DiDs  PROVE SizeOf(d, AsInt(Bytes[d]))
<1>1. Bytes[d] \in Nat
  BY DidsAssumption
<1>2. Bytes[d] <= IntMax => AsInt(Bytes[d]) = Bytes[d]
  BY <1>1, AsIntKeeps
<1>3. Bytes[d] <= IntMax \/ Bytes[d] > IntMax
  BY <1>1, DidsAssumption
<1>4. QED  BY <1>2, <1>3 DEF SizeOf

\* A record's own size is filed.
LEMMA FillGivesSize ==
  ASSUME IInv, GivenInv, SizesAreGiven, NEW t \in Threads, NEW r \in todo[t], Fill(t, r)
  PROVE  SizesAreGiven'
<1> DEFINE q == Key(dir[t].scope, r.name)
<1>1. PICK v \in SizesOf(r) : file_size_cache' = set_value(file_size_cache, q, v)
  BY DEF Fill
<1>2. crossed' = crossed
  BY DEF Fill
<1>3. ASSUME ~ crossed
      PROVE  q \in PageKeys \/ \E d \in Namesakes(q) : SizeOf(d, v)
  <2>1. CASE q \in PageKeys
    BY <2>1
  <2>2. ASSUME NEW d \in Namesakes(q), r = Record(d)  PROVE SizeOf(d, v)
    <3>1. d \in DiDs
      BY DEF Namesakes
    <3>2. r.type = Type[d] /\ r.bytes = Bytes[d]
      BY <2>2 DEF Record
    <3>3. CASE Type[d] = "FILE"
      BY <1>1, <3>1, <3>2, <3>3, AsIntIsSize DEF SizesOf
    <3>4. CASE Type[d] # "FILE"
      BY <1>1, <3>2, <3>4 DEF SizesOf, SizeOf
    <3>5. QED  BY <3>3, <3>4
  <2>3. QED  BY <1>3, <2>1, <2>2, FillNamesakes
<1> HIDE DEF q
<1>4. QED  BY <1>1, <1>2, <1>3, OneMoreSize

\* A request for one size enters it, unless another thread has.
LEMMA LearnSizeGives ==
  ASSUME IInv, SizesAreGiven, NEW t \in Threads, LearnSize(t)
  PROVE  SizesAreGiven'
<1> DEFINE q == Key(dir[t].scope, did[t])
           v == AsInt(Bytes[Asked(t)])
<1>1. dir[t] \in Dirs /\ dir[t].level # "scopes"
  BY DEF IInv, TypeOK, AskInv, LearnSize
<1>2. crossed' = crossed
  BY DEF LearnSize
<1>3. \/ file_size_cache' = file_size_cache
      \/ Asked(t) \in DiDs /\ file_size_cache' = set_value(file_size_cache, q, v)
  BY DEF LearnSize, emplace
<1>4. CASE file_size_cache' = file_size_cache
  BY <1>2, <1>4 DEF SizesAreGiven
<1>5. CASE Asked(t) \in DiDs /\ file_size_cache' = set_value(file_size_cache, q, v)
  <2>1. Asked(t) \in Namesakes(q)
    BY <1>1, <1>5 DEF Namesakes, Asked, Key
  <2>2. SizeOf(Asked(t), v)
    BY <1>5, AsIntIsSize
  <2> HIDE DEF q, v
  <2>3. QED  BY <1>2, <1>5, <2>1, <2>2, OneMoreSize
<1>6. QED  BY <1>3, <1>4, <1>5

\* As long as no text was appended to another's in the remainder, the size kept under a
\* text is that of a DiD of the text, for every size that an int holds.
THEOREM GivenSizes == Spec => []SizesAreGiven
<1>1. Init => SizesAreGiven
  BY DEF Init, SizesAreGiven
<1>2. IInv /\ GivenInv /\ SizesAreGiven /\ [Next]_vars => SizesAreGiven'
  <2> SUFFICES ASSUME IInv, GivenInv, SizesAreGiven, [Next]_vars  PROVE SizesAreGiven'
    OBVIOUS
  <2>1. CASE \E t \in Threads : \E r \in todo[t] : Fill(t, r)
    BY <2>1, FillGivesSize
  <2>2. CASE \E t \in Threads : LearnSize(t)
    BY <2>2, LearnSizeGives
  <2>3. CASE UNCHANGED file_size_cache
    BY <2>3, CrossedStays DEF SizesAreGiven
  <2>4. QED  BY <2>1, <2>2, <2>3, CacheWriters
<1>3. QED  BY <1>1, <1>2, GivenInvariant, PTL DEF Spec
================================================================================
