----------------------------- MODULE TokenAuthProofs -----------------------------
(******************************************************************************)
(* Proofs for any number of users, libfuse threads and login threads, any     *)
(* lifetimes and any headers that are missing: the types; that tokens get to  *)
(* others only among the users of OpenID Connect; and that one of those who   *)
(* was authenticated has a token.                                             *)
(******************************************************************************)
EXTENDS TokenAuth, TLAPS

\* A token that the user may come by: the own one, none, or, among the users of OpenID
\* Connect, that of another one.
Fits(u, tok) ==
  \/ tok.uid \in {u, rucio_invalid_token.uid}
  \/ Oidc(u) /\ tok.uid \in Users /\ Oidc(tok.uid)

LEMMA InvalidToken == rucio_invalid_token \in Tokens /\ rucio_default_exp \in Nat
BY DEF Tokens, rucio_default_exp

\* A reply holds a token of the user it is for, or none, and a time.
LEMMA RepliesAreOwn ==
  ASSUME NEW u \in Users, now \in Nat, NEW r \in Replies(u)
  PROVE  r[1] \in Tokens /\ r[2] \in Nat /\ r[1].uid \in {u, rucio_invalid_token.uid}
<1>1. PICK l \in Lifetimes :
        /\ r[1] \in {Token(u, now + l), rucio_invalid_token}
        /\ r[2] \in {now + l, rucio_default_exp}
  BY DEF Replies
<1>2. Token(u, now + l) \in Tokens /\ now + l \in Nat /\ Token(u, now + l).uid = u
  BY TimeAssumption DEF Token, Tokens
<1> QED  BY <1>1, <1>2, InvalidToken

\* So does a token file that is of use, and it holds a token.
LEMMA FilesAreOwn ==
  ASSUME NEW u \in Users, now \in Nat, NEW r \in UsableTokens(u)
  PROVE  /\ r[1] \in Tokens /\ r[2] \in Nat
         /\ r[1].uid = u /\ r[1] # rucio_invalid_token
<1>1. PICK l \in Lifetimes : r = <<Token(u, now + l), now + l>>
  BY DEF UsableTokens, TokenFiles
<1>2. r[1] # rucio_invalid_token
  BY DEF UsableTokens
<1> QED  BY <1>1, <1>2, TimeAssumption DEF Token, Tokens

--------------------------------------------------------------------------------
(* Types *)

LEMMA SomeoneIs == Someone \in Users /\ AThread \in Threads
BY UsersAssumption, ThreadsAssumption DEF Someone, AThread

LEMMA InitType == Init => TypeOK
<1> SUFFICES ASSUME Init  PROVE TypeOK
  OBVIOUS
<1>1. Someone \in Users /\ AThread \in Threads
  BY SomeoneIs
<1>2. QED
  BY <1>1, TimeAssumption
  DEF Init, TypeOK, Tokens, Steps, rucio_default_exp

LEMMA TimeIsNat == TypeOK => now \in Nat
BY DEF TypeOK

\* A call begins, checks, goes on, fails, sends or returns.
LEMMA CallType ==
  ASSUME TypeOK, NEW t \in Threads,
         \/ \E u \in Users : Call(t, u)
         \/ CheckToken(t) \/ CheckExpiry(t) \/ Proceed(t)
         \/ FetchFails(t) \/ Send(t) \/ Return(t)
  PROVE  TypeOK'
<1> t \in Workers
  BY DEF Workers
<1>1. CASE \E u \in Users : Call(t, u)
  <2> PICK u \in Users : Call(t, u)
    BY <1>1
  <2>1. QED  BY DEF TypeOK, Call, Goto, token_infos, logins, Steps
<1>2. CASE CheckToken(t)
  BY <1>2 DEF TypeOK, CheckToken, Goto, token_infos, logins, Steps
<1>3. CASE CheckExpiry(t)
  BY <1>3 DEF TypeOK, CheckExpiry, Succeed, Goto, token_infos, logins, Steps
<1>4. CASE Proceed(t)
  BY <1>4 DEF TypeOK, Proceed, Goto, token_infos, logins, Steps
<1>5. CASE FetchFails(t)
  BY <1>5 DEF TypeOK, FetchFails, Fail, Goto, token_infos, logins, Steps
<1>6. CASE Send(t)
  BY <1>6 DEF TypeOK, Send, Goto, Slot, token_infos, logins, Steps
<1>7. CASE Return(t)
  BY <1>7, SomeoneIs, InvalidToken DEF TypeOK, Return, Goto, token_infos, logins, Steps
<1>8. QED  BY <1>1, <1>2, <1>3, <1>4, <1>5, <1>6, <1>7

\* A reply arrives, for a call or for a login.
LEMMA ReplyType ==
  ASSUME TypeOK, NEW w \in Workers, NEW r, r[1] \in Tokens, r[2] \in Nat,
         token' = [token EXCEPT ![w] = r[1]], expiry' = [expiry EXCEPT ![w] = r[2]],
         Goto(w, "write token"),
         UNCHANGED <<now, token_infos, stage, user, sent, logins>>
  PROVE  TypeOK'
BY DEF TypeOK, Goto, token_infos, logins, Steps

\* A token, its time and its expiry are written.
LEMMA WriteType ==
  ASSUME TypeOK, NEW w \in Workers, WriteToken(w) \/ WriteTime(w) \/ WriteEpoch(w)
  PROVE  TypeOK'
<1>1. CASE WriteToken(w)
  BY <1>1 DEF TypeOK, WriteToken, Goto, Slot, logins, Steps
<1>2. CASE WriteTime(w)
  BY <1>2 DEF TypeOK, WriteTime, Goto, Slot, logins, Steps
<1>3. CASE WriteEpoch(w)
  <2>1. Epoch(w) \in Nat
    BY DEF TypeOK, Epoch, Slot
  <2>2. CASE w \in Logins /\ EndLogin(w)
    BY <1>3, <2>1, <2>2, SomeoneIs, InvalidToken
    DEF TypeOK, WriteEpoch, EndLogin, Goto, Slot, Steps
  <2>3. CASE Succeed(w) /\ UNCHANGED <<user, caller, account>>
    BY <1>3, <2>1, <2>3, InvalidToken DEF TypeOK, WriteEpoch, Succeed, Goto, Slot, Steps
  <2> QED  BY <1>3, <2>2, <2>3 DEF WriteEpoch
<1>4. QED  BY <1>1, <1>2, <1>3

\* A login starts, reads its arguments, or comes to nothing.
LEMMA LoginType ==
  ASSUME TypeOK, NEW l \in Logins,
         (\E t \in Threads : StartLogin(t, l)) \/ ReadArguments(l) \/ LoginFails(l)
  PROVE  TypeOK'
<1> l \in Workers
  BY DEF Workers
<1>1. CASE \E t \in Threads : StartLogin(t, l)
  <2> PICK t \in Threads : StartLogin(t, l)
    BY <1>1
  <2> t \in Workers
    BY DEF Workers
  <2>1. QED  BY DEF TypeOK, StartLogin, token_infos, Steps
<1>2. CASE ReadArguments(l)
  <2>1. Left(l) \subseteq Users
    BY DEF TypeOK, Left
  <2>2. QED  BY <1>2, <2>1 DEF TypeOK, ReadArguments, Goto, token_infos, Steps
<1>3. CASE LoginFails(l)
  BY <1>3, SomeoneIs DEF TypeOK, LoginFails, EndLogin, Goto, token_infos, Steps
<1>4. QED  BY <1>1, <1>2, <1>3

\* Every step keeps the types.
LEMMA TypeStep == TypeOK /\ [Next]_vars => TypeOK'
<1> SUFFICES ASSUME TypeOK, [Next]_vars  PROVE TypeOK'
  OBVIOUS
<1>1. ASSUME NEW t \in Threads,
             \/ \E u \in Users : Call(t, u)
             \/ CheckToken(t) \/ CheckExpiry(t) \/ Proceed(t)
             \/ FetchFails(t) \/ Send(t) \/ Return(t)
      PROVE  TypeOK'
  BY <1>1, CallType
<1>2. ASSUME NEW t \in Threads, FetchToken(t)  PROVE TypeOK'
  <2>1. t \in Workers /\ user[t] \in Users /\ now \in Nat
    BY TimeIsNat DEF TypeOK, Workers
  <2>2. PICK r \in Replies(user[t]) :
          token' = [token EXCEPT ![t] = r[1]] /\ expiry' = [expiry EXCEPT ![t] = r[2]]
    BY <1>2 DEF FetchToken
  <2>3. r[1] \in Tokens /\ r[2] \in Nat
    BY <2>1, RepliesAreOwn
  <2> QED  BY <1>2, <2>1, <2>2, <2>3, ReplyType DEF FetchToken
<1>3. ASSUME NEW l \in Logins, LoginSucceeds(l)  PROVE TypeOK'
  <2>1. l \in Workers /\ account[l] \in Users /\ now \in Nat
    BY TimeIsNat DEF TypeOK, Workers
  <2>2. PICK r \in UsableTokens(account[l]) :
          token' = [token EXCEPT ![l] = r[1]] /\ expiry' = [expiry EXCEPT ![l] = r[2]]
    BY <1>3 DEF LoginSucceeds
  <2>3. r[1] \in Tokens /\ r[2] \in Nat
    BY <2>1, FilesAreOwn
  <2> QED  BY <1>3, <2>1, <2>2, <2>3, ReplyType DEF LoginSucceeds
<1>4. ASSUME NEW w \in Workers, WriteToken(w) \/ WriteTime(w) \/ WriteEpoch(w)
      PROVE  TypeOK'
  BY <1>4, WriteType
<1>5. ASSUME NEW l \in Logins,
             (\E t \in Threads : StartLogin(t, l)) \/ ReadArguments(l) \/ LoginFails(l)
      PROVE  TypeOK'
  BY <1>5, LoginType
<1>6. CASE Tick
  BY <1>6, TimeAssumption DEF TypeOK, Tick, token_infos, locals, logins
<1>7. CASE UNCHANGED vars
  BY <1>7 DEF TypeOK, vars, token_infos, locals, logins
<1>8. QED  BY <1>1, <1>2, <1>3, <1>4, <1>5, <1>6, <1>7 DEF Next

\* Every user keeps one token and its expiry, whatever the replies and the logins.
THEOREM TypeCorrect == Spec => []TypeOK
BY InitType, TypeStep, PTL DEF Spec

--------------------------------------------------------------------------------
(* Tokens get to others only among the users of OpenID Connect *)

\* Whatever a login thread finds in its arguments is a user of OpenID Connect: whose
\* token_info it will write, and whose account it logs in to.
LoginInv ==
  /\ \A l \in Logins : pc[l] = "start" => Oidc(user[l]) /\ Oidc(args[caller[l]])
  /\ \A l \in Logins : pc[l] = "login" => Oidc(user[l]) /\ Oidc(account[l])

\* Every token kept, about to be written or sent is one that its user may come by.
OwnInv ==
  /\ LoginInv
  /\ \A u \in Users : Fits(u, conn_token[u])
  /\ \A w \in Workers : pc[w] = "write token" => Fits(user[w], token[w])
  /\ \A w \in Workers : pc[w] = "sent" => Fits(user[w], sent[w])

LEMMA InitOwn == Init => OwnInv
<1> SUFFICES ASSUME Init  PROVE OwnInv
  OBVIOUS
<1>1. \A w \in Workers : pc[w] = "idle"
  BY DEF Init
<1>2. Logins \subseteq Workers
  BY DEF Workers
<1>3. LoginInv
  BY <1>1, <1>2 DEF LoginInv
<1>4. \A u \in Users : conn_token[u] = rucio_invalid_token
  BY DEF Init
<1>5. \A u \in Users : Fits(u, conn_token[u])
  BY <1>4 DEF Fits
<1>6. QED  BY <1>1, <1>3, <1>5 DEF OwnInv

\* Where a thread or a login holds something.
Holding == {"write token", "sent", "start", "login"}

\* The steps that leave the tokens alone, and bring nobody to where something is held.
LEMMA QuietStepKeeps ==
  ASSUME OwnInv, UNCHANGED <<conn_token, args>>,
         \A v \in Workers :
           pc'[v] \in Holding =>
             /\ pc'[v] = pc[v] /\ user'[v] = user[v]
             /\ token'[v] = token[v] /\ sent'[v] = sent[v],
         \A l \in Logins :
           pc'[l] \in Holding => caller'[l] = caller[l] /\ account'[l] = account[l]
  PROVE  OwnInv'
<1>1. LoginInv'
  BY DEF OwnInv, LoginInv, Workers, Holding
<1>2. \A u \in Users : Fits(u, conn_token'[u])
  BY DEF OwnInv
<1>3. \A w \in Workers : pc'[w] = "write token" => Fits(user'[w], token'[w])
  BY DEF OwnInv, Holding
<1>4. \A w \in Workers : pc'[w] = "sent" => Fits(user'[w], sent'[w])
  BY DEF OwnInv, Holding
<1> QED  BY <1>1, <1>2, <1>3, <1>4 DEF OwnInv, Fits

\* The steps of a call that move no token.
LEMMA CallKeeps ==
  ASSUME TypeOK, OwnInv, NEW t \in Threads,
         \/ \E u \in Users : Call(t, u)
         \/ CheckToken(t) \/ CheckExpiry(t) \/ Proceed(t) \/ FetchFails(t)
  PROVE  OwnInv'
<1> t \in Workers
  BY DEF Workers
<1>1. CASE \E u \in Users : Call(t, u)
  BY <1>1, QuietStepKeeps DEF Holding, Workers, TypeOK, logins, Call, Goto, token_infos
<1>2. CASE CheckToken(t)
  BY <1>2, QuietStepKeeps DEF Holding, Workers, TypeOK, logins, CheckToken, Goto, token_infos
<1>3. CASE CheckExpiry(t)
  BY <1>3, QuietStepKeeps DEF Holding, Workers, TypeOK, logins, CheckExpiry, Succeed, Goto, token_infos
<1>4. CASE Proceed(t)
  BY <1>4, QuietStepKeeps DEF Holding, Workers, TypeOK, logins, Proceed, Goto, token_infos
<1>5. CASE FetchFails(t)
  BY <1>5, QuietStepKeeps DEF Holding, Workers, TypeOK, logins, FetchFails, Fail, Goto, token_infos
<1>6. QED  BY <1>1, <1>2, <1>3, <1>4, <1>5

\* A reply holds the caller's own token, and what is sent is its own slot.
LEMMA TokenKeeps ==
  ASSUME TypeOK, OwnInv, NEW t \in Threads, FetchToken(t) \/ Send(t) \/ Return(t)
  PROVE  OwnInv'
<1> t \in Workers
  BY DEF Workers
<1>1. CASE FetchToken(t)
  <2>1. user[t] \in Users /\ now \in Nat
    BY DEF TypeOK
  <2> PICK r \in Replies(user[t]) : token' = [token EXCEPT ![t] = r[1]]
    BY <1>1 DEF FetchToken
  <2>2. Fits(user[t], r[1])
    BY <2>1, RepliesAreOwn DEF Fits
  <2>3. QED
    BY <1>1, <2>2 DEF TypeOK, OwnInv, LoginInv, Fits, FetchToken, Goto, token_infos, logins, Workers
<1>2. CASE Send(t)
  BY <1>2 DEF TypeOK, OwnInv, LoginInv, Fits, Send, Goto, Slot, token_infos, logins, Workers
<1>3. CASE Return(t)
  BY <1>3 DEF TypeOK, OwnInv, LoginInv, Fits, Return, Goto, token_infos, logins, Workers
<1>4. QED  BY <1>1, <1>2, <1>3

\* Writing goes to the user's own slot.
LEMMA WriteKeeps ==
  ASSUME TypeOK, OwnInv, NEW w \in Workers,
         WriteToken(w) \/ WriteTime(w) \/ WriteEpoch(w)
  PROVE  OwnInv'
<1>1. CASE WriteToken(w)
  BY <1>1 DEF TypeOK, OwnInv, LoginInv, Fits, WriteToken, Goto, Slot, logins, Workers
<1>2. CASE WriteTime(w)
  BY <1>2, QuietStepKeeps DEF Holding, Workers, TypeOK, logins, WriteTime, Goto
<1>3. CASE WriteEpoch(w)
  <2>1. \A v \in Workers : pc'[v] \in Holding => v # w
    BY <1>3 DEF TypeOK, WriteEpoch, EndLogin, Succeed, Goto, Holding
  <2>2. \A v \in Workers : v # w =>
          /\ pc'[v] = pc[v] /\ user'[v] = user[v]
          /\ token'[v] = token[v] /\ sent'[v] = sent[v]
    BY <1>3 DEF TypeOK, WriteEpoch, EndLogin, Succeed, Goto
  <2>3. \A l \in Logins : l # w => caller'[l] = caller[l] /\ account'[l] = account[l]
    BY <1>3 DEF TypeOK, WriteEpoch, EndLogin
  <2>4. UNCHANGED <<conn_token, args>>
    BY <1>3 DEF WriteEpoch
  <2> QED  BY <2>1, <2>2, <2>3, <2>4, QuietStepKeeps DEF Workers
<1>4. QED  BY <1>1, <1>2, <1>3

\* A login starts for a user of OpenID Connect, reads what such users left, and brings
\* back a token of the account it logged in to.
LEMMA LoginKeeps ==
  ASSUME TypeOK, OwnInv, NEW l \in Logins,
         \/ \E t \in Threads : StartLogin(t, l)
         \/ ReadArguments(l) \/ LoginSucceeds(l) \/ LoginFails(l)
  PROVE  OwnInv'
<1> l \in Workers
  BY DEF Workers
<1>1. ASSUME NEW t \in Threads, StartLogin(t, l)  PROVE OwnInv'
  <2> t \in Workers /\ t # l
    BY <1>1 DEF Workers, StartLogin
  <2>1. LoginInv'
    BY <1>1 DEF TypeOK, OwnInv, LoginInv, Oidc, StartLogin, Workers
  <2>2. /\ pc'[l] = "start" /\ pc'[t] \in {"refused", "send"}
        /\ \A w \in Workers : w # l /\ w # t => pc'[w] = pc[w]
        /\ \A w \in Workers : w # l => user'[w] = user[w]
        /\ UNCHANGED <<conn_token, token, sent>>
    BY <1>1 DEF TypeOK, StartLogin, token_infos
  <2>3. QED
    BY <2>1, <2>2 DEF OwnInv, Fits
<1>2. CASE ReadArguments(l)
  <2>1. PICK u \in Left(l), v \in Left(l) :
          user' = [user EXCEPT ![l] = u] /\ account' = [account EXCEPT ![l] = v]
    BY <1>2 DEF ReadArguments
  <2> pc[l] = "start"
    BY <1>2 DEF ReadArguments
  <2>2. Oidc(u) /\ Oidc(v)
    BY DEF OwnInv, LoginInv, Left
  <2>3. LoginInv'
    <3>1. \A k \in Logins : k # l =>
            /\ pc'[k] = pc[k] /\ user'[k] = user[k] /\ account'[k] = account[k]
            /\ args' = args /\ caller' = caller
      BY <1>2, <2>1 DEF TypeOK, ReadArguments, Goto, Workers
    <3>2. pc'[l] = "login" /\ user'[l] = u /\ account'[l] = v
      BY <1>2, <2>1 DEF TypeOK, ReadArguments, Goto, Workers
    <3> QED  BY <2>2, <3>1, <3>2 DEF OwnInv, LoginInv
  <2>4. /\ pc'[l] = "login"
        /\ \A w \in Workers : w # l => pc'[w] = pc[w] /\ user'[w] = user[w]
        /\ UNCHANGED <<conn_token, token, sent>>
    BY <1>2, <2>1 DEF TypeOK, ReadArguments, Goto, token_infos
  <2>5. QED
    BY <2>3, <2>4 DEF OwnInv, Fits
<1>3. CASE LoginSucceeds(l)
  <2> pc[l] = "login"
    BY <1>3 DEF LoginSucceeds
  <2>1. /\ account[l] \in Users /\ now \in Nat
        /\ Oidc(user[l]) /\ Oidc(account[l])
    BY TimeIsNat DEF TypeOK, OwnInv, LoginInv
  <2>2. PICK r \in UsableTokens(account[l]) : token' = [token EXCEPT ![l] = r[1]]
    BY <1>3 DEF LoginSucceeds
  <2>3. Fits(user[l], r[1])
    BY <2>1, FilesAreOwn DEF Fits
  <2>4. /\ pc'[l] = "write token" /\ token'[l] = r[1]
        /\ \A w \in Workers : w # l => pc'[w] = pc[w] /\ token'[w] = token[w]
        /\ UNCHANGED <<conn_token, user, sent, args, caller, account>>
    BY <1>3, <2>2 DEF TypeOK, LoginSucceeds, Goto, token_infos, logins
  <2>5. LoginInv'
    BY <2>4 DEF OwnInv, LoginInv, Workers
  <2> QED
    BY <2>3, <2>4, <2>5 DEF OwnInv, Fits
<1>4. CASE LoginFails(l)
  BY <1>4, QuietStepKeeps DEF Holding, Workers, TypeOK, LoginFails, EndLogin, Goto, token_infos
<1>5. QED  BY <1>1, <1>2, <1>3, <1>4

\* Every step keeps every token with its user.
LEMMA OwnStep ==
  ASSUME TypeOK, OwnInv, [Next]_vars
  PROVE  OwnInv'
<1>1. ASSUME NEW t \in Threads,
             \/ \E u \in Users : Call(t, u)
             \/ CheckToken(t) \/ CheckExpiry(t) \/ Proceed(t) \/ FetchFails(t)
      PROVE  OwnInv'
  BY <1>1, CallKeeps
<1>2. ASSUME NEW t \in Threads, FetchToken(t) \/ Send(t) \/ Return(t)  PROVE OwnInv'
  BY <1>2, TokenKeeps
<1>3. ASSUME NEW w \in Workers, WriteToken(w) \/ WriteTime(w) \/ WriteEpoch(w)
      PROVE  OwnInv'
  BY <1>3, WriteKeeps
<1>4. ASSUME NEW l \in Logins,
             \/ \E t \in Threads : StartLogin(t, l)
             \/ ReadArguments(l) \/ LoginSucceeds(l) \/ LoginFails(l)
      PROVE  OwnInv'
  BY <1>4, LoginKeeps
<1>5. CASE Tick
  BY <1>5, QuietStepKeeps DEF Holding, Workers, Tick, token_infos, locals, logins
<1>6. CASE UNCHANGED vars
  BY <1>6, QuietStepKeeps DEF Holding, Workers, vars, token_infos, locals, logins
<1>7. QED  BY <1>1, <1>2, <1>3, <1>4, <1>5, <1>6 DEF Next

\* Whatever the interleaving of calls and logins, and whatever a login thread finds in its
\* arguments: a request goes out with a token issued to its caller, or with none, unless
\* the caller and the one it was issued to both log in by OpenID Connect.
THEOREM TokensStayWithTheirServers == Spec => []OwnTokenUnlessOidc
<1>1. OwnInv /\ TypeOK /\ [Next]_vars => OwnInv'
  BY OwnStep
<1>2. OwnInv => OwnTokenUnlessOidc
  BY DEF OwnInv, Fits, OwnTokenUnlessOidc, Workers
<1>3. QED  BY <1>1, <1>2, InitOwn, TypeCorrect, PTL DEF Spec

--------------------------------------------------------------------------------
(* For users of OpenID Connect success means a token *)

\* Where a thread takes its user's token as there.
TokenThere == {"check expiry", "authenticated", "write time", "write epoch"}

\* What is about to be written for a user of OpenID Connect is a token; so a token that is
\* there stays, though it may give way to another one.
OkInv ==
  /\ \A w \in Workers :
       pc[w] = "write token" /\ Oidc(user[w]) => token[w] # rucio_invalid_token
  /\ \A w \in Workers :
       pc[w] \in TokenThere /\ Oidc(user[w]) => conn_token[user[w]] # rucio_invalid_token

\* Steps that write no token, and that bring no thread to where it takes one as there.
LEMMA QuietStepKeepsOk ==
  ASSUME OkInv, conn_token' = conn_token,
         \A v \in Workers :
           /\ pc'[v] = "write token" =>
                pc[v] = "write token" /\ token'[v] = token[v] /\ user'[v] = user[v]
           /\ pc'[v] \in TokenThere => pc[v] \in TokenThere /\ user'[v] = user[v]
  PROVE  OkInv'
BY DEF OkInv

\* The steps of a call, but for the fetching of a token.
LEMMA CallKeepsOk ==
  ASSUME TypeOK, OkInv, NEW t \in Threads,
         \/ \E u \in Users : Call(t, u)
         \/ CheckToken(t) \/ CheckExpiry(t) \/ Proceed(t) \/ FetchFails(t)
         \/ Send(t) \/ Return(t)
  PROVE  OkInv'
<1> t \in Workers
  BY DEF Workers
<1>1. CASE CheckToken(t)
  <2>1. /\ pc' = [pc EXCEPT ![t] = IF conn_token[user[t]] = rucio_invalid_token
                                   THEN "fetch" ELSE "check expiry"]
        /\ UNCHANGED <<conn_token, user, token>>
    BY <1>1 DEF CheckToken, Goto, Slot, token_infos
  <2>2. CASE conn_token[user[t]] = rucio_invalid_token
    BY <2>1, <2>2, QuietStepKeepsOk DEF TypeOK, TokenThere
  <2>3. CASE conn_token[user[t]] # rucio_invalid_token
    <3>1. \A v \in Workers : v # t => pc'[v] = pc[v]
      BY <2>1 DEF TypeOK
    <3>2. pc'[t] = "check expiry"
      BY <2>1, <2>3 DEF TypeOK
    <3>3. QED  BY <2>1, <2>3, <3>1, <3>2 DEF OkInv
  <2>4. QED  BY <2>2, <2>3
<1>2. CASE \E u \in Users : Call(t, u)
  BY <1>2, QuietStepKeepsOk DEF TypeOK, Call, Goto, TokenThere, token_infos
<1>3. CASE CheckExpiry(t) \/ Proceed(t)
  BY <1>3, QuietStepKeepsOk DEF TypeOK, CheckExpiry, Proceed, Succeed, Goto, TokenThere,
     token_infos
<1>4. CASE FetchFails(t) \/ Send(t) \/ Return(t)
  BY <1>4, QuietStepKeepsOk DEF TypeOK, FetchFails, Fail, Send, Return, Goto, TokenThere,
     token_infos
<1>5. QED  BY <1>1, <1>2, <1>3, <1>4

\* A password or a certificate brings a token to nobody of OpenID Connect.
LEMMA FetchKeepsOk ==
  ASSUME TypeOK, OkInv, NEW t \in Threads, FetchToken(t)
  PROVE  OkInv'
<1>1. /\ ~ Oidc(user[t]) /\ t \in Workers
      /\ \A w \in Workers : w # t => pc'[w] = pc[w] /\ token'[w] = token[w]
      /\ UNCHANGED <<conn_token, user>>
  BY DEF TypeOK, FetchToken, Goto, Oidc, Workers, token_infos
<1> QED  BY <1>1 DEF OkInv

\* What is written is a token.
LEMMA WriteKeepsOk ==
  ASSUME TypeOK, OkInv, NEW w \in Workers, WriteToken(w) \/ WriteTime(w) \/ WriteEpoch(w)
  PROVE  OkInv'
<1>1. CASE WriteToken(w)
  <2>1. /\ pc[w] = "write token" /\ (Oidc(user[w]) => token[w] # rucio_invalid_token)
        /\ conn_token' = [conn_token EXCEPT ![user[w]] = token[w]]
        /\ pc' = [pc EXCEPT ![w] = "write time"]
        /\ UNCHANGED <<user, token>>
    BY <1>1 DEF OkInv, WriteToken, Goto, Slot
  <2>2. ASSUME NEW v \in Workers, pc'[v] \in TokenThere, Oidc(user[v])
        PROVE  conn_token'[user[v]] # rucio_invalid_token
    <3>1. user[v] \in Users /\ user[w] \in Users
      BY DEF TypeOK
    <3>2. CASE user[v] = user[w]
      BY <2>1, <2>2, <3>1, <3>2 DEF TypeOK
    <3>3. CASE user[v] # user[w]
      <4>1. v # w /\ pc[v] \in TokenThere
        BY <2>1, <2>2, <3>3 DEF TypeOK
      <4> QED  BY <2>1, <2>2, <3>1, <3>3, <4>1 DEF TypeOK, OkInv
    <3> QED  BY <3>2, <3>3
  <2>3. \A v \in Workers :
          pc'[v] = "write token" /\ Oidc(user[v]) => token'[v] # rucio_invalid_token
    BY <2>1 DEF TypeOK, OkInv
  <2>4. QED  BY <2>1, <2>2, <2>3 DEF OkInv
<1>2. CASE WriteTime(w)
  BY <1>2, QuietStepKeepsOk DEF TypeOK, WriteTime, Goto, TokenThere
<1>3. CASE WriteEpoch(w)
  <2>1. /\ pc[w] = "write epoch"
        /\ \A v \in Workers : v # w =>
             pc'[v] = pc[v] /\ token'[v] = token[v] /\ user'[v] = user[v]
        /\ conn_token' = conn_token
    BY <1>3 DEF TypeOK, WriteEpoch, EndLogin, Succeed, Goto
  <2>2. pc'[w] # "write token" /\ (pc'[w] \in TokenThere => user'[w] = user[w])
    BY <1>3 DEF TypeOK, WriteEpoch, EndLogin, Succeed, Goto, TokenThere
  <2> QED  BY <2>1, <2>2, QuietStepKeepsOk DEF TokenThere
<1>4. QED  BY <1>1, <1>2, <1>3

\* A login writes a token or nothing.
LEMMA LoginKeepsOk ==
  ASSUME TypeOK, OkInv, NEW l \in Logins,
         \/ \E t \in Threads : StartLogin(t, l)
         \/ ReadArguments(l) \/ LoginSucceeds(l) \/ LoginFails(l)
  PROVE  OkInv'
<1> l \in Workers
  BY DEF Workers
<1>1. CASE LoginSucceeds(l)
  <2>1. account[l] \in Users /\ now \in Nat
    BY TimeIsNat DEF TypeOK
  <2>2. PICK r \in UsableTokens(account[l]) : token' = [token EXCEPT ![l] = r[1]]
    BY <1>1 DEF LoginSucceeds
  <2>3. r[1] # rucio_invalid_token
    BY <2>1, FilesAreOwn
  <2>4. /\ pc'[l] = "write token" /\ token'[l] = r[1]
        /\ \A w \in Workers : w # l => pc'[w] = pc[w] /\ token'[w] = token[w]
        /\ UNCHANGED <<conn_token, user>>
    BY <1>1, <2>2 DEF TypeOK, LoginSucceeds, Goto, token_infos
  <2> QED  BY <2>3, <2>4 DEF OkInv, TokenThere
<1>2. CASE \E t \in Threads : StartLogin(t, l)
  <2>1. PICK t \in Threads : StartLogin(t, l)
    BY <1>2
  <2>2. /\ conn_token' = conn_token /\ token' = token
        /\ \A v \in Workers : pc'[v] # pc[v] => pc'[v] \in {"refused", "send", "start"}
        /\ \A v \in Workers : user'[v] # user[v] => v = l
        /\ pc'[l] = "start"
    BY <2>1, ThreadsAssumption DEF TypeOK, StartLogin, token_infos, Workers
  <2>3. QED  BY <2>2, QuietStepKeepsOk DEF TokenThere
<1>3. CASE ReadArguments(l)
  BY <1>3, QuietStepKeepsOk DEF TypeOK, ReadArguments, Goto, TokenThere, token_infos
<1>4. CASE LoginFails(l)
  BY <1>4, QuietStepKeepsOk DEF TypeOK, LoginFails, EndLogin, Goto, TokenThere, token_infos
<1>5. QED  BY <1>1, <1>2, <1>3, <1>4

\* Every step keeps tokens where they are taken as there.
LEMMA OkStep ==
  ASSUME TypeOK, OkInv, [Next]_vars
  PROVE  OkInv'
<1>1. ASSUME NEW t \in Threads,
             \/ \E u \in Users : Call(t, u)
             \/ CheckToken(t) \/ CheckExpiry(t) \/ Proceed(t) \/ FetchFails(t)
             \/ Send(t) \/ Return(t)
      PROVE  OkInv'
  BY <1>1, CallKeepsOk
<1>2. ASSUME NEW t \in Threads, FetchToken(t)  PROVE OkInv'
  BY <1>2, FetchKeepsOk
<1>3. ASSUME NEW w \in Workers, WriteToken(w) \/ WriteTime(w) \/ WriteEpoch(w)
      PROVE  OkInv'
  BY <1>3, WriteKeepsOk
<1>4. ASSUME NEW l \in Logins,
             \/ \E t \in Threads : StartLogin(t, l)
             \/ ReadArguments(l) \/ LoginSucceeds(l) \/ LoginFails(l)
      PROVE  OkInv'
  BY <1>4, LoginKeepsOk
<1>5. CASE Tick
  BY <1>5, QuietStepKeepsOk DEF Tick, token_infos, locals
<1>6. CASE UNCHANGED vars
  BY <1>6, QuietStepKeepsOk DEF vars, token_infos, locals
<1>7. QED  BY <1>1, <1>2, <1>3, <1>4, <1>5, <1>6 DEF Next

\* A user of OpenID Connect who was authenticated has a token, whatever logins bring and
\* though other threads and logins write it meanwhile.
THEOREM OkTokens == Spec => []OidcOkMeansToken
<1>1. Init => OkInv
  BY DEF Init, OkInv, TokenThere
<1>2. OkInv /\ TypeOK /\ [Next]_vars => OkInv'
  BY OkStep
<1>3. OkInv => OidcOkMeansToken
  BY DEF OkInv, OidcOkMeansToken, HasToken, TokenThere, Slot, Workers
<1>4. QED  BY <1>1, <1>2, <1>3, TypeCorrect, PTL DEF Spec
================================================================================
