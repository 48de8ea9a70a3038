-------------------------------- MODULE TokenAuth --------------------------------
(******************************************************************************)
(* How a call gets its token.  getattr, readdir and read first authenticate   *)
(* the caller and then send a request with the caller's token, checking the   *)
(* token again.  A token that is missing or expired is fetched from the       *)
(* server by the calling thread, or, with OpenID Connect, by a login thread   *)
(* that the call does not wait for.                                           *)
(*                                                                            *)
(* A user is a uid at one server: token_info is kept per server and uid, and  *)
(* a server has one way to log in.  A token_info is read and written field by *)
(* field without a lock.  Reading a string while it is written is undefined;  *)
(* here it yields the old or the new token.  A login thread reads its         *)
(* arguments from the stack of a call that may be over, also undefined: here  *)
(* it finds each of them as it was, or as the thread's last login left it.    *)
(******************************************************************************)
EXTENDS Integers, FiniteSets

CONSTANTS
  Users,       \* uids, each at its server
  Threads,     \* libfuse threads
  Logins,      \* login threads: bound on those that exist at once
  auth_mode,   \* per user, by its server: "userpass", "x509" or "oidc"
  Lifetimes,   \* seconds the server's tokens last
  Omissions,   \* what a server's reply may lack: "token", "expires"
  MaxTime      \* bound: the clock stops here

ASSUME UsersAssumption == Users # {}
ASSUME ThreadsAssumption == Threads # {}
ASSUME ModeAssumption == auth_mode \in [Users -> {"userpass", "x509", "oidc"}]
ASSUME OmissionAssumption == Omissions \subseteq {"token", "expires"}
ASSUME TimeAssumption == Lifetimes \subseteq Nat /\ MaxTime \in Nat \ {0}

rucio_default_exp == 0      \* 1970: before any time of the clock

VARIABLES
  now,
  conn_token,            \* per user: rucio_invalid_token or a token
  conn_token_exp,        \* per user: the broken-down time of the expiry
  conn_token_exp_epoch,  \* per user: the expiry in seconds
  pc,                    \* per libfuse or login thread
  stage,                 \* "auth" or "rest": authenticating, or asking the server
  user,                  \* who the thread works for
  token, expiry,         \* what the reply held
  sent,                  \* the token the request went out with
  args,                  \* per libfuse thread: the user its last login was started for
  caller,                \* per login: the libfuse thread that started it
  account                \* per login: the user whose account the client logs in to

token_infos == <<conn_token, conn_token_exp, conn_token_exp_epoch>>
locals == <<pc, stage, user, token, expiry, sent>>
logins == <<args, caller, account>>
vars == <<now, token_infos, locals, logins>>

Workers == Threads \cup Logins

\* A token is told apart by who it was issued to and how long it is good for.
Token(u, e) == [uid |-> u, expires |-> e]
rucio_invalid_token == [uid |-> "nobody", expires |-> rucio_default_exp]

Someone == CHOOSE u \in Users : TRUE
AThread == CHOOSE t \in Threads : TRUE

Init ==
  /\ now = 1
  /\ conn_token = [u \in Users |-> rucio_invalid_token]
  /\ conn_token_exp = [u \in Users |-> rucio_default_exp]
  /\ conn_token_exp_epoch = [u \in Users |-> 0]
  /\ pc = [w \in Workers |-> "idle"]
  /\ stage = [w \in Workers |-> "auth"]
  /\ user = [w \in Workers |-> Someone]
  /\ token = [w \in Workers |-> rucio_invalid_token]
  /\ expiry = [w \in Workers |-> 0]
  /\ sent = [w \in Workers |-> rucio_invalid_token]
  /\ args = [t \in Threads |-> Someone]
  /\ caller = [l \in Logins |-> AThread]
  /\ account = [l \in Logins |-> Someone]

Goto(w, step) == pc' = [pc EXCEPT ![w] = step]

--------------------------------------------------------------------------------
(* Checking the token: rucio_is_token_valid, one read after the other *)

\* Mutant: every user has the one token_info.
OneForAll(u) == CHOOSE v \in Users : TRUE

\* rucio_token_infos[uid]
Slot(u) == u

Call(t, u) ==
  /\ pc[t] = "idle"
  /\ Goto(t, "check")
  /\ user' = [user EXCEPT ![t] = u]
  /\ stage' = [stage EXCEPT ![t] = "auth"]
  /\ UNCHANGED <<now, token_infos, token, expiry, sent, logins>>

\* TOKEN_OK: an authenticated call goes on to its request, which is then sent.
Succeed(t) == Goto(t, IF stage[t] = "auth" THEN "authenticated" ELSE "send")

\* Any other code: the call is refused; a request is sent all the same.
Fail(t) == Goto(t, IF stage[t] = "auth" THEN "refused" ELSE "send")

\* A token that is not there is fetched without looking at its expiry.
CheckToken(t) ==
  /\ pc[t] = "check"
  /\ Goto(t, IF conn_token[Slot(user[t])] = rucio_invalid_token THEN "fetch" ELSE "check expiry")
  /\ UNCHANGED <<now, token_infos, stage, user, token, expiry, sent, logins>>

CheckExpiry(t) ==
  /\ pc[t] = "check expiry"
  /\ IF conn_token_exp_epoch[Slot(user[t])] >= now THEN Succeed(t) ELSE Goto(t, "fetch")
  /\ UNCHANGED <<now, token_infos, stage, user, token, expiry, sent, logins>>

Proceed(t) ==
  /\ pc[t] = "authenticated"
  /\ stage' = [stage EXCEPT ![t] = "rest"]
  /\ Goto(t, "check")
  /\ UNCHANGED <<now, token_infos, user, token, expiry, sent, logins>>

--------------------------------------------------------------------------------
(* Fetching a token: userpass and x509 *)

\* The reply's headers: a token of some lifetime, and its expiry.  Where one is missing,
\* what is not valid, or long over, takes its place, and the fetching succeeds.
Replies(u) ==
  UNION {({Token(u, now + l)} \cup {rucio_invalid_token : x \in Omissions \cap {"token"}})
           \X ({now + l} \cup {rucio_default_exp : x \in Omissions \cap {"expires"}})
         : l \in Lifetimes}

FetchToken(t) ==
  /\ auth_mode[user[t]] # "oidc"
  /\ pc[t] = "fetch"
  /\ \E reply \in Replies(user[t]) :
       /\ token' = [token EXCEPT ![t] = reply[1]]
       /\ expiry' = [expiry EXCEPT ![t] = reply[2]]
  /\ Goto(t, "write token")
  /\ UNCHANGED <<now, token_infos, stage, user, sent, logins>>

FetchFails(t) ==
  /\ auth_mode[user[t]] # "oidc"
  /\ pc[t] = "fetch"
  /\ Fail(t)
  /\ UNCHANGED <<now, token_infos, stage, user, token, expiry, sent, logins>>

\* Three writes: the token, the broken-down time, and the seconds made from it.
WriteToken(w) ==
  /\ pc[w] = "write token"
  /\ conn_token' = [conn_token EXCEPT ![Slot(user[w])] = token[w]]
  /\ Goto(w, "write time")
  /\ UNCHANGED <<now, conn_token_exp, conn_token_exp_epoch, stage, user, token, expiry, sent, logins>>

WriteTime(w) ==
  /\ pc[w] = "write time"
  /\ conn_token_exp' = [conn_token_exp EXCEPT ![Slot(user[w])] = expiry[w]]
  /\ Goto(w, "write epoch")
  /\ UNCHANGED <<now, conn_token, conn_token_exp_epoch, stage, user, token, expiry, sent, logins>>

\* Mutant: the expiry is what mktime returns when it fails.
EpochFailed(w) == -1

\* From the shared time, or, in a login thread, from its own value.
Epoch(w) == IF w \in Logins THEN expiry[w] ELSE conn_token_exp[Slot(user[w])]

\* The thread ends, and what it held is gone.
EndLogin(l) ==
  /\ Goto(l, "idle")
  /\ user' = [user EXCEPT ![l] = Someone]
  /\ caller' = [caller EXCEPT ![l] = AThread]
  /\ account' = [account EXCEPT ![l] = Someone]

WriteEpoch(w) ==
  /\ pc[w] = "write epoch"
  /\ conn_token_exp_epoch' = [conn_token_exp_epoch EXCEPT ![Slot(user[w])] = Epoch(w)]
  /\ token' = [token EXCEPT ![w] = rucio_invalid_token]
  /\ expiry' = [expiry EXCEPT ![w] = 0]
  /\ \/ w \in Logins /\ EndLogin(w)
     \/ w \in Threads /\ Succeed(w) /\ UNCHANGED <<user, caller, account>>
  /\ UNCHANGED <<now, conn_token, conn_token_exp, stage, sent, args>>

--------------------------------------------------------------------------------
(* OpenID Connect: the call starts a login and fails at once *)

StartLogin(t, l) ==
  /\ auth_mode[user[t]] = "oidc"
  /\ pc[t] = "fetch" /\ pc[l] = "idle"
  /\ pc' = [pc EXCEPT ![t] = IF stage[t] = "auth" THEN "refused" ELSE "send", ![l] = "start"]
  /\ user' = [user EXCEPT ![l] = user[t]]
  /\ args' = [args EXCEPT ![t] = user[t]]
  /\ caller' = [caller EXCEPT ![l] = t]
  /\ UNCHANGED <<now, token_infos, stage, token, expiry, sent, account>>

\* What an argument may be by the time the login thread reads it.
Left(l) == {user[l], args[caller[l]]}

\* The pointer to the token_info, and the user name for the client.
ReadArguments(l) ==
  /\ pc[l] = "start"
  /\ \E u \in Left(l), v \in Left(l) :
       /\ user' = [user EXCEPT ![l] = u]
       /\ account' = [account EXCEPT ![l] = v]
  /\ Goto(l, "login")
  /\ UNCHANGED <<now, token_infos, stage, token, expiry, sent, args, caller>>

\* What the client may leave in the token file: a token, which holds its expiry, or nothing.
TokenFiles(u) ==
  {<<Token(u, now + l), now + l>> : l \in Lifetimes} \cup {<<rucio_invalid_token, rucio_default_exp>>}

\* Mutant: a login that leaves an empty token file is taken for a success.
AnyTokenAccepted(u) == TokenFiles(u)

UsableTokens(u) == {r \in TokenFiles(u) : r[1] # rucio_invalid_token}

LoginSucceeds(l) ==
  /\ pc[l] = "login"
  /\ \E reply \in UsableTokens(account[l]) :
       /\ token' = [token EXCEPT ![l] = reply[1]]
       /\ expiry' = [expiry EXCEPT ![l] = reply[2]]
  /\ Goto(l, "write token")
  /\ UNCHANGED <<now, token_infos, stage, user, sent, logins>>

\* The client fails or leaves no token: the login thread ends.
LoginFails(l) ==
  /\ pc[l] = "login"
  /\ EndLogin(l)
  /\ UNCHANGED <<now, token_infos, stage, token, expiry, sent, args>>

--------------------------------------------------------------------------------
\* get_auth_headers: the request carries whatever the token now is.
Send(t) ==
  /\ pc[t] = "send"
  /\ sent' = [sent EXCEPT ![t] = conn_token[Slot(user[t])]]
  /\ Goto(t, "sent")
  /\ UNCHANGED <<now, token_infos, stage, user, token, expiry, logins>>

Return(t) ==
  /\ pc[t] \in {"sent", "refused"}
  /\ Goto(t, "idle")
  /\ user' = [user EXCEPT ![t] = Someone]
  /\ sent' = [sent EXCEPT ![t] = rucio_invalid_token]
  /\ stage' = [stage EXCEPT ![t] = "auth"]
  /\ UNCHANGED <<now, token_infos, token, expiry, logins>>

Tick ==
  /\ now < MaxTime
  /\ now' = now + 1
  /\ UNCHANGED <<token_infos, locals, logins>>

Next ==
  \/ \E t \in Threads :
       \/ \E u \in Users : Call(t, u)
       \/ CheckToken(t)
       \/ CheckExpiry(t)
       \/ Proceed(t)
       \/ FetchToken(t)
       \/ FetchFails(t)
       \/ \E l \in Logins : StartLogin(t, l)
       \/ Send(t)
       \/ Return(t)
  \/ \E w \in Workers : WriteToken(w) \/ WriteTime(w) \/ WriteEpoch(w)
  \/ \E l \in Logins : ReadArguments(l) \/ LoginSucceeds(l) \/ LoginFails(l)
  \/ Tick

Spec == Init /\ [][Next]_vars

--------------------------------------------------------------------------------
(* Properties *)

Tokens == {rucio_invalid_token} \cup [uid : Users, expires : Nat]
Steps == {"idle", "check", "check expiry", "authenticated", "fetch", "refused",
          "start", "login", "write token", "write time", "write epoch", "send", "sent"}

\* Every user has one token and its expiry, and every thread is in one step of one
\* stage for one user.
TypeOK ==
  /\ now \in 1 .. MaxTime
  /\ conn_token \in [Users -> Tokens]
  /\ conn_token_exp \in [Users -> Nat] /\ conn_token_exp_epoch \in [Users -> Nat]
  /\ pc \in [Workers -> Steps]
  /\ stage \in [Workers -> {"auth", "rest"}]
  /\ user \in [Workers -> Users]
  /\ token \in [Workers -> Tokens] /\ expiry \in [Workers -> Nat]
  /\ sent \in [Workers -> Tokens]
  /\ args \in [Threads -> Users] /\ caller \in [Logins -> Threads]
  /\ account \in [Logins -> Users]

\* The users whose logins a login thread may mix up.
Oidc(u) == auth_mode[u] = "oidc"

\* The token is read from the user's location: a request goes out with a token issued to its
\* caller, or with none, unless both the caller and the owner of the token log in by OpenID
\* Connect.  The caller of a server with passwords or certificates sends no other user's
\* token, and nobody else sends one of theirs.
OwnTokenUnlessOidc ==
  \A t \in Threads :
    pc[t] = "sent" =>
      \/ sent[t].uid \in {user[t], rucio_invalid_token.uid}
      \/ Oidc(user[t]) /\ sent[t].uid \in Users /\ Oidc(sent[t].uid)

Writing(u) ==
  \E w \in Workers : pc[w] \in {"write time", "write epoch"} /\ user[w] = u

\* Contains token string for REST calls and token expire information: when nobody
\* is writing a user's token_info, its expiry is the one of its token.
ExpiryIsTheTokens ==
  \A u \in Users : ~ Writing(u) => conn_token_exp_epoch[u] = conn_token[u].expires

HasToken(u) == conn_token[Slot(u)] # rucio_invalid_token

\* An authentication of a user of OpenID Connect that returned TOKEN_OK has left a token,
\* whatever the logins leave in their token files and whoever writes the token meanwhile.
OidcOkMeansToken ==
  \A t \in Threads : pc[t] = "authenticated" /\ Oidc(user[t]) => HasToken(user[t])
================================================================================
