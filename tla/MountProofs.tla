------------------------------- MODULE MountProofs -------------------------------
(******************************************************************************)
(* Proofs about what is registered, listed and mounted at startup, for any    *)
(* settings files that name any servers, in any order.                        *)
(******************************************************************************)
EXTENDS Mount, TLAPS

Steps == {"parse", "register", "ping", "auth", "mkdir", "check", "mounted", "aborted"}

StartupTypeOK ==
  /\ settings \in [Files -> Startup!Settings]
  /\ directory \in [Startup!Paths -> {"missing", "read-only", "writable"}]
  /\ pc \in Steps
  /\ to_read \subseteq Files
  /\ file \in Files
  /\ DOMAIN rucio_server_map \subseteq ServerNames
  /\ \A s \in DOMAIN rucio_server_map : rucio_server_map[s] \in Files

\* A file that is being parsed has been read, and the server of one that is being
\* validated is registered; its login follows its answer.
ParseInv ==
  /\ pc = "register" => file \notin to_read
  /\ pc \in {"ping", "auth"} => Startup!Server \in DOMAIN rucio_server_map
  /\ pc = "auth" => Startup!Server \in reached

IInv ==
  /\ StartupTypeOK
  /\ ParseInv
  /\ Startup!ListedAreValidated
  /\ Startup!RegisteredHaveCertificate

--------------------------------------------------------------------------------
\* The initial states satisfy the inductive invariant.
LEMMA InitIInv ==
  ASSUME Startup!Init  PROVE IInv
<1>1. (CHOOSE f \in Files : TRUE) \in Files
  BY StartupAssumption DEF Startup!Assumption
<1>2. QED
  BY <1>1 DEF Startup!Init, IInv, StartupTypeOK, ParseInv, Startup!ListedAreValidated,
      Startup!RegisteredHaveCertificate, Steps

\* A new server takes its settings from the file that is being parsed; one that is
\* registered keeps those it has.
LEMMA RegisterInv ==
  ASSUME IInv, Startup!Register  PROVE IInv'
<1> DEFINE s == Startup!Server
<1>1. /\ DOMAIN rucio_server_map' = DOMAIN rucio_server_map \cup {s}
      /\ \A x \in DOMAIN rucio_server_map : rucio_server_map'[x] = rucio_server_map[x]
      /\ s \notin DOMAIN rucio_server_map => rucio_server_map'[s] = file
  BY DEF Startup!Register, Startup!Server
<1>2. /\ pc = "register" /\ pc' = "ping" /\ Startup!CaFound
      /\ UNCHANGED <<settings, directory, to_read, file, rucio_server_names, reached>>
  BY DEF Startup!Register, Startup!world
<1>3. settings[file] \in Startup!Settings /\ s \in ServerNames /\ file \in Files
  BY DEF IInv, StartupTypeOK, Startup!Settings, Startup!Server
<1>4. StartupTypeOK'
  BY <1>1, <1>2, <1>3 DEF IInv, StartupTypeOK, Steps
<1>5. ParseInv'
  BY <1>1, <1>2 DEF ParseInv, Startup!Server
<1>6. Startup!ListedAreValidated'
  BY <1>1, <1>2 DEF IInv, Startup!ListedAreValidated
<1>7. Startup!RegisteredHaveCertificate'
  <2> SUFFICES ASSUME NEW x \in (DOMAIN rucio_server_map)'
               PROVE  (/\ settings[rucio_server_map[x]].ca_found
                       /\ settings[rucio_server_map[x]].server = x
                       /\ rucio_server_map[x] \notin to_read)'
    BY DEF Startup!RegisteredHaveCertificate
  <2>1. CASE x \in DOMAIN rucio_server_map
    BY <1>1, <1>2, <2>1 DEF IInv, Startup!RegisteredHaveCertificate
  <2>2. CASE x \notin DOMAIN rucio_server_map
    BY <1>1, <1>2, <2>2 DEF IInv, ParseInv, Startup!CaFound, Startup!Server
  <2>3. QED  BY <2>1, <2>2
<1>8. QED  BY <1>4, <1>5, <1>6, <1>7 DEF IInv

\* A server is listed with the settings it is registered with, and after it answered.
LEMMA AuthenticateInv ==
  ASSUME IInv, Startup!Authenticate  PROVE IInv'
<1>1. /\ pc = "auth" /\ pc' = "parse"
      /\ UNCHANGED <<settings, directory, to_read, file, rucio_server_map, reached>>
      /\ \/ UNCHANGED rucio_server_names
         \/ /\ rucio_server_names' = rucio_server_names \cup {Startup!Server}
            /\ Startup!CanLogIn(settings[rucio_server_map[Startup!Server]].mode)
  BY DEF Startup!Authenticate, Startup!Drop, Startup!world, Startup!servers
<1>2. Startup!Server \in (DOMAIN rucio_server_map) \cap reached
  BY <1>1 DEF IInv, ParseInv
<1>3. StartupTypeOK'
  BY <1>1 DEF IInv, StartupTypeOK, Steps
<1>4. ParseInv'
  BY <1>1 DEF ParseInv
<1>5. Startup!ListedAreValidated'
  BY <1>1, <1>2 DEF IInv, Startup!ListedAreValidated, Startup!CanLogIn
<1>6. Startup!RegisteredHaveCertificate'
  BY <1>1 DEF IInv, Startup!RegisteredHaveCertificate
<1>7. QED  BY <1>3, <1>4, <1>5, <1>6 DEF IInv

\* Every step keeps the inductive invariant.
LEMMA NextIInv ==
  ASSUME IInv, [Startup!Next]_(Startup!vars)  PROVE IInv'
<1> USE DEF IInv
<1>1. CASE Startup!NextFile
  BY <1>1 DEF Startup!NextFile, StartupTypeOK, ParseInv, Startup!ListedAreValidated,
      Startup!RegisteredHaveCertificate, Steps, Startup!world,
      Startup!servers
<1>2. CASE Startup!NoMoreFiles
  BY <1>2 DEF Startup!NoMoreFiles, StartupTypeOK, ParseInv, Startup!ListedAreValidated,
      Startup!RegisteredHaveCertificate, Steps, Startup!world,
      Startup!servers
<1>3. CASE Startup!Skip
  BY <1>3 DEF Startup!Skip, StartupTypeOK, ParseInv, Startup!ListedAreValidated,
      Startup!RegisteredHaveCertificate, Steps, Startup!world,
      Startup!servers
<1>4. CASE Startup!Register
  BY <1>4, RegisterInv
<1>5. CASE Startup!Ping
  BY <1>5 DEF Startup!Ping, Startup!Drop, StartupTypeOK, ParseInv,
      Startup!ListedAreValidated, Startup!RegisteredHaveCertificate,
      Steps, Startup!world, Startup!servers, Startup!Server
<1>6. CASE Startup!Authenticate
  BY <1>6, AuthenticateInv
<1>7. CASE Startup!MakeDirectories
  BY <1>7 DEF Startup!MakeDirectories, Startup!Made, StartupTypeOK, ParseInv,
      Startup!ListedAreValidated, Startup!RegisteredHaveCertificate,
      Steps, Startup!world, Startup!servers
<1>8. CASE Startup!CheckPermissions
  BY <1>8 DEF Startup!CheckPermissions, Startup!Accessible, StartupTypeOK, ParseInv,
      Startup!ListedAreValidated, Startup!RegisteredHaveCertificate,
      Steps, Startup!world, Startup!servers
<1>9. CASE UNCHANGED Startup!vars
  BY <1>9 DEF Startup!vars, StartupTypeOK, ParseInv, Startup!ListedAreValidated,
      Startup!RegisteredHaveCertificate, Startup!Server
<1>10. QED
  BY <1>1, <1>2, <1>3, <1>4, <1>5, <1>6, <1>7, <1>8, <1>9 DEF Startup!Next

\* The inductive invariant holds in every reachable state.
THEOREM Invariant == Spec => []IInv
<1>1. Init => IInv
  BY InitIInv DEF Init
<1>2. IInv /\ [Next]_vars => IInv'
  BY NextIInv DEF Next, Walk, vars, startup, Startup!vars
<1>3. QED  BY <1>1, <1>2, PTL DEF Spec

\* Whatever the files say and in whatever order they come, the root directory lists only
\* servers that answered and whose registered settings have a way to log in.
THEOREM ValidatedServers == Spec => []ListedAreValidated
<1>1. IInv => ListedAreValidated
  BY DEF IInv, ListedAreValidated
<1>2. QED  BY <1>1, Invariant, PTL

\* No registered settings name a certificate that is missing.
THEOREM CertifiedServers == Spec => []RegisteredHaveCertificate
<1>1. IInv => RegisteredHaveCertificate
  BY DEF IInv, RegisteredHaveCertificate
<1>2. QED  BY <1>1, Invariant, PTL
================================================================================
