------------------------- MODULE SessionSetupProofs -------------------------
(***************************************************************************)
(* Safety of the set-up of a session, for any settings, pool sizes, warmup *)
(* cap, number of rotations and restarts.                                  *)
(***************************************************************************)
EXTENDS SessionSetup, TLAPS

-----------------------------------------------------------------------------
(* The inductive invariant, in named parts                                 *)

\* A HashiCorp secret that was kept is complete, and a connect that has got its password
\* from there finds it there for the username.
SecretInv ==
  /\ secret > 0
  /\ fetched # None => fetched.user = fetched.pass /\ fetched.pass > 0
  /\ PasswordSource = "hashicorp" /\ pc \in {"username", "opened", "warming"} =>
       fetched # None /\ opening.pass = fetched.pass

\* Connections are held by a warmup only, and have reached the server.
WarmupInv ==
  /\ pc # "warming" => held = 0
  /\ held > 0 => reached

SetupInv == TypeOK /\ SecretInv /\ CredentialsPaired /\ WarmupInv /\ UpWasReached

-----------------------------------------------------------------------------
(* What the helpers return                                                 *)

\* The sources are those of the configuration, which does not change.
LEMMA SourcesFixed ==
  ASSUME UNCHANGED config
  PROVE  /\ PasswordSource' = PasswordSource
         /\ UsernameSource' = UsernameSource
BY DEF config, PasswordSource, UsernameSource, First

\* What HashiCorp Vault or the process delivers is a complete secret.
LEMMA DeliveredComplete ==
  ASSUME TypeOK, SecretInv, ~Unreadable("hashicorp")
  PROVE  /\ Delivered \in Credentials
         /\ Delivered # None
         /\ Delivered.user = Delivered.pass
         /\ Delivered.pass > 0
<1>1. CASE fetched # None
  BY <1>1 DEF Delivered, TypeOK, SecretInv
<1>2. CASE fetched = None
  <2>1. ~blanked
    BY <1>2 DEF Unreadable, Usable, Reread
  <2>2. Issued \in Nat /\ Issued > 0
    BY DEF Issued, TypeOK, SecretInv, Secrets
  <2>3. Delivered = [user |-> Issued, pass |-> Issued]
    BY <1>2, <2>1 DEF Delivered
  <2> QED
    BY <2>2, <2>3 DEF Credentials, Secrets, None, Fixed
<1> QED
  BY <1>1, <1>2

\* A fetch leaves a secret that is well formed, and the complete one if it was asked for.
LEMMA FetchKeeps ==
  ASSUME TypeOK, SecretInv, NEW source, ~Unreadable(source), Fetch(source)
  PROVE  /\ secret' \in Secrets /\ secret' > 0 /\ valid' \in SUBSET Secrets
         /\ blanked' = blanked
         /\ fetched' \in Credentials \cup {None}
         /\ fetched' # None => fetched'.user = fetched'.pass /\ fetched'.pass > 0
         /\ source = "hashicorp" => fetched' = Delivered
         /\ fetched # None => fetched' = fetched
<1>1. Issued \in Nat /\ Issued > 0
  BY DEF Issued, TypeOK, SecretInv, Secrets
<1>2. secret' \in Secrets /\ secret' > 0 /\ valid' \in SUBSET Secrets /\ blanked' = blanked
  BY <1>1 DEF Fetch, TypeOK, SecretInv, Secrets
<1>3. CASE source = "hashicorp"
  <2>1. fetched' = Delivered
    BY <1>3 DEF Fetch, Kept
  <2>2. fetched # None => Delivered = fetched
    BY DEF Delivered
  <2> QED
    BY <1>2, <1>3, <2>1, <2>2, DeliveredComplete
<1>4. CASE source # "hashicorp"
  BY <1>2, <1>4 DEF Fetch, Kept, TypeOK, SecretInv
<1> QED
  BY <1>3, <1>4

\* Each source delivers a version.
LEMMA SourcesDeliver ==
  ASSUME TypeOK, SecretInv, NEW source, ~Unreadable(source)
  PROVE  PasswordFrom(source) \in Secrets /\ UsernameFrom(source) \in Secrets
<1>1. CASE source = "hashicorp"
  BY <1>1, DeliveredComplete DEF PasswordFrom, UsernameFrom, Credentials
<1>2. CASE source # "hashicorp"
  BY <1>2 DEF PasswordFrom, UsernameFrom, TypeOK, Secrets, Blank, Fixed
<1> QED
  BY <1>1, <1>2

\* A warmup acquires at most WarmupCap connections, and one at least of a pool with a size.
LEMMA WarmupSizeBounds ==
  ASSUME TypeOK
  PROVE  /\ WarmupSize \in Int
         /\ WarmupSize <= WarmupCap
         /\ pool.maxOpen > 0 \/ pool.poolMax > 0 => WarmupSize > 0
<1>1. pool.maxOpen \in Int /\ pool.poolMax \in Int /\ pool.driver \in {"godror", "goora"}
  BY SizesAssumption DEF TypeOK
<1>2. WarmupCap \in Nat /\ WarmupCap > 0
  BY BoundsAssumption
<1> QED
  BY <1>1, <1>2 DEF WarmupSize, Wanted, SQLPoolLimit

-----------------------------------------------------------------------------
(* The initial states                                                      *)

LEMMA InitSetup == Init => SetupInv
<1> SUFFICES ASSUME Init PROVE SetupInv
  OBVIOUS
<1> USE DEF Init
<1>1. TypeOK
  <2>1. opening \in Credentials
    BY DEF Credentials, Secrets, Unread, Fixed, Blank
  <2>2. pool \in [driver : {"godror", "goora"}, maxOpen : Sizes, poolMax : Sizes]
    OBVIOUS
  <2>3. secret \in Secrets /\ valid \in SUBSET Secrets
    BY DEF Secrets
  <2>4. held \in 0 .. WarmupCap /\ restarts \in 0 .. MaxRestarts
    BY BoundsAssumption
  <2> QED
    BY <2>1, <2>2, <2>3, <2>4 DEF TypeOK
<1>2. SecretInv /\ CredentialsPaired /\ WarmupInv /\ UpWasReached
  BY DEF SecretInv, CredentialsPaired, WarmupInv, UpWasReached
<1> QED
  BY <1>1, <1>2 DEF SetupInv

-----------------------------------------------------------------------------
(* Types                                                                   *)

LEMMA FailTypes ==
  ASSUME Fail
  PROVE  /\ pc' = "idle" /\ booting' = FALSE /\ opening' \in Credentials /\ held' = 0
         /\ up' = 0 /\ backoff' = TRUE
BY DEF Fail, Unread, Credentials, Secrets, Fixed, Blank

LEMMA NextTypes == TypeOK /\ SecretInv /\ [Next]_vars => TypeOK'
<1> SUFFICES ASSUME TypeOK, SecretInv, [Next]_vars PROVE TypeOK'
  OBVIOUS
<1> USE BoundsAssumption
<1> USE DEF TypeOK, config, stores, world
<1>1. CASE ReadPassword
  <2>1. PasswordFrom(PasswordSource) \in Secrets
    BY <1>1, SourcesDeliver DEF ReadPassword
  <2>2. opening' \in Credentials
    BY <1>1, <2>1 DEF ReadPassword, Credentials
  <2> QED
    BY <1>1, <2>2, FetchKeeps DEF ReadPassword
<1>2. CASE Open
  <2>1. UsernameFrom(UsernameSource) \in Secrets
    BY <1>2, SourcesDeliver DEF Open
  <2>2. opening' \in Credentials
    BY <1>2, <2>1 DEF Open, Credentials
  <2>3. session' \in Credentials \cup {None}
    BY <1>2, <2>2 DEF Open
  <2> QED
    BY <1>2, <2>2, <2>3, FetchKeeps DEF Open
<1>3. CASE ConnectFails
  BY <1>3, FailTypes DEF ConnectFails
<1>4. CASE InitDB
  <2>1. reached' \in BOOLEAN /\ pooled' \in BOOLEAN
    BY <1>4 DEF InitDB
  <2> QED
    BY <1>4, <2>1 DEF InitDB
<1>5. CASE Acquire
  <2>1. held' \in 0 .. WarmupCap
    BY <1>5, WarmupSizeBounds DEF Acquire
  <2> QED
    BY <1>5, <2>1 DEF Acquire
<1>6. CASE WarmupFails
  <2>1. reached' \in BOOLEAN /\ pooled' \in BOOLEAN
    BY <1>6 DEF WarmupFails
  <2> QED
    BY <1>6, <2>1, FailTypes DEF WarmupFails
<1>7. CASE WarmupEnds
  <2>1. opening' \in Credentials
    BY <1>7 DEF WarmupEnds, Unread, Credentials, Secrets, Fixed, Blank
  <2>2. session' \in Credentials \cup {None}
    BY <1>7 DEF WarmupEnds
  <2>3. pooled' \in BOOLEAN
    BY <1>7 DEF WarmupEnds
  <2>4. held' \in 0 .. WarmupCap
    BY <1>7 DEF WarmupEnds
  <2> QED
    BY <1>7, <2>1, <2>2, <2>3, <2>4 DEF WarmupEnds
<1>8. CASE PingNext
  <2>1. CASE Reconnect
    BY <2>1 DEF Reconnect
  <2>2. CASE PingSucceeds
    BY <2>2 DEF PingSucceeds
  <2>3. CASE PingFails
    <3>1. backoff' \in BOOLEAN
      <4>1. PICK code \in ErrorCodes : backoff' = (code \in InvalidCredentials \cup Temporary)
        BY <2>3 DEF PingFails
      <4>2. (code \in InvalidCredentials \cup Temporary) \in BOOLEAN
        OBVIOUS
      <4> QED
        BY <4>1, <4>2
    <3> QED
      BY <2>3, <3>1 DEF PingFails
  <2> QED
    BY <1>8, <2>1, <2>2, <2>3 DEF PingNext
<1>9. CASE Restart
  <2>1. opening' \in Credentials
    BY <1>9 DEF Restart, Unread, Credentials, Secrets, Fixed, Blank
  <2>2. restarts' \in 0 .. MaxRestarts
    BY <1>9 DEF Restart
  <2>3. held' \in 0 .. WarmupCap
    BY <1>9 DEF Restart
  <2>4. session' \in Credentials \cup {None} /\ fetched' \in Credentials \cup {None}
    BY <1>9 DEF Restart
  <2> QED
    BY <1>9, <2>1, <2>2, <2>3, <2>4 DEF Restart
<1>10. CASE BackoffEnds \/ ConnectionsExpire
  BY <1>10 DEF BackoffEnds, ConnectionsExpire
<1>11. CASE Rotate \/ LeasesEnd
  BY <1>11 DEF Rotate, LeasesEnd, Secrets
<1>12. CASE EditSecret \/ StoresChange \/ ServerChanges
  <2>1. CASE EditSecret
    <3>1. blanked' \in BOOLEAN
      BY <2>1 DEF EditSecret
    <3> QED
      BY <2>1, <3>1 DEF EditSecret
  <2>2. CASE StoresChange
    <3>1. answering' \in BOOLEAN
      BY <2>2 DEF StoresChange
    <3> QED
      BY <2>2, <3>1 DEF StoresChange
  <2>3. CASE ServerChanges
    <3>1. reachable' \in BOOLEAN
      BY <2>3 DEF ServerChanges
    <3> QED
      BY <2>3, <3>1 DEF ServerChanges
  <2> QED
    BY <1>12, <2>1, <2>2, <2>3
<1>13. CASE UNCHANGED vars
  BY <1>13 DEF vars
<1> QED
  BY <1>1, <1>2, <1>3, <1>4, <1>5, <1>6, <1>7, <1>8, <1>9, <1>10, <1>11, <1>12, <1>13
  DEF Next, Connect, Warmup

-----------------------------------------------------------------------------
(* The secret                                                              *)

LEMMA NextSecret ==
  TypeOK /\ SecretInv /\ CredentialsPaired /\ [Next]_vars => SecretInv' /\ CredentialsPaired'
<1> SUFFICES ASSUME TypeOK, SecretInv, CredentialsPaired, [Next]_vars
             PROVE  SecretInv' /\ CredentialsPaired'
  OBVIOUS
<1>0. secret \in Nat /\ opening \in Credentials
  BY DEF TypeOK, Secrets
<1>1. CASE ReadPassword
  <2>1. /\ ~Unreadable(PasswordSource) /\ Fetch(PasswordSource) /\ UNCHANGED config
        /\ pc' = "username" /\ session' = session
        /\ opening' = [opening EXCEPT !.pass = PasswordFrom(PasswordSource)]
    BY <1>1 DEF ReadPassword
  <2>2. opening'.pass = PasswordFrom(PasswordSource)
    BY <1>0, <2>1 DEF Credentials
  <2>3. ASSUME PasswordSource = "hashicorp"
        PROVE  fetched' # None /\ opening'.pass = fetched'.pass
    <3>1. fetched' = Delivered /\ Delivered # None
      BY <2>1, <2>3, FetchKeeps, DeliveredComplete
    <3> QED
      BY <2>2, <2>3, <3>1 DEF PasswordFrom
  <2> QED
    BY <2>1, <2>3, FetchKeeps, SourcesFixed DEF SecretInv, CredentialsPaired
<1>2. CASE Open
  <2>1. /\ ~Unreadable(UsernameSource) /\ Fetch(UsernameSource) /\ UNCHANGED config
        /\ pc = "username" /\ pc' = "opened" /\ session' \in {opening', session}
        /\ opening' = [opening EXCEPT !.user = UsernameFrom(UsernameSource)]
    BY <1>2 DEF Open
  <2>2. opening'.user = UsernameFrom(UsernameSource) /\ opening'.pass = opening.pass
    BY <1>0, <2>1 DEF Credentials
  <2>3. fetched # None => fetched' = fetched
    BY <2>1, FetchKeeps
  <2>4. ASSUME UsernameSource = "hashicorp", PasswordSource = "hashicorp"
        PROVE  opening'.user = opening'.pass
    <3>1. fetched # None /\ opening.pass = fetched.pass /\ fetched.user = fetched.pass
      BY <2>1, <2>4 DEF SecretInv
    <3>2. opening'.user = fetched.user
      BY <2>2, <2>4, <3>1 DEF UsernameFrom, Delivered
    <3> QED
      BY <2>2, <3>1, <3>2
  <2>5. SecretInv'
    BY <2>1, <2>2, <2>3, FetchKeeps, SourcesFixed DEF SecretInv
  <2>6. CredentialsPaired'
    BY <2>1, <2>4, SourcesFixed DEF CredentialsPaired
  <2> QED
    BY <2>5, <2>6
<1>3. CASE ConnectFails \/ WarmupFails
  BY <1>3, SourcesFixed DEF ConnectFails, WarmupFails, Fail, SecretInv, CredentialsPaired, stores
<1>4. CASE InitDB \/ Acquire
  BY <1>4, SourcesFixed DEF InitDB, Acquire, SecretInv, CredentialsPaired, stores
<1>5. CASE WarmupEnds
  BY <1>5, SourcesFixed DEF WarmupEnds, SecretInv, CredentialsPaired, stores
<1>6. CASE PingNext
  BY <1>6, SourcesFixed
  DEF PingNext, Reconnect, PingSucceeds, PingFails, Ping, SecretInv, CredentialsPaired, stores
<1>7. CASE Restart
  BY <1>7, SourcesFixed DEF Restart, SecretInv, CredentialsPaired, stores
<1>8. CASE BackoffEnds \/ ConnectionsExpire \/ StoresChange \/ ServerChanges
  BY <1>8, SourcesFixed
  DEF BackoffEnds, ConnectionsExpire, StoresChange, ServerChanges, SecretInv,
      CredentialsPaired, stores
<1>9. CASE Rotate \/ LeasesEnd \/ EditSecret
  BY <1>0, <1>9, SourcesFixed
  DEF Rotate, LeasesEnd, EditSecret, SecretInv, CredentialsPaired
<1>10. CASE UNCHANGED vars
  BY <1>10, SourcesFixed DEF vars, SecretInv, CredentialsPaired, stores
<1> QED
  BY <1>1, <1>2, <1>3, <1>4, <1>5, <1>6, <1>7, <1>8, <1>9, <1>10 DEF Next, Connect, Warmup

-----------------------------------------------------------------------------
(* The warmup                                                              *)

LEMMA NextWarmup ==
  TypeOK /\ WarmupInv /\ UpWasReached /\ [Next]_vars => WarmupInv' /\ UpWasReached'
<1> SUFFICES ASSUME TypeOK, WarmupInv, UpWasReached, [Next]_vars
             PROVE  WarmupInv' /\ UpWasReached'
  OBVIOUS
<1> USE DEF WarmupInv, UpWasReached, config
<1>0. held \in Nat
  BY BoundsAssumption DEF TypeOK
<1>1. CASE Connect
  BY <1>1 DEF Connect, ReadPassword, Open, ConnectFails, Fail
<1>2. CASE InitDB
  BY <1>2 DEF InitDB
<1>3. CASE Acquire
  BY <1>0, <1>3 DEF Acquire
<1>4. CASE WarmupFails
  BY <1>4 DEF WarmupFails, Fail
<1>5. CASE WarmupEnds
  <2>1. pool.maxOpen > 0 \/ pool.poolMax > 0 => held > 0
    BY <1>0, <1>5, WarmupSizeBounds DEF WarmupEnds
  <2> QED
    BY <1>5, <2>1 DEF WarmupEnds
<1>6. CASE PingNext
  <2>1. CASE Reconnect
    BY <2>1 DEF Reconnect, Ping
  <2>2. CASE PingSucceeds
    BY <2>2 DEF PingSucceeds, Ping
  <2>3. CASE PingFails
    BY <2>3 DEF PingFails, Ping
  <2> QED
    BY <1>6, <2>1, <2>2, <2>3 DEF PingNext
<1>7. CASE Restart
  BY <1>7 DEF Restart
<1>8. CASE BackoffEnds \/ ConnectionsExpire \/ StoresChange \/ ServerChanges
  BY <1>8 DEF BackoffEnds, ConnectionsExpire, StoresChange, ServerChanges
<1>9. CASE Rotate \/ LeasesEnd \/ EditSecret
  BY <1>9 DEF Rotate, LeasesEnd, EditSecret
<1>10. CASE UNCHANGED vars
  BY <1>10 DEF vars
<1> QED
  BY <1>1, <1>2, <1>3, <1>4, <1>5, <1>6, <1>7, <1>8, <1>9, <1>10 DEF Next, Warmup

-----------------------------------------------------------------------------
(* The theorems                                                            *)

LEMMA SetupInvariant == Spec => []SetupInv
<1>1. Init => SetupInv
  BY InitSetup
<1>2. SetupInv /\ [Next]_vars => SetupInv'
  BY NextTypes, NextSecret, NextWarmup DEF SetupInv
<1> QED
  BY <1>1, <1>2, PTL DEF Spec

\* Types: a warmup never acquires more connections than its cap (warmupSession).
THEOREM SetupTypes == Spec => []TypeOK
<1>1. SetupInv => TypeOK
  BY DEF SetupInv
<1> QED
  BY <1>1, SetupInvariant, PTL

\* Username and password of a HashiCorp secret come from one fetch (GetPassword, then
\* GetUsername), whatever happens to the secret in between.
THEOREM SecretsArePaired == Spec => []CredentialsPaired
<1>1. SetupInv => CredentialsPaired
  BY DEF SetupInv
<1> QED
  BY <1>1, SetupInvariant, PTL

\* No connect turns to external authentication because the HashiCorp secret is incomplete
\* (GetVaultSecret, fetchHashiCorpVaultSecret).
THEOREM NoSilentExternalAuth == Spec => []ExternalAuthIntended
<1>1. SetupInv => ExternalAuthIntended
  BY DEF SetupInv, SecretInv, ExternalAuthIntended, Blank
<1> QED
  BY <1>1, SetupInvariant, PTL

\* For all sizes of the two pools of which one is positive, up = 1 means that the session
\* has been on the server (warmupSession, ping).
THEOREM UpMeansReached == Spec => []UpWasReached
<1>1. SetupInv => UpWasReached
  BY DEF SetupInv
<1> QED
  BY <1>1, SetupInvariant, PTL

=============================================================================
