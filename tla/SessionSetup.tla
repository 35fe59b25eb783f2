---------------------------- MODULE SessionSetup ----------------------------
(***************************************************************************)
(* How a database gets a session it can use: the credentials a connect     *)
(* reads (collector/config.go and the three vault packages), the pool it   *)
(* opens with them (connect_godror.go, connect_goora.go), the connections  *)
(* a warmup acquires one by one, and the pings that tell whether the       *)
(* session works (database.go).                                            *)
(*                                                                         *)
(* Secrets change, stores and the server come and go, and the process is   *)
(* restarted.  A secret is its version: username and password of the same  *)
(* version belong together.  One goroutine at a time sets up the session   *)
(* of a database; the locks around it are in DatabaseConnection.           *)
(***************************************************************************)
EXTENDS Integers

CONSTANTS
  Configurations,  \* the sets of credential settings to choose from
  Sizes,           \* the values of maxOpenConns and poolMaxConnections to choose from
  WarmupCap,       \* 100: the most connections a warmup acquires
  MaxSecret,       \* bound on the versions of the secret
  MaxRestarts      \* bound on restarts

Settings ==
  {"password", "passwordFile", "ociUsername", "ociPassword", "azureUsername",
   "azurePassword", "hashicorp",
   "dynamic"}      \* the HashiCorp secret is of mount type database

Blank == 0         \* an empty password: external authentication
Fixed == 0         \* the configured username, which no store changes
Unread == [user |-> Fixed, pass |-> Blank]
None == [user |-> Fixed, pass |-> -1]     \* no session, nothing fetched

ASSUME ConfigurationsAssumption == Configurations \subseteq SUBSET Settings
ASSUME SizesAssumption == Sizes \subseteq Int
ASSUME BoundsAssumption ==
  WarmupCap \in Nat \ {0} /\ MaxSecret \in Nat \ {0} /\ MaxRestarts \in Nat

VARIABLES
  settings,    \* which credentials the configuration names
  pool,        \* driver, maxOpenConns and poolMaxConnections
  secret,      \* the version the stores hold
  valid,       \* the versions the database accepts
  blanked,     \* is the password in the stores empty?
  answering,   \* do the stores answer?
  reachable,   \* does the server answer?
  fetched,     \* the HashiCorp secret kept for the life of the process
  session,     \* d.Session: the credentials of its pool
  opening,     \* the credentials read so far, then those of the pool being warmed
  pc,          \* "password", "username", "opened", "warming" or "idle"
  booting,     \* is it NewDatabase and the warmup at startup, and not reconnect?
  held,        \* connections the warmup holds
  pooled,      \* has the pool of the session, or of the reconnect, a connection?
  reached,     \* has it ever had one?
  up,          \* d.Up
  backoff,     \* is the database invalid for the time being?
  restarts     \* how often the process was replaced

config == <<settings, pool>>
stores == <<secret, valid, blanked>>
world == <<answering, reachable, restarts>>
vars == <<config, stores, world, fetched, session, opening, pc, booting, held, pooled,
          reached, up, backoff>>

Secrets == Nat
Credentials == [user : Secrets, pass : Secrets]

TypeOK ==
  /\ settings \in Configurations
  /\ pool \in [driver : {"godror", "goora"}, maxOpen : Sizes, poolMax : Sizes]
  /\ secret \in Secrets
  /\ valid \in SUBSET Secrets
  /\ blanked \in BOOLEAN
  /\ answering \in BOOLEAN
  /\ reachable \in BOOLEAN
  /\ fetched \in Credentials \cup {None}
  /\ session \in Credentials \cup {None}
  /\ opening \in Credentials
  /\ pc \in {"password", "username", "opened", "warming", "idle"}
  /\ booting \in BOOLEAN
  /\ held \in 0 .. WarmupCap
  /\ pooled \in BOOLEAN
  /\ reached \in BOOLEAN
  /\ up \in {0, 1}
  /\ backoff \in BOOLEAN
  /\ restarts \in 0 .. MaxRestarts

Init ==
  /\ settings \in Configurations
  /\ pool \in [driver : {"godror", "goora"}, maxOpen : Sizes, poolMax : Sizes]
  /\ secret = 1
  /\ valid = {1}
  /\ blanked = FALSE
  /\ answering \in BOOLEAN
  /\ reachable \in BOOLEAN
  /\ fetched = None
  /\ session = None
  /\ opening = Unread
  /\ pc = "password"
  /\ booting = TRUE
  /\ held = 0
  /\ pooled = FALSE
  /\ reached = FALSE
  /\ up = 0
  /\ backoff = FALSE
  /\ restarts = 0

-----------------------------------------------------------------------------
(* Where credentials come from                                             *)

\* The first of a list of settings that is configured, "literal" if none is.
First(order) ==
  LET hits == {i \in DOMAIN order : order[i] \in settings}
  IN IF hits = {} THEN "literal" ELSE order[CHOOSE i \in hits : \A j \in hits : i <= j]

UsernameSource == First(<<"ociUsername", "azureUsername", "hashicorp">>)
PasswordSource == First(<<"passwordFile", "ociPassword", "azurePassword", "hashicorp">>)

\* Read again at each connect.
Reread == {"passwordFile", "ociUsername", "ociPassword", "azureUsername", "azurePassword"}

\* GetVaultSecret rejects a secret without the keys it needs.  (Mutant: it does not.)
UsableUnchecked == TRUE
Usable == ~blanked

\* What a source cannot deliver: a store that is away, a secret that is not usable.
Unreadable(source) ==
  \/ source \in Reread /\ ~answering
  \/ source = "hashicorp" /\ fetched = None /\ ~(answering /\ Usable)

\* A dynamic secret is made by each fetch.
Issued == IF "dynamic" \in settings THEN secret + 1 ELSE secret

\* The HashiCorp secret: the one kept, or a new one.
Delivered ==
  IF fetched # None THEN fetched
  ELSE [user |-> Issued, pass |-> IF blanked THEN Blank ELSE Issued]

\* What fetchHashiCorpVaultSecret keeps.  (Mutant: nothing.)
KeptNothing(source) == None
Kept(source) == IF source = "hashicorp" THEN Delivered ELSE fetched

Fetch(source) ==
  /\ fetched' = Kept(source)
  /\ IF source = "hashicorp" /\ fetched = None
     THEN secret' = Issued /\ valid' = valid \cup {Issued}
     ELSE UNCHANGED <<secret, valid>>
  /\ UNCHANGED blanked

\* What each source delivers.
PasswordFrom(source) ==
  CASE source = "literal"   -> IF "password" \in settings THEN 1 ELSE Blank
    [] source = "hashicorp" -> Delivered.pass
    [] OTHER                -> IF blanked THEN Blank ELSE secret

UsernameFrom(source) ==
  CASE source = "literal"   -> Fixed
    [] source = "hashicorp" -> Delivered.user
    [] OTHER                -> secret

\* Whether the server lets them in: an empty password is left to a wallet, which is there
\* where no password is configured.
Accepted(c) ==
  IF c.pass = Blank THEN PasswordSource = "literal"
  ELSE c.pass \in valid /\ c.user \in {Fixed, c.pass}

-----------------------------------------------------------------------------
(* Sizes of the pool                                                       *)

\* SetMaxOpenConns; no limit if it is not positive.
SQLPoolLimit ==
  IF pool.driver = "goora" /\ pool.poolMax > 0 THEN pool.poolMax ELSE pool.maxOpen

\* P.PoolParams.MaxSessions, which only godror is given.
SessionLimit == IF pool.driver = "godror" THEN pool.poolMax ELSE 0

\* Connections a warmup acquires.  (Mutants: poolMaxConnections forgotten, not capped.)
WantedMaxOpen == pool.maxOpen
Wanted ==
  IF pool.driver = "godror" /\ pool.maxOpen < 1 THEN pool.poolMax ELSE SQLPoolLimit
WarmupUncapped == Wanted
WarmupSize == IF Wanted > WarmupCap THEN WarmupCap ELSE Wanted

Within(n, limit) == limit > 0 => n <= limit

-----------------------------------------------------------------------------
(* connect                                                                 *)

ReadPassword ==
  /\ pc = "password"
  /\ ~Unreadable(PasswordSource)
  /\ opening' = [opening EXCEPT !.pass = PasswordFrom(PasswordSource)]
  /\ Fetch(PasswordSource)
  /\ pc' = "username"
  /\ UNCHANGED <<config, world, session, booting, held, pooled, reached, up, backoff>>

\* The pool is opened, which does not contact the server.  NewDatabase makes it the
\* session as it is; reconnect warms it up first.
Open ==
  /\ pc = "username"
  /\ ~Unreadable(UsernameSource)
  /\ opening' = [opening EXCEPT !.user = UsernameFrom(UsernameSource)]
  /\ session' = IF booting THEN opening' ELSE session
  /\ Fetch(UsernameSource)
  /\ pc' = "opened"
  /\ UNCHANGED <<config, world, booting, held, pooled, reached, up, backoff>>

\* A failure anywhere: down and invalid.  At startup connectErr is kept until the warmup.
Fail ==
  /\ pc' = "idle"
  /\ booting' = FALSE
  /\ opening' = Unread
  /\ held' = 0
  /\ up' = 0
  /\ backoff' = TRUE

ConnectFails ==
  /\ \/ pc = "password" /\ Unreadable(PasswordSource)
     \/ pc = "username" /\ Unreadable(UsernameSource)
  /\ Fail
  /\ UNCHANGED <<config, stores, world, fetched, session, pooled, reached>>

-----------------------------------------------------------------------------
(* warmupSession                                                           *)

\* initdb: its statements are the first to contact the server, and may fail.
InitDB ==
  /\ pc = "opened"
  /\ LET connected == reachable /\ Accepted(opening)
     IN reached' = (reached \/ connected) /\ pooled' \in {FALSE, connected}
  /\ pc' = "warming"
  /\ UNCHANGED <<config, stores, world, fetched, session, opening, booting, held, up, backoff>>

\* An idle connection is taken first, then new ones.
CanAcquire ==
  /\ reachable
  /\ Accepted(opening) \/ (held = 0 /\ pooled)
  /\ Within(held + 1, SQLPoolLimit)
  /\ Within(held + 1, SessionLimit)

Acquire ==
  /\ pc = "warming"
  /\ held < WarmupSize
  /\ CanAcquire
  /\ held' = held + 1
  /\ reached' = TRUE
  /\ pooled' = TRUE
  /\ UNCHANGED <<config, stores, world, fetched, session, opening, pc, booting, up, backoff>>

\* Nothing comes within five seconds, or an error does.  The connections go back to the
\* pool, which is closed if it is that of a reconnect.
WarmupFails ==
  /\ pc = "warming"
  /\ held < WarmupSize
  /\ ~CanAcquire
  /\ Fail
  /\ pooled' \in {FALSE, booting /\ pooled}
  /\ reached' = (booting /\ reached)
  /\ UNCHANGED <<config, stores, world, fetched, session>>

\* How many of the connections stay in the pool is up to maxIdleConns.
WarmupEnds ==
  /\ pc = "warming"
  /\ held >= WarmupSize
  /\ session' = opening
  /\ pc' = "idle"
  /\ booting' = FALSE
  /\ opening' = Unread
  /\ held' = 0
  /\ pooled' \in {FALSE, pooled}
  /\ up' = 1
  /\ backoff' = FALSE
  /\ UNCHANGED <<config, stores, world, fetched, reached>>

-----------------------------------------------------------------------------
(* ping, by a scrape that finds the database valid                         *)

Ping == pc = "idle" /\ ~backoff

\* A session that was never opened is opened now.  (Mutant: its ping fails as any other.)
PingUnopened ==
  /\ Ping
  /\ session = None
  /\ backoff' = TRUE
  /\ UNCHANGED <<config, stores, world, fetched, session, opening, pc, booting, held, pooled,
                 reached, up>>

Reconnect ==
  /\ Ping
  /\ session = None
  /\ pc' = "password"
  /\ UNCHANGED <<config, stores, world, fetched, session, opening, booting, held, pooled,
                 reached, up, backoff>>

\* On a connection of the pool, or on a new one.
Answers == reachable /\ (pooled \/ Accepted(session))

PingSucceeds ==
  /\ Ping
  /\ session # None
  /\ Answers
  /\ up' = 1
  /\ reached' = TRUE
  /\ pooled' \in {FALSE, TRUE}
  /\ UNCHANGED <<config, stores, world, fetched, session, opening, pc, booting, held, backoff>>

\* Oracle's error codes, as far as the drivers' errors show them: a login that is refused
\* starts a backoff, and so do some of those of a server that is away.
InvalidCredentials == {1017, 28000}
Temporary == {1033, 3113, 3114, 12537}
Other == 12541
ErrorCodes == {Other} \cup IF reachable THEN InvalidCredentials ELSE Temporary

\* The session stays, with the credentials it has.
PingFails ==
  /\ Ping
  /\ session # None
  /\ ~Answers
  /\ up' = 0
  /\ \E code \in ErrorCodes : backoff' = (code \in InvalidCredentials \cup Temporary)
  /\ UNCHANGED <<config, stores, world, fetched, session, opening, pc, booting, held, pooled,
                 reached>>

-----------------------------------------------------------------------------
(* Environment                                                             *)

BackoffEnds ==
  /\ backoff
  /\ backoff' = FALSE
  /\ UNCHANGED <<config, stores, world, fetched, session, opening, pc, booting, held, pooled,
                 reached, up>>

\* connMaxLifetime
ConnectionsExpire ==
  /\ pooled
  /\ pooled' = FALSE
  /\ UNCHANGED <<config, stores, world, fetched, session, opening, pc, booting, held, reached,
                 up, backoff>>

\* The secret is replaced, in the stores and in the database.
Rotate ==
  /\ "dynamic" \notin settings
  /\ secret < MaxSecret
  /\ secret' = secret + 1
  /\ valid' = {secret'}
  /\ UNCHANGED <<config, blanked, world, fetched, session, opening, pc, booting, held, pooled,
                 reached, up, backoff>>

\* The leases of dynamic secrets end, and the users go with them.
LeasesEnd ==
  /\ "dynamic" \in settings
  /\ valid # {}
  /\ valid' = {}
  /\ UNCHANGED <<config, secret, blanked, world, fetched, session, opening, pc, booting, held,
                 pooled, reached, up, backoff>>

\* Somebody empties the password, or puts it back.
EditSecret ==
  /\ "dynamic" \notin settings
  /\ blanked' = ~blanked
  /\ UNCHANGED <<config, secret, valid, world, fetched, session, opening, pc, booting, held,
                 pooled, reached, up, backoff>>

StoresChange ==
  /\ answering' = ~answering
  /\ UNCHANGED <<config, stores, reachable, restarts, fetched, session, opening, pc, booting,
                 held, pooled, reached, up, backoff>>

\* A server that goes away takes the connections with it.
ServerChanges ==
  /\ reachable' = ~reachable
  /\ pooled' = FALSE
  /\ UNCHANGED <<config, stores, answering, restarts, fetched, session, opening, pc, booting,
                 held, reached, up, backoff>>

\* A new process: it knows nothing.
Restart ==
  /\ restarts < MaxRestarts
  /\ restarts' = restarts + 1
  /\ fetched' = None
  /\ session' = None
  /\ opening' = Unread
  /\ pc' = "password"
  /\ booting' = TRUE
  /\ held' = 0
  /\ pooled' = FALSE
  /\ reached' = FALSE
  /\ up' = 0
  /\ backoff' = FALSE
  /\ UNCHANGED <<config, stores, answering, reachable>>

-----------------------------------------------------------------------------
(* Specification                                                           *)

Connect == ReadPassword \/ Open \/ ConnectFails
Warmup == InitDB \/ Acquire \/ WarmupFails \/ WarmupEnds
PingNext == Reconnect \/ PingSucceeds \/ PingFails

Next ==
  \/ Connect \/ Warmup \/ PingNext
  \/ BackoffEnds \/ ConnectionsExpire \/ Restart
  \/ Rotate \/ LeasesEnd \/ EditSecret \/ StoresChange \/ ServerChanges

Spec == Init /\ [][Next]_vars

\* The goroutine that sets up a session runs, scrapes keep pinging and backoffs end.
FairSpec ==
  /\ Spec
  /\ WF_vars(Connect) /\ WF_vars(Warmup) /\ WF_vars(PingNext) /\ WF_vars(BackoffEnds)

-----------------------------------------------------------------------------
(* Properties                                                              *)

\* Username and password come from one secret although two calls read them, the secret may
\* be replaced in between, and each fetch of a dynamic one makes another user: "Private to
\* avoid making multiple calls" (config.go:103).
CredentialsPaired ==
  UsernameSource = "hashicorp" /\ PasswordSource = "hashicorp" =>
    /\ (pc \in {"opened", "warming"} => opening.user = opening.pass)
    /\ (session # None => session.user = session.pass)

\* An empty password means external authentication, and with HashiCorp Vault it is never
\* empty because a secret was incomplete: not at the first attempt, nor at a later one from
\* what the first has left behind.
ExternalAuthIntended ==
  PasswordSource = "hashicorp" /\ pc \in {"username", "opened", "warming"} =>
    opening.pass # Blank

\* Where a pool has a size, up = 1 is only set by warmups and pings of a session that has
\* been on the server.  (Where neither size is positive a warmup acquires nothing, ignores
\* what initdb met and sets it all the same.)
UpWasReached == (pool.maxOpen > 0 \/ pool.poolMax > 0) /\ up = 1 => reached

\* With godror the warmup goes by maxOpenConns (10 if it is not set) although the session
\* pool may be smaller: such a warmup never ends well.
WarmupFits ==
  pool.driver = "godror" /\ pool.poolMax > 0 =>
    pool.maxOpen <= pool.poolMax \/ WarmupCap <= pool.poolMax

\* What is kept from an earlier connect is out of date: the pool's credentials, or the
\* HashiCorp secret a new pool would get.
Outdated ==
  \/ session # None /\ ~Accepted(session)
  \/ fetched # None /\ fetched.user \notin valid

\* A database comes up when it and its stores answer, whatever failed before, unless its
\* sizes do not fit or what the process keeps of the credentials is out of date: then only
\* a restart helps.
Favourable == reachable /\ answering /\ ~blanked /\ ~Outdated
ComesUp == WarmupFits => (<>[]Favourable => <>[](up = 1))
=============================================================================
