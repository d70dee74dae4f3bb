------------------------------ MODULE Sessions ------------------------------
(***************************************************************************)
(* Logging in and out of wallets.  A wallet is a directory with a seed and *)
(* a database.  A session keeps the database open and shares the user's    *)
(* foreign listener with the user's other sessions; the listener's address *)
(* is published by a tor process that another thread starts, watches and   *)
(* starts again.                                                           *)
(*                                                                         *)
(* Calls of the owner API run in threads.  The session manager's lock is   *)
(* held during a login, but not while a wallet is created or deleted.      *)
(* Passwords are left out: a call with a wrong one changes nothing.        *)
(***************************************************************************)
EXTENDS Naturals, Sequences, FiniteSets, Functions

CONSTANTS
    Users,
    Threads,        \* threads of the RPC server
    MaxSessions,    \* bound on logins
    MaxIndex,       \* bound on new addresses
    MaxTorDeaths,   \* bound on losses of the tor process
    MaxRestarts     \* bound on crashes of the program

VARIABLES
    disk,       \* what of a wallet is on disk: none, dir, seed (and dir) or db (and both)
    open,       \* SqliteStore::m_userDBs
    sessions,   \* SessionManager::m_sessionsById: id -> user, and whether it holds a listener
    listener,   \* ForeignController::m_contextsByUsername: user -> references, token, address,
                \* and whether no new address was asked for since
    index,      \* each user's current address index, in the database
    call,       \* what each thread is doing
    lock,       \* the thread that holds the session manager's write lock, if any
    control,    \* TorProcess::m_pControl is set
    active,     \* TorProcess::m_activeServices
    toAdd,      \* TorProcess::m_servicesToAdd
    published,  \* addresses the tor process serves
    alive,      \* whether it runs
    nextId, deaths, restarts,
    raced       \* a wallet was opened between the check and the removal of a deletion

storeVars == <<disk, open>>
sessionVars == <<sessions, listener, index, call, lock>>
torVars == <<control, active, toAdd, published, alive>>
sVars == <<storeVars, sessionVars, torVars, nextId, deaths, restarts, raced>>

Idle == [pc |-> "idle", user |-> "", id |-> 0]

Calls(pc) == {t \in Threads : call[t].pc = pc}

Go(t, pc) == call' = [call EXCEPT ![t].pc = pc]

Done(t) == call' = [call EXCEPT ![t] = Idle]

Free == lock = {}

\* A deletion of u's wallet has passed its check.
Removing(u) == \E d \in Calls("remove") : call[d].user = u

(***************************************************************************)
(* The tor process.                                                        *)
(***************************************************************************)
\* TorControl::CheckHeartbeat.
CheckHeartbeat == alive

\* TorControl::AddOnion for each of the addresses; one that is served already
\* stays so.
AddOnion(addresses) == published' = published \cup addresses

\* TorControl::DelOnion.
DelOnion(address) == IF alive THEN published \ {address} ELSE published

\* TorProcess::AddListener.
AddListener(address) == toAdd' = Append(toAdd, address)

\* TorProcess::RemoveListener; the address stays if tor does not answer.
RemoveListener(address) ==
    /\ active' = active \ {address}
    /\ published' = IF control THEN DelOnion(address) ELSE published
    /\ UNCHANGED <<control, toAdd, alive>>

\* Thread_Initialize while tor is under control: the waiting services are
\* added, those that fail wait again.
AddServices ==
    /\ control
    /\ CheckHeartbeat
    /\ \E failed \in SUBSET Range(toAdd) :
         /\ toAdd' = SelectSeq(toAdd, LAMBDA a : a \in failed)
         /\ active' = active \cup (Range(toAdd) \ failed)
         /\ AddOnion(Range(toAdd) \ failed)
    /\ UNCHANGED <<storeVars, sessionVars, control, alive, nextId, deaths, restarts, raced>>

\* The heartbeat failed.
HeartbeatFails ==
    /\ control
    /\ ~CheckHeartbeat
    /\ control' = FALSE
    /\ UNCHANGED <<storeVars, sessionVars, active, toAdd, published, alive, nextId, deaths, restarts, raced>>

\* A service that tor refuses is not tried again.
TorCreateForgets ==
    /\ ~control
    /\ control' = TRUE
    /\ alive' = TRUE
    /\ \E failed \in SUBSET active : published' = active \ failed
    /\ UNCHANGED <<storeVars, sessionVars, active, toAdd, nextId, deaths, restarts, raced>>

\* The order of m_activeServices: a fixed one.
InMapOrder(services) == CHOOSE s \in Bijection(1..Cardinality(services), services) : TRUE

\* TorControl::Create, and the services that were active are added again.
TorCreate ==
    /\ ~control
    /\ control' = TRUE
    /\ alive' = TRUE
    /\ \E failed \in SUBSET active :
         /\ published' = active \ failed
         /\ toAdd' = toAdd \o InMapOrder(failed)
    /\ UNCHANGED <<storeVars, sessionVars, active, nextId, deaths, restarts, raced>>

\* The tor process ends.
TorDies ==
    /\ alive
    /\ deaths < MaxTorDeaths
    /\ deaths' = deaths + 1
    /\ alive' = FALSE
    /\ published' = {}
    /\ UNCHANGED <<storeVars, sessionVars, control, active, toAdd, nextId, restarts, raced>>

(***************************************************************************)
(* Creating a wallet: CreateWalletHandler, RestoreWalletHandler and        *)
(* SqliteStore::CreateWallet.  No two calls create the same wallet.        *)
(***************************************************************************)
Creating(u) == \E t \in Threads : call[t].user = u /\ call[t].pc \in {"mkdir", "seed", "db"}

\* CreateWalletHandler::ValidateInput.
ValidateInput(u) == disk[u] = "none"

CreateWallet(t, u) ==
    /\ call[t] = Idle
    /\ ValidateInput(u)
    /\ ~Creating(u)
    /\ call' = [call EXCEPT ![t] = [pc |-> "mkdir", user |-> u, id |-> 0]]
    /\ UNCHANGED <<storeVars, sessions, listener, index, lock, torVars, nextId, deaths, restarts, raced>>

CreateDirectory(t) ==
    /\ call[t].pc = "mkdir"
    /\ disk' = [disk EXCEPT ![call[t].user] = "dir"]
    /\ Go(t, "seed")
    /\ UNCHANGED <<open, sessions, listener, index, lock, torVars, nextId, deaths, restarts, raced>>

\* FileUtil::SafeWriteToFile; it fails when the directory was deleted.
WriteSeed(t) ==
    /\ call[t].pc = "seed"
    /\ \/ disk[call[t].user] = "dir" /\ disk' = [disk EXCEPT ![call[t].user] = "seed"] /\ Go(t, "db")
       \/ disk[call[t].user] = "none" /\ UNCHANGED disk /\ Done(t)
    /\ UNCHANGED <<open, sessions, listener, index, lock, torVars, nextId, deaths, restarts, raced>>

CreateDB(t) ==
    /\ call[t].pc = "db"
    /\ LET u == call[t].user
       IN \/ /\ disk[u] = "seed"
             /\ disk' = [disk EXCEPT ![u] = "db"]
             /\ open' = open \cup {u}
             /\ index' = [index EXCEPT ![u] = 0]
             /\ Go(t, "enter")
          \/ disk[u] = "none" /\ Done(t) /\ UNCHANGED <<disk, open, index>>
    /\ raced' = (raced \/ Removing(call[t].user))
    /\ UNCHANGED <<sessions, listener, lock, torVars, nextId, deaths, restarts>>

(***************************************************************************)
(* Logging in and out.                                                     *)
(***************************************************************************)
\* SessionManager::Authenticate: there is a seed to decrypt.
Authenticate(u) == disk[u] \in {"seed", "db"}

\* SqliteStore::OpenWallet: the database is open already, or it exists.
CanOpen(u) == u \in open \/ disk[u] = "db"

\* Login with a password: LoginHandler, and SessionManager::Login up to the
\* opened database.
LoginOpen(t, u) ==
    /\ call[t] = Idle
    /\ Free
    /\ nextId < MaxSessions
    /\ Authenticate(u)
    /\ CanOpen(u)
    /\ open' = open \cup {u}
    /\ raced' = (raced \/ Removing(u))
    /\ lock' = {t}
    /\ call' = [call EXCEPT ![t] = [pc |-> "listen", user |-> u, id |-> 0]]
    /\ UNCHANGED <<disk, sessions, listener, index, torVars, nextId, deaths, restarts>>

\* The same with the seed, after the wallet was created.
LoginCreated(t) ==
    /\ call[t].pc = "enter"
    /\ Free
    /\ nextId < MaxSessions
    /\ IF CanOpen(call[t].user)
       THEN /\ open' = open \cup {call[t].user}
            /\ lock' = {t}
            /\ Go(t, "listen")
       ELSE Done(t) /\ UNCHANGED <<open, lock>>
    /\ raced' = (raced \/ Removing(call[t].user))
    /\ UNCHANGED <<disk, sessions, listener, index, torVars, nextId, deaths, restarts>>

\* A further session is not counted.
StartListenerUncounted(u, id) ==
    IF u \in DOMAIN listener
    THEN UNCHANGED <<listener, torVars>>
    ELSE /\ listener' = [v \in DOMAIN listener \cup {u} |->
                          IF v = u THEN [refs |-> 1, token |-> id, address |-> <<u, index[u]>>, kept |-> TRUE] ELSE listener[v]]
         /\ AddListener(<<u, index[u]>>)
         /\ UNCHANGED <<control, active, published, alive>>

\* ForeignController::StartListener.
StartListener(u, id) ==
    IF u \in DOMAIN listener
    THEN /\ listener' = [listener EXCEPT ![u].refs = @ + 1]
         /\ UNCHANGED torVars
    ELSE /\ listener' = [v \in DOMAIN listener \cup {u} |->
                          IF v = u THEN [refs |-> 1, token |-> id, address |-> <<u, index[u]>>, kept |-> TRUE] ELSE listener[v]]
         /\ AddListener(<<u, index[u]>>)
         /\ UNCHANGED <<control, active, published, alive>>

\* The rest of SessionManager::Login; the listener may fail to start, with the
\* session already stored.
LoginListen(t, starts) ==
    /\ call[t].pc = "listen"
    /\ LET u == call[t].user
       IN /\ sessions' = [i \in DOMAIN sessions \cup {nextId} |->
                           IF i = nextId THEN [user |-> u, listens |-> starts] ELSE sessions[i]]
          /\ IF starts THEN StartListener(u, nextId) ELSE u \notin DOMAIN listener /\ UNCHANGED <<listener, torVars>>
    /\ nextId' = nextId + 1
    /\ lock' = {}
    /\ Done(t)
    /\ UNCHANGED <<storeVars, index, deaths, restarts, raced>>

Without(f, x) == [y \in DOMAIN f \ {x} |-> f[y]]

\* ForeignController::StopListener and the end of the listener.
StopListener(u) ==
    CASE u \notin DOMAIN listener -> UNCHANGED <<listener, torVars>>
      [] u \in DOMAIN listener /\ listener[u].refs > 1 ->
           listener' = [listener EXCEPT ![u].refs = @ - 1] /\ UNCHANGED torVars
      [] OTHER -> listener' = Without(listener, u) /\ RemoveListener(listener[u].address)

\* SessionManager::Logout.
Logout(id) ==
    /\ Free
    /\ sessions[id].listens
    /\ LET u == sessions[id].user
       IN /\ StopListener(u)
          /\ open' = IF u \in DOMAIN listener' THEN open ELSE open \ {u}
    /\ sessions' = Without(sessions, id)
    /\ UNCHANGED <<disk, index, call, lock, nextId, deaths, restarts, raced>>

(***************************************************************************)
(* Deleting a wallet: WalletManager::DeleteWallet authenticates the user,  *)
(* the store checks that the wallet is closed and removes the directory.   *)
(***************************************************************************)
DeleteWallet(t, u) ==
    /\ call[t] = Idle
    /\ Free
    /\ Authenticate(u)
    /\ call' = [call EXCEPT ![t] = [pc |-> "check", user |-> u, id |-> 0]]
    /\ UNCHANGED <<storeVars, sessions, listener, index, lock, torVars, nextId, deaths, restarts, raced>>

\* The store does not look whether the wallet is open.
DeleteUnchecked(t) ==
    /\ call[t].pc = "check"
    /\ Go(t, "remove")
    /\ UNCHANGED <<storeVars, sessions, listener, index, lock, torVars, nextId, deaths, restarts, raced>>

DeleteCheck(t) ==
    /\ call[t].pc = "check"
    /\ IF call[t].user \in open THEN Done(t) ELSE Go(t, "remove")
    /\ UNCHANGED <<storeVars, sessions, listener, index, lock, torVars, nextId, deaths, restarts, raced>>

DeleteRemove(t) ==
    /\ call[t].pc = "remove"
    /\ disk' = [disk EXCEPT ![call[t].user] = "none"]
    /\ Done(t)
    /\ UNCHANGED <<open, sessions, listener, index, lock, torVars, nextId, deaths, restarts, raced>>

(***************************************************************************)
(* A new address: GetNewWalletAddressHandler, and ReceiveTxHandler unless  *)
(* addresses are reused.  Each step looks the session up again.            *)
(***************************************************************************)
\* SessionManager::GetWallet throws when the session is gone.
GetWallet(id) == id \in DOMAIN sessions

\* The first step: WalletManager::RemoveCurrentTorListener.
NewAddress(t, id) ==
    /\ call[t] = Idle
    /\ Free
    /\ sessions[id].listens
    /\ index[sessions[id].user] + Cardinality(Calls("increase")) < MaxIndex
    /\ RemoveListener(<<sessions[id].user, index[sessions[id].user]>>)
    /\ call' = [call EXCEPT ![t] = [pc |-> "increase", user |-> sessions[id].user, id |-> id]]
    /\ listener' = [listener EXCEPT ![sessions[id].user].kept = FALSE]
    /\ UNCHANGED <<storeVars, sessions, index, lock, nextId, deaths, restarts, raced>>

\* IncreaseAddressKeyChainPathIndex.
IncreaseIndex(t) ==
    /\ call[t].pc = "increase"
    /\ Free
    /\ IF GetWallet(call[t].id)
       THEN index' = [index EXCEPT ![call[t].user] = @ + 1] /\ Go(t, "publish")
       ELSE UNCHANGED index /\ Done(t)
    /\ UNCHANGED <<storeVars, sessions, listener, lock, torVars, nextId, deaths, restarts, raced>>

PublishAddress(t) ==
    /\ call[t].pc = "publish"
    /\ Free
    /\ IF GetWallet(call[t].id)
       THEN AddListener(<<call[t].user, index[call[t].user]>>)
       ELSE UNCHANGED toAdd
    /\ Done(t)
    /\ UNCHANGED <<storeVars, sessions, listener, index, lock, control, active, published, alive, nextId, deaths, restarts, raced>>

\* RetryTorHandler: let go of tor, and publish the address with index 0.
RetryTor(t, id) ==
    /\ call[t] = Idle
    /\ Free
    /\ sessions[id].listens
    /\ deaths < MaxTorDeaths
    /\ deaths' = deaths + 1
    /\ control' = FALSE
    /\ alive' = FALSE
    /\ published' = {}
    /\ AddListener(<<sessions[id].user, 0>>)
    /\ UNCHANGED <<storeVars, sessionVars, active, nextId, restarts, raced>>

\* The program ends in any state and starts again.
Restart ==
    /\ restarts < MaxRestarts
    /\ restarts' = restarts + 1
    /\ open' = {}
    /\ sessions' = <<>>
    /\ listener' = <<>>
    /\ call' = [t \in Threads |-> Idle]
    /\ lock' = {}
    /\ control' = FALSE
    /\ alive' = FALSE
    /\ active' = {}
    /\ published' = {}
    /\ toAdd' = <<>>
    /\ UNCHANGED <<disk, index, nextId, deaths, raced>>

-----------------------------------------------------------------------------
SessionsInit ==
    /\ disk = [u \in Users |-> "none"]
    /\ open = {}
    /\ sessions = <<>>
    /\ listener = <<>>
    /\ index = [u \in Users |-> 0]
    /\ call = [t \in Threads |-> Idle]
    /\ lock = {}
    /\ control = FALSE
    /\ active = {}
    /\ toAdd = <<>>
    /\ published = {}
    /\ alive = FALSE
    /\ nextId = 1
    /\ deaths = 0
    /\ restarts = 0
    /\ raced = FALSE

CallSteps(t) ==
    \/ CreateDirectory(t) \/ WriteSeed(t) \/ CreateDB(t) \/ LoginCreated(t)
    \/ \E starts \in BOOLEAN : LoginListen(t, starts)
    \/ DeleteCheck(t) \/ DeleteRemove(t)
    \/ IncreaseIndex(t) \/ PublishAddress(t)

SessionsNext ==
    \/ AddServices \/ HeartbeatFails \/ TorCreate \/ TorDies
    \/ \E t \in Threads :
         \/ CallSteps(t)
         \/ \E u \in Users : CreateWallet(t, u) \/ LoginOpen(t, u) \/ DeleteWallet(t, u)
         \/ \E id \in DOMAIN sessions : NewAddress(t, id) \/ RetryTor(t, id)
    \/ \E id \in DOMAIN sessions : Logout(id)
    \/ Restart

SessionsSpec == SessionsInit /\ [][SessionsNext]_sVars

\* The tor thread goes on, and adding a service that keeps being tried
\* succeeds; calls that have begun end.
SessionsFair ==
    /\ WF_sVars(HeartbeatFails)
    /\ WF_sVars(TorCreate)
    /\ SF_sVars(AddServices /\ toAdd' = <<>>)
    /\ WF_sVars(\E t \in Threads : CallSteps(t))

-----------------------------------------------------------------------------
Listening(u) == {i \in DOMAIN sessions : sessions[i].user = u /\ sessions[i].listens}

\* ForeignController counts, for each user, the sessions that share the
\* listener, so it stops with the last of them and not before.
RefsMatchSessions ==
    \A u \in Users :
        IF u \in DOMAIN listener THEN listener[u].refs = Cardinality(Listening(u)) ELSE Listening(u) = {}

\* A wallet a session uses has its files: DeleteWallet refuses a wallet that
\* is logged in, unless the login came between its check and the removal.  A
\* database that is open belongs to a session, or to a call that is about to
\* make one: logging out of every session makes the wallet deletable.
InUseIsOnDisk ==
    /\ ~raced => \A i \in DOMAIN sessions :
         sessions[i].listens => sessions[i].user \in open /\ disk[sessions[i].user] = "db"
    /\ \A u \in open :
         \/ \E i \in DOMAIN sessions : sessions[i].user = u
         \/ \E t \in Threads : call[t].user = u /\ call[t].pc \in {"listen", "enter"}

\* The listener of a logged in wallet is served by tor in the end, however
\* often tor ends or refuses, as long as no new address is asked for.
ListenerIsPublished ==
    \A u \in Users :
        LET Due == u \in DOMAIN listener /\ listener[u].kept
        IN Due ~> (~Due \/ listener[u].address \in published)
=============================================================================
