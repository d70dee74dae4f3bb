--------------------------- MODULE AccountsProofs ---------------------------
(***************************************************************************)
(* The sessions of any number of users and threads, and the schema of a    *)
(* wallet database after any number of openings.                           *)
(***************************************************************************)
EXTENDS Sessions, WalletSchema, FiniteSetTheorems, TLAPS

-----------------------------------------------------------------------------
(* The schema *)

\* What the tables can be at each version.  A database that was created new has
\* the current tables and version 2; one of version 0 has no slates and was
\* never opened by this release.
SchemaInv ==
    /\ version \in {0, 2, 3, 4} /\ opens \in Nat
    /\ version = 0 => /\ tables = TablesOf(0)
                      /\ opens = 0 /\ ~usable /\ saved = {}
    /\ version = 2 => tables \in {Created, TablesOf(2), TablesOf(3)}
    /\ version = 3 => tables = TablesOf(3)
    /\ version = 4 => tables = Created
    /\ opens >= 1 => version \in {2, 4}
    /\ opens >= 2 => version = 4
    /\ saved \subseteq DOMAIN slateRows

LEMMA OldTables ==
    /\ TablesOf(0) = Tables({"id", "status", "encrypted"}, {"slate_id", "enc_context"}, {}, OldAccounts)
    /\ TablesOf(2) = Tables(OutputColumns, ContextColumns, SlateColumns \ {"armored_slatepack"}, OldAccounts)
    /\ TablesOf(3) = Tables(OutputColumns, ContextColumns, SlateColumns, OldAccounts)
    /\ TablesOf(4) = Created
BY DEF TablesOf

LEMMA TableFields ==
    ASSUME NEW o, NEW c, NEW s, NEW a
    PROVE  /\ Tables(o, c, s, a).outputs = o /\ Tables(o, c, s, a).slate_contexts = c
           /\ Tables(o, c, s, a).slate = s /\ Tables(o, c, s, a).accounts = a
BY DEF Tables

LEMMA OldColumns ==
    /\ OldAccounts # {}
    /\ OldAccounts \cup {"current_address_index"} = AccountColumns
    /\ AccountColumns \cup {"current_address_index"} = AccountColumns
BY DEF OldAccounts, AccountColumns

\* One opening takes a database of version 0 to the version and the tables of
\* the last case of version 2.
LEMMA FromZero ==
    ASSUME SchemaInv, OpenWallet, version = 0
    PROVE  version' = 2 /\ tables' = TablesOf(3)
<1> DEFINE o == {"id", "status", "encrypted"}
           c == {"slate_id", "enc_context"}
<1>1. tables = Tables(o, c, {}, OldAccounts)
  BY OldTables DEF SchemaInv
<1> HIDE DEF o, c
<1>2. tables.outputs = o /\ tables.slate_contexts = c /\ tables.slate = {} /\ tables.accounts = OldAccounts
  BY <1>1, TableFields
<1>3. /\ version' = UpdatedVersion(0)
      /\ tables' = Tables(UpdatedOutputs(0, o), UpdatedContexts(0, c), UpdatedSlates(0, {}),
                          UpdatedAccounts(0, OldAccounts))
  BY <1>2 DEF OpenWallet, LATEST_SCHEMA_VERSION
<1>4. /\ UpdatedOutputs(0, o) = OutputColumns /\ UpdatedContexts(0, c) = ContextColumns
      /\ UpdatedSlates(0, {}) = SlateColumns /\ UpdatedVersion(0) = 2
      /\ UpdatedAccounts(0, OldAccounts) = OldAccounts
  BY OldColumns DEF UpdatedOutputs, UpdatedContexts, UpdatedSlates, UpdatedVersion, UpdatedAccounts
<1> QED BY <1>3, <1>4, OldTables

\* The next opening makes every one of these tables current.
LEMMA ToLatest ==
    ASSUME SchemaInv, OpenWallet, version \in {2, 3}
    PROVE  version' = 4 /\ tables' = Created
<1>1. PICK s, a : /\ tables = Tables(OutputColumns, ContextColumns, s, a)
                  /\ a \in {AccountColumns, OldAccounts}
                  /\ s = SlateColumns \/ version = 2
  BY OldTables DEF SchemaInv, Created
<1>2. /\ tables.outputs = OutputColumns /\ tables.slate_contexts = ContextColumns
      /\ tables.slate = s /\ tables.accounts = a
  BY <1>1, TableFields
<1>3. /\ version' = UpdatedVersion(version)
      /\ tables' = Tables(UpdatedOutputs(version, OutputColumns), UpdatedContexts(version, ContextColumns),
                          UpdatedSlates(version, s), UpdatedAccounts(version, a))
  BY <1>2 DEF OpenWallet, LATEST_SCHEMA_VERSION
<1>4. /\ UpdatedOutputs(version, OutputColumns) = OutputColumns
      /\ UpdatedContexts(version, ContextColumns) = ContextColumns
      /\ UpdatedSlates(version, s) = SlateColumns /\ UpdatedVersion(version) = 4
      /\ UpdatedAccounts(version, a) = AccountColumns
  BY <1>1, OldColumns DEF UpdatedOutputs, UpdatedContexts, UpdatedSlates, UpdatedVersion, UpdatedAccounts,
                          LATEST_SCHEMA_VERSION
<1> QED BY <1>3, <1>4 DEF Created

LEMMA SchemaInitOK == SchemaInit => SchemaInv
<1> SUFFICES ASSUME SchemaInit PROVE SchemaInv
  OBVIOUS
<1>1. saved = {} /\ opens = 0 /\ opens \in Nat
  BY DEF SchemaInit
<1>2. CASE version = 2 /\ tables = Created
  BY <1>1, <1>2 DEF SchemaInv
<1>3. CASE version \in {0, 2, 3, 4} /\ tables = TablesOf(version) /\ usable = FALSE
  BY <1>1, <1>3, OldTables DEF SchemaInv
<1> QED BY <1>2, <1>3, Zenon DEF SchemaInit

LEMMA SchemaNextOK == SchemaInv /\ [SchemaNext]_schemaVars => SchemaInv'
<1> SUFFICES ASSUME SchemaInv, [SchemaNext]_schemaVars PROVE SchemaInv'
  OBVIOUS
<1>1. CASE UNCHANGED schemaVars
  BY <1>1 DEF schemaVars, SchemaInv
<1>2. CASE OpenWallet
  <2>1. opens' \in Nat /\ opens' = opens + 1 /\ opens \in Nat /\ saved' = saved /\ usable'
    BY <1>2 DEF OpenWallet, SchemaInv
  <2>2. CASE version = 0
    <3>1. opens' = 1 /\ saved' = {}
      BY <2>1, <2>2 DEF SchemaInv
    <3> QED BY <2>1, <2>2, <3>1, <1>2, FromZero DEF SchemaInv
  <2>3. CASE version \in {2, 3}
    <3>1. DOMAIN slateRows' = DOMAIN slateRows
      BY <1>2, <2>3 DEF OpenWallet, UpdatedSlateRows, LATEST_SCHEMA_VERSION
    <3> QED BY <2>1, <2>3, <3>1, <1>2, ToLatest DEF SchemaInv
  <2>4. CASE version = 4
    <3>1. UNCHANGED <<version, tables, slateRows>>
      BY <1>2, <2>4 DEF OpenWallet, LATEST_SCHEMA_VERSION
    <3> QED BY <2>1, <2>4, <3>1 DEF SchemaInv
  <2> QED BY <2>2, <2>3, <2>4 DEF SchemaInv
<1>3. CASE CloseWallet
  BY <1>3 DEF CloseWallet, SchemaInv
<1>4. ASSUME NEW s \in Slates, SaveSlate(s) PROVE SchemaInv'
  BY <1>4 DEF SaveSlate, SchemaInv
<1> QED BY <1>1, <1>2, <1>3, <1>4 DEF SchemaNext

\* However often the wallet is opened and closed, and whatever release wrote it,
\* two openings bring its tables to those of CreateWalletDB, and no slate that
\* was stored is lost (SqliteStore::OpenWallet and the tables' UpdateSchema).
THEOREM SchemaIsConverging == SchemaSpec => []SchemaConverges
<1>1. SchemaInv => SchemaConverges
  BY DEF SchemaInv, SchemaConverges, LATEST_SCHEMA_VERSION
<1> QED BY <1>1, SchemaInitOK, SchemaNextOK, PTL DEF SchemaSpec

-----------------------------------------------------------------------------
(* The sessions: the invariant *)

CallRecord ==
    [pc : {"idle", "mkdir", "seed", "db", "enter", "listen", "check", "remove", "increase", "publish"},
     user : Users \cup {""}, id : Nat]
SessionRecord == [user : Users, listens : BOOLEAN]
ListenerRecord == [refs : Nat, token : Nat, address : Users \X Nat, kept : BOOLEAN]

SessionTypes ==
    /\ disk \in [Users -> {"none", "dir", "seed", "db"}]
    /\ open \subseteq Users
    /\ nextId \in Nat
    /\ IsFiniteSet(DOMAIN sessions)
    /\ \A i \in DOMAIN sessions : i \in Nat /\ i < nextId /\ sessions[i] \in SessionRecord
    /\ \A u \in DOMAIN listener : listener[u] \in ListenerRecord
    /\ index \in [Users -> Nat]
    /\ call \in [Threads -> CallRecord]
    /\ \A t \in Threads : call[t].pc # "idle" => call[t].user \in Users

\* A call that creates a wallet is the only one for its user, and finds what it
\* left on disk or nothing, if the wallet was deleted meanwhile.
Creates(c) == c.pc \in {"mkdir", "seed", "db"}

CreationOK ==
    /\ \A t \in Threads : /\ call[t].pc = "mkdir" => disk[call[t].user] = "none"
                          /\ call[t].pc = "seed" => disk[call[t].user] \in {"dir", "none"}
                          /\ call[t].pc = "db" => disk[call[t].user] \in {"seed", "none"}
    /\ \A s, t \in Threads :
         Creates(call[s]) /\ Creates(call[t]) /\ call[s].user = call[t].user => s = t

\* A database that is open is whole, and no deletion of it has passed its check.
OpenIsWhole == ~raced => \A u \in open : disk[u] = "db" /\ ~Removing(u)

\* The lock of the session manager is held by the call that starts a listener,
\* whose wallet it opened.
LockOK ==
    /\ lock = Calls("listen")
    /\ \A s, t \in lock : s = t
    /\ \A t \in lock : call[t].user \in open

\* A session with a listener has its database open.
ListeningIsOpen == \A i \in DOMAIN sessions : sessions[i].listens => sessions[i].user \in open

OpenIsUsed ==
    \A u \in open :
       \/ \E i \in DOMAIN sessions : sessions[i].user = u
       \/ \E t \in Threads : call[t].user = u /\ call[t].pc \in {"listen", "enter"}

\* The inductive invariant.
SessionsInv ==
    /\ SessionTypes /\ CreationOK /\ OpenIsWhole /\ LockOK
    /\ ListeningIsOpen /\ OpenIsUsed /\ RefsMatchSessions

-----------------------------------------------------------------------------
(* What the steps have in common *)

\* The count of references is about the sessions and the listeners only.
LEMMA RefsStay ==
    ASSUME RefsMatchSessions, UNCHANGED <<sessions, listener>>
    PROVE  RefsMatchSessions'
<1>1. \A u \in Users : Listening(u)' = Listening(u)
  BY DEF Listening
<1> QED BY <1>1 DEF RefsMatchSessions

\* A thread that takes up or ends one call leaves the others alone.
LEMMA OneCall ==
    ASSUME SessionTypes, NEW t \in Threads, NEW x \in CallRecord,
           x.pc # "idle" => x.user \in Users,
           call' = [call EXCEPT ![t] = x]
    PROVE  /\ call' \in [Threads -> CallRecord]
           /\ \A s \in Threads : call'[s].pc # "idle" => call'[s].user \in Users
           /\ call'[t] = x
           /\ \A s \in Threads : s # t => call'[s] = call[s]
BY DEF SessionTypes

\* Ending a call, and going on with one.
LEMMA IdleCall == Idle \in CallRecord /\ Idle.pc = "idle" /\ Idle.user = ""
BY DEF Idle, CallRecord

LEMMA NextCall ==
    ASSUME SessionTypes, NEW t \in Threads, call[t].pc # "idle",
           NEW p \in {"seed", "db", "enter", "listen", "remove", "publish"}, Go(t, p)
    PROVE  \E x \in CallRecord : /\ call' = [call EXCEPT ![t] = x]
                                 /\ x.pc = p /\ x.user = call[t].user /\ x.user \in Users
<1> DEFINE x == [call[t] EXCEPT !.pc = p]
<1>1. call[t] \in CallRecord /\ call[t].user \in Users
  BY DEF SessionTypes
<1>2. x \in CallRecord /\ x.pc = p /\ x.user = call[t].user
  BY <1>1 DEF CallRecord
<1>3. call' = [call EXCEPT ![t] = x]
  BY DEF Go
<1> HIDE DEF x
<1> QED BY <1>1, <1>2, <1>3, Zenon

\* A step that changes no call, no file, no session and no listener.
LEMMA TorStep ==
    ASSUME SessionsInv, UNCHANGED <<disk, open, sessions, listener, index, call, lock, nextId, raced>>
    PROVE  SessionsInv'
<1>1. RefsMatchSessions'
  BY RefsStay DEF SessionsInv
<1>2. SessionTypes' /\ CreationOK' /\ ListeningIsOpen' /\ OpenIsUsed'
  BY DEF SessionsInv, SessionTypes, CreationOK, Creates, ListeningIsOpen, OpenIsUsed
<1>3. OpenIsWhole' /\ LockOK'
  BY DEF SessionsInv, OpenIsWhole, LockOK, Removing, Calls
<1> QED BY <1>1, <1>2, <1>3 DEF SessionsInv

\* A step of one call that leaves the sessions, the listeners and the lock alone:
\* what remains to be shown is about the files.
LEMMA QuietCall ==
    ASSUME SessionsInv, NEW t \in Threads, NEW x \in CallRecord,
           x.pc # "idle" => x.user \in Users,
           call' = [call EXCEPT ![t] = x],
           call[t].pc \notin {"listen", "enter"}, x.pc # "listen",
           UNCHANGED <<open, sessions, listener, lock, nextId>>,
           disk' \in [Users -> {"none", "dir", "seed", "db"}], index' \in [Users -> Nat],
           CreationOK', OpenIsWhole'
    PROVE  SessionsInv'
<1>1. /\ call' \in [Threads -> CallRecord] /\ call'[t] = x
      /\ \A s \in Threads : call'[s].pc # "idle" => call'[s].user \in Users
      /\ \A s \in Threads : s # t => call'[s] = call[s]
  BY OneCall, Zenon DEF SessionsInv
<1>2. SessionTypes'
  BY <1>1 DEF SessionsInv, SessionTypes
<1>3. LockOK'
  <2>1. Calls("listen")' = Calls("listen")
    BY <1>1 DEF Calls
  <2>2. \A s \in lock : call'[s] = call[s]
    BY <1>1 DEF SessionsInv, LockOK, Calls
  <2> QED BY <2>1, <2>2 DEF SessionsInv, LockOK
<1>4. ListeningIsOpen' /\ OpenIsUsed'
  BY <1>1 DEF SessionsInv, ListeningIsOpen, OpenIsUsed
<1>5. RefsMatchSessions'
  BY RefsStay DEF SessionsInv
<1> QED BY <1>2, <1>3, <1>4, <1>5 DEF SessionsInv

\* A step of one call that leaves the files alone too, and passes the check of a
\* deletion only where the wallet is closed.
LEMMA PlainCall ==
    ASSUME SessionsInv, NEW t \in Threads, NEW x \in CallRecord,
           x.pc # "idle" => x.user \in Users,
           call' = [call EXCEPT ![t] = x],
           call[t].pc \notin {"listen", "enter"}, x.pc # "listen",
           UNCHANGED <<disk, open, sessions, listener, lock, nextId, raced>>,
           index' \in [Users -> Nat],
           ~Creates(x), x.pc = "remove" => x.user \notin open
    PROVE  SessionsInv'
<1>1. call'[t] = x /\ \A s \in Threads : s # t => call'[s] = call[s]
  BY OneCall, Zenon DEF SessionsInv
<1>2. CreationOK'
  BY <1>1 DEF SessionsInv, CreationOK, Creates
<1>3. OpenIsWhole'
  BY <1>1 DEF SessionsInv, OpenIsWhole, Removing, Calls
<1>4. disk' \in [Users -> {"none", "dir", "seed", "db"}]
  BY DEF SessionsInv, SessionTypes
<1> QED BY <1>2, <1>3, <1>4, QuietCall, Zenon

-----------------------------------------------------------------------------
(* The steps that create a wallet *)

LEMMA CreateWalletStep ==
    ASSUME SessionsInv, NEW t \in Threads, NEW u \in Users, CreateWallet(t, u)
    PROVE  SessionsInv'
<1> DEFINE x == [pc |-> "mkdir", user |-> u, id |-> 0]
<1>1. x \in CallRecord /\ x.pc = "mkdir" /\ x.user = u
  BY DEF CallRecord
<1>2. /\ call' = [call EXCEPT ![t] = x] /\ call[t].pc = "idle"
      /\ disk[u] = "none" /\ ~Creating(u)
      /\ UNCHANGED <<disk, open, sessions, listener, index, lock, nextId, raced>>
  BY IdleCall DEF CreateWallet, ValidateInput, storeVars
<1> HIDE DEF x
<1>3. call'[t] = x /\ \A s \in Threads : s # t => call'[s] = call[s]
  BY <1>1, <1>2, OneCall, Zenon DEF SessionsInv
<1>4. CreationOK'
  BY <1>1, <1>2, <1>3 DEF SessionsInv, CreationOK, Creates, Creating
<1>5. OpenIsWhole'
  BY <1>1, <1>2, <1>3 DEF SessionsInv, OpenIsWhole, Removing, Calls
<1>6. disk' \in [Users -> {"none", "dir", "seed", "db"}] /\ index' \in [Users -> Nat]
  BY <1>2 DEF SessionsInv, SessionTypes
<1> QED BY <1>1, <1>2, <1>4, <1>5, <1>6, QuietCall, Zenon

LEMMA CreateDirectoryStep ==
    ASSUME SessionsInv, NEW t \in Threads, CreateDirectory(t)
    PROVE  SessionsInv'
<1> DEFINE u == call[t].user
<1>1. /\ call[t].pc = "mkdir" /\ Go(t, "seed")
      /\ disk' = [disk EXCEPT ![u] = "dir"]
      /\ UNCHANGED <<open, sessions, listener, index, lock, nextId, raced>>
  BY DEF CreateDirectory
<1>2. PICK x \in CallRecord : /\ call' = [call EXCEPT ![t] = x]
                              /\ x.pc = "seed" /\ x.user = u /\ u \in Users
  BY <1>1, NextCall DEF SessionsInv
<1>3. call'[t] = x /\ \A s \in Threads : s # t => call'[s] = call[s]
  BY <1>2, OneCall, Zenon DEF SessionsInv
<1>4. disk \in [Users -> {"none", "dir", "seed", "db"}] /\ disk[u] = "none"
  BY <1>1 DEF SessionsInv, SessionTypes, CreationOK
<1>5. /\ disk' \in [Users -> {"none", "dir", "seed", "db"}] /\ disk'[u] = "dir"
      /\ \A v \in Users : v # u => disk'[v] = disk[v]
  BY <1>1, <1>2, <1>4
<1>6. CreationOK'
  BY <1>1, <1>2, <1>3, <1>5 DEF SessionsInv, SessionTypes, CreationOK, Creates
<1>7. OpenIsWhole'
  BY <1>1, <1>2, <1>3, <1>4, <1>5 DEF SessionsInv, SessionTypes, OpenIsWhole, Removing, Calls
<1>8. index' \in [Users -> Nat]
  BY <1>1 DEF SessionsInv, SessionTypes
<1> HIDE DEF u
<1> QED BY <1>1, <1>2, <1>5, <1>6, <1>7, <1>8, QuietCall, Zenon

LEMMA WriteSeedStep ==
    ASSUME SessionsInv, NEW t \in Threads, WriteSeed(t)
    PROVE  SessionsInv'
<1> DEFINE u == call[t].user
<1>1. /\ call[t].pc = "seed"
      /\ UNCHANGED <<open, sessions, listener, index, lock, nextId, raced>>
      /\ index' \in [Users -> Nat]
  BY DEF WriteSeed, SessionsInv, SessionTypes
<1>2. CASE disk[u] = "dir" /\ disk' = [disk EXCEPT ![u] = "seed"] /\ Go(t, "db")
  <2>1. PICK x \in CallRecord : /\ call' = [call EXCEPT ![t] = x]
                                /\ x.pc = "db" /\ x.user = u /\ u \in Users
    BY <1>1, <1>2, NextCall DEF SessionsInv
  <2>2. call'[t] = x /\ \A s \in Threads : s # t => call'[s] = call[s]
    BY <2>1, OneCall, Zenon DEF SessionsInv
  <2>3. /\ disk' \in [Users -> {"none", "dir", "seed", "db"}] /\ disk'[u] = "seed"
        /\ \A v \in Users : v # u => disk'[v] = disk[v]
    BY <1>2, <2>1 DEF SessionsInv, SessionTypes
  <2>4. CreationOK'
    BY <1>1, <2>1, <2>2, <2>3 DEF SessionsInv, SessionTypes, CreationOK, Creates
  <2>5. OpenIsWhole'
    BY <1>1, <1>2, <2>1, <2>2, <2>3 DEF SessionsInv, SessionTypes, OpenIsWhole, Removing, Calls
  <2> HIDE DEF u
  <2> QED BY <1>1, <2>1, <2>3, <2>4, <2>5, QuietCall, Zenon
<1>3. CASE UNCHANGED disk /\ Done(t)
  BY <1>1, <1>3, IdleCall, PlainCall DEF Done, Creates
<1> QED BY <1>2, <1>3 DEF WriteSeed

\* The new database is open, and the call that created it goes on to log in.
LEMMA CreateDBStep ==
    ASSUME SessionsInv, NEW t \in Threads, CreateDB(t)
    PROVE  SessionsInv'
<1> DEFINE u == call[t].user
<1>1. /\ call[t].pc = "db" /\ u \in Users
      /\ UNCHANGED <<sessions, listener, lock, nextId>>
      /\ raced' = (raced \/ Removing(u))
  BY DEF CreateDB, SessionsInv, SessionTypes
<1>2. CASE /\ disk[u] = "seed" /\ disk' = [disk EXCEPT ![u] = "db"]
           /\ open' = open \cup {u} /\ index' = [index EXCEPT ![u] = 0] /\ Go(t, "enter")
  <2>1. PICK x \in CallRecord : call' = [call EXCEPT ![t] = x] /\ x.pc = "enter" /\ x.user = u
    BY <1>1, <1>2, NextCall DEF SessionsInv
  <2>2. /\ call' \in [Threads -> CallRecord] /\ call'[t] = x
        /\ \A s \in Threads : call'[s].pc # "idle" => call'[s].user \in Users
        /\ \A s \in Threads : s # t => call'[s] = call[s]
    BY <1>1, <2>1, OneCall, Zenon DEF SessionsInv
  <2>3. /\ disk' \in [Users -> {"none", "dir", "seed", "db"}] /\ disk'[u] = "db"
        /\ \A v \in Users : v # u => disk'[v] = disk[v]
        /\ index' \in [Users -> Nat] /\ open' \subseteq Users
    BY <1>1, <1>2 DEF SessionsInv, SessionTypes
  <2>4. SessionTypes'
    BY <1>1, <2>2, <2>3 DEF SessionsInv, SessionTypes
  <2>5. CreationOK'
    BY <1>1, <2>1, <2>2, <2>3 DEF SessionsInv, SessionTypes, CreationOK, Creates
  <2>6. OpenIsWhole'
    <3>1. \A v \in Users : Removing(v)' => Removing(v)
      BY <2>1, <2>2 DEF Removing, Calls
    <3> QED BY <1>1, <1>2, <2>3, <3>1, ZenonT(30) DEF SessionsInv, SessionTypes, OpenIsWhole
  <2>7. LockOK'
    <3>1. Calls("listen")' = Calls("listen")
      BY <1>1, <2>1, <2>2 DEF Calls
    <3>2. \A s \in lock : call'[s] = call[s]
      BY <1>1, <2>2 DEF SessionsInv, LockOK, Calls
    <3> QED BY <1>1, <1>2, <3>1, <3>2 DEF SessionsInv, LockOK
  <2>8. ListeningIsOpen' /\ OpenIsUsed'
    BY <1>1, <1>2, <2>1, <2>2 DEF SessionsInv, ListeningIsOpen, OpenIsUsed
  <2>9. RefsMatchSessions'
    BY <1>1, RefsStay DEF SessionsInv
  <2> QED BY <2>4, <2>5, <2>6, <2>7, <2>8, <2>9 DEF SessionsInv
<1>3. CASE disk[u] = "none" /\ Done(t) /\ UNCHANGED <<disk, open, index>>
  <2>1. call'[t] = Idle /\ \A s \in Threads : s # t => call'[s] = call[s]
    BY <1>3, IdleCall, OneCall DEF SessionsInv, Done
  <2>2. CreationOK'
    BY <1>3, <2>1, IdleCall, ZenonT(30) DEF SessionsInv, CreationOK, Creates
  <2>3. OpenIsWhole'
    <3>1. \A v \in Users : Removing(v)' => Removing(v)
      BY <2>1, IdleCall DEF Removing, Calls
    <3> QED BY <1>1, <1>3, <3>1, Zenon DEF SessionsInv, SessionTypes, OpenIsWhole
  <2>4. disk' \in [Users -> {"none", "dir", "seed", "db"}] /\ index' \in [Users -> Nat]
    BY <1>3 DEF SessionsInv, SessionTypes
  <2> QED BY <1>1, <1>3, <2>2, <2>3, <2>4, IdleCall, QuietCall DEF Done
<1> QED BY <1>2, <1>3 DEF CreateDB

-----------------------------------------------------------------------------
(* Logging in and out *)

\* A call opens the wallet, or finds it open, and takes the lock.
LEMMA OpensAndLocks ==
    ASSUME SessionsInv, NEW t \in Threads, NEW u \in Users, NEW x \in CallRecord,
           x.pc = "listen", x.user = u,
           call[t].pc \in {"idle", "enter"}, call[t].pc = "enter" => call[t].user = u,
           Free, lock' = {t}, CanOpen(u), open' = open \cup {u}, raced' = (raced \/ Removing(u)),
           call' = [call EXCEPT ![t] = x],
           UNCHANGED <<disk, sessions, listener, index, nextId>>
    PROVE  SessionsInv'
<1>1. /\ call' \in [Threads -> CallRecord] /\ call'[t] = x
      /\ \A s \in Threads : call'[s].pc # "idle" => call'[s].user \in Users
      /\ \A s \in Threads : s # t => call'[s] = call[s]
  BY OneCall, Zenon DEF SessionsInv
<1>2. SessionTypes'
  BY <1>1, SMTT(30) DEF SessionsInv, SessionTypes
<1>3. CreationOK'
  BY <1>1 DEF SessionsInv, CreationOK, Creates
<1>4. OpenIsWhole'
  <2>1. \A v \in Users : Removing(v)' => Removing(v)
    BY <1>1 DEF Removing, Calls
  <2> QED BY <2>1, Zenon DEF SessionsInv, SessionTypes, OpenIsWhole, CanOpen
<1>5. LockOK'
  <2>1. Calls("listen")' = {t}
    BY <1>1, SMTT(30) DEF SessionsInv, LockOK, Calls, Free
  <2> QED BY <1>1, <2>1 DEF LockOK
<1>6. ListeningIsOpen' /\ OpenIsUsed'
  BY <1>1 DEF SessionsInv, ListeningIsOpen, OpenIsUsed
<1>7. RefsMatchSessions'
  BY RefsStay DEF SessionsInv
<1> QED BY <1>2, <1>3, <1>4, <1>5, <1>6, <1>7 DEF SessionsInv

LEMMA LoginOpenStep ==
    ASSUME SessionsInv, NEW t \in Threads, NEW u \in Users, LoginOpen(t, u)
    PROVE  SessionsInv'
<1> DEFINE x == [pc |-> "listen", user |-> u, id |-> 0]
<1>1. x \in CallRecord /\ x.pc = "listen" /\ x.user = u
  BY DEF CallRecord
<1>2. call[t].pc = "idle"
  BY IdleCall DEF LoginOpen
<1>3. /\ call' = [call EXCEPT ![t] = x] /\ Free /\ lock' = {t} /\ CanOpen(u)
      /\ open' = open \cup {u} /\ raced' = (raced \/ Removing(u))
      /\ UNCHANGED <<disk, sessions, listener, index, nextId>>
  BY DEF LoginOpen
<1> HIDE DEF x
<1> QED BY <1>1, <1>2, <1>3, OpensAndLocks, Zenon

LEMMA LoginCreatedStep ==
    ASSUME SessionsInv, NEW t \in Threads, LoginCreated(t)
    PROVE  SessionsInv'
<1> DEFINE u == call[t].user
<1>1. /\ call[t].pc = "enter" /\ u \in Users /\ Free
      /\ UNCHANGED <<disk, sessions, listener, index, nextId>>
      /\ raced' = (raced \/ Removing(u))
  BY DEF LoginCreated, SessionsInv, SessionTypes
<1>2. CASE CanOpen(u) /\ open' = open \cup {u} /\ lock' = {t} /\ Go(t, "listen")
  <2>1. PICK x \in CallRecord : call' = [call EXCEPT ![t] = x] /\ x.pc = "listen" /\ x.user = u
    BY <1>1, <1>2, NextCall DEF SessionsInv
  <2> HIDE DEF u
  <2> QED BY <1>1, <1>2, <2>1, OpensAndLocks, Zenon DEF u
<1>3. CASE ~CanOpen(u) /\ Done(t) /\ UNCHANGED <<open, lock>>
  <2>1. /\ call' \in [Threads -> CallRecord] /\ call'[t] = Idle
        /\ \A s \in Threads : call'[s].pc # "idle" => call'[s].user \in Users
        /\ \A s \in Threads : s # t => call'[s] = call[s]
    BY <1>3, IdleCall, OneCall DEF SessionsInv, Done
  <2>2. SessionTypes'
    BY <1>1, <1>3, <2>1 DEF SessionsInv, SessionTypes
  <2>21. CreationOK'
    BY <1>1, <1>3, <2>1, IdleCall, ZenonT(30) DEF SessionsInv, CreationOK, Creates
  <2>3. OpenIsWhole'
    <3>1. \A v \in Users : Removing(v)' => Removing(v)
      BY <2>1, IdleCall DEF Removing, Calls
    <3> QED BY <1>1, <1>3, <3>1, Zenon DEF SessionsInv, SessionTypes, OpenIsWhole
  <2>4. LockOK'
    BY <1>1, <1>3, <2>1, IdleCall, ZenonT(30) DEF SessionsInv, LockOK, Calls, Free
  <2>5. ListeningIsOpen'
    BY <1>1, <1>3, SMTT(30) DEF SessionsInv, ListeningIsOpen
  <2>6. OpenIsUsed'
    <3>1. u \notin open
      BY <1>3 DEF CanOpen
    <3> QED BY <1>1, <1>3, <2>1, <3>1 DEF SessionsInv, OpenIsUsed
  <2>7. RefsMatchSessions'
    BY <1>1, RefsStay DEF SessionsInv
  <2> QED BY <2>2, <2>21, <2>7, <2>3, <2>4, <2>5, <2>6 DEF SessionsInv
<1> QED BY <1>2, <1>3 DEF LoginCreated

\* The sessions of a user that have a listener are finitely many.
LEMMA ListeningFinite ==
    ASSUME SessionTypes, NEW u
    PROVE  /\ IsFiniteSet(Listening(u)) /\ Cardinality(Listening(u)) \in Nat
           /\ nextId \notin Listening(u)
<1>1. Listening(u) \subseteq DOMAIN sessions
  BY DEF Listening
<1>2. IsFiniteSet(Listening(u))
  BY <1>1, FS_Subset DEF SessionTypes
<1>3. nextId \notin DOMAIN sessions
  BY DEF SessionTypes
<1> QED BY <1>1, <1>2, <1>3, FS_CardinalityType

\* The session is stored and its listener counted.
LEMMA LoginListenStep ==
    ASSUME SessionsInv, NEW t \in Threads, NEW starts \in BOOLEAN, LoginListen(t, starts)
    PROVE  SessionsInv'
<1> DEFINE u == call[t].user
           new == [user |-> u, listens |-> starts]
<1>1. /\ call[t].pc = "listen" /\ u \in Users /\ u \in open /\ lock = {t}
      /\ UNCHANGED <<disk, open, index, raced>> /\ nextId' = nextId + 1 /\ lock' = {} /\ Done(t)
  <2>1. call[t].pc = "listen" /\ u \in Users
    BY DEF LoginListen, SessionsInv, SessionTypes
  <2>2. t \in lock /\ lock \subseteq Threads
    BY <2>1 DEF SessionsInv, LockOK, Calls
  <2>3. u \in open /\ lock = {t}
    BY <2>2, SMTT(30) DEF SessionsInv, LockOK
  <2> QED BY <2>1, <2>3 DEF LoginListen, storeVars
<1>2. sessions' = [i \in DOMAIN sessions \cup {nextId} |-> IF i = nextId THEN new ELSE sessions[i]]
  BY DEF LoginListen
<1>3. /\ nextId \in Nat /\ nextId \notin DOMAIN sessions
      /\ DOMAIN sessions' = DOMAIN sessions \cup {nextId}
      /\ sessions'[nextId] = new
      /\ \A i \in DOMAIN sessions : sessions'[i] = sessions[i]
  BY <1>2 DEF SessionsInv, SessionTypes
<1>4. /\ call' \in [Threads -> CallRecord] /\ call'[t] = Idle
      /\ \A s \in Threads : call'[s].pc # "idle" => call'[s].user \in Users
      /\ \A s \in Threads : s # t => call'[s] = call[s]
  BY <1>1, IdleCall, OneCall DEF SessionsInv, Done
<1>5. new \in SessionRecord /\ new.user = u /\ new.listens = starts
  BY <1>1, SMTT(30) DEF SessionRecord
<1> HIDE DEF new
<1>6. /\ \A v \in DOMAIN listener' : listener'[v] \in ListenerRecord
      /\ DOMAIN listener' = IF starts THEN DOMAIN listener \cup {u} ELSE DOMAIN listener
      /\ \A v \in DOMAIN listener : v # u => listener'[v] = listener[v]
      /\ starts => listener'[u].refs = IF u \in DOMAIN listener THEN listener[u].refs + 1 ELSE 1
      /\ ~starts => u \notin DOMAIN listener
  <2>1. CASE starts /\ u \in DOMAIN listener
    <3>1. listener' = [listener EXCEPT ![u].refs = @ + 1]
      BY <2>1 DEF LoginListen, StartListener
    <3>2. listener[u] \in ListenerRecord
      BY <2>1 DEF SessionsInv, SessionTypes
    <3>3. /\ DOMAIN listener' = DOMAIN listener
          /\ listener'[u] = [listener[u] EXCEPT !.refs = listener[u].refs + 1]
          /\ \A v \in DOMAIN listener : v # u => listener'[v] = listener[v]
      BY <2>1, <3>1
    <3>4. listener'[u] \in ListenerRecord /\ listener'[u].refs = listener[u].refs + 1
      BY <3>2, <3>3, SMTT(30) DEF ListenerRecord
    <3> QED BY <2>1, <3>3, <3>4, Zenon DEF SessionsInv, SessionTypes
  <2>2. CASE starts /\ u \notin DOMAIN listener
    <3> DEFINE l == [refs |-> 1, token |-> nextId, address |-> <<u, index[u]>>, kept |-> TRUE]
    <3>1. listener' = [v \in DOMAIN listener \cup {u} |-> IF v = u THEN l ELSE listener[v]]
      BY <2>2, SMTT(30) DEF LoginListen, StartListener
    <3>2. l \in ListenerRecord /\ l.refs = 1
      <4>1. index[u] \in Nat
        BY <1>1 DEF SessionsInv, SessionTypes
      <4> QED BY <1>1, <1>3, <4>1 DEF ListenerRecord
    <3> HIDE DEF l
    <3>3. /\ DOMAIN listener' = DOMAIN listener \cup {u} /\ listener'[u] = l
          /\ \A v \in DOMAIN listener : v # u => listener'[v] = listener[v]
      BY <3>1, Zenon
    <3>4. \A v \in DOMAIN listener : listener[v] \in ListenerRecord
      BY SMTT(30) DEF SessionsInv, SessionTypes
    <3> QED BY <2>2, <3>2, <3>3, <3>4
  <2>3. CASE ~starts
    BY <2>3 DEF LoginListen, SessionsInv, SessionTypes
  <2> QED BY <2>1, <2>2, <2>3
<1>7. SessionTypes'
  <2>1. IsFiniteSet(DOMAIN sessions')
    BY <1>3, FS_AddElement DEF SessionsInv, SessionTypes
  <2>2. \A i \in DOMAIN sessions : i \in Nat /\ i < nextId /\ sessions[i] \in SessionRecord
    BY DEF SessionsInv, SessionTypes
  <2>3. nextId \in Nat /\ nextId' = nextId + 1
    BY <1>1, <1>3
  <2>4. ASSUME NEW i \in DOMAIN sessions'
        PROVE  i \in Nat /\ i < nextId' /\ sessions'[i] \in SessionRecord
    <3>1. CASE i = nextId
      <4>1. i \in Nat /\ i < nextId'
        BY <2>3, <3>1
      <4> QED BY <1>3, <1>5, <3>1, <4>1
    <3>2. CASE i # nextId
      <4>1. i \in DOMAIN sessions
        BY <1>3, <2>4, <3>2
      <4>2. i \in Nat /\ i < nextId'
        BY <2>2, <2>3, <4>1
      <4> QED BY <1>3, <2>2, <4>1, <4>2
    <3> QED BY <3>1, <3>2
  <2>5. disk' \in [Users -> {"none", "dir", "seed", "db"}] /\ open' \subseteq Users /\ index' \in [Users -> Nat]
    BY <1>1 DEF SessionsInv, SessionTypes
  <2>6. nextId' \in Nat
    BY <2>3
  <2>7. \A i \in DOMAIN sessions' : i \in Nat /\ i < nextId' /\ sessions'[i] \in SessionRecord
    BY <2>4, ZenonT(30)
  <2> QED BY <1>4, <1>6, <2>1, <2>5, <2>6, <2>7, ZenonT(30) DEF SessionTypes
<1>8. CreationOK'
  BY <1>1, <1>4, IdleCall, ZenonT(30) DEF SessionsInv, CreationOK, Creates
<1>9. OpenIsWhole' /\ LockOK'
  <2>1. \A v \in Users : Removing(v)' => Removing(v)
    BY <1>4, IdleCall DEF Removing, Calls
  <2>2. OpenIsWhole'
    BY <1>1, <2>1, SMTT(30) DEF SessionsInv, SessionTypes, OpenIsWhole
  <2>3. Calls("listen")' = {}
    BY <1>1, <1>4, IdleCall DEF SessionsInv, LockOK, Calls
  <2> QED BY <1>1, <2>2, <2>3 DEF LockOK
<1>10. ListeningIsOpen'
  BY <1>1, <1>3, <1>5 DEF SessionsInv, ListeningIsOpen
<1>11. OpenIsUsed'
  <2> SUFFICES ASSUME NEW v \in open
               PROVE  \/ \E i \in DOMAIN sessions' : sessions'[i].user = v
                      \/ \E s \in Threads : call'[s].user = v /\ call'[s].pc \in {"listen", "enter"}
    BY <1>1 DEF OpenIsUsed
  <2>1. CASE v = u
    BY <1>3, <1>5, <2>1, SMTT(30)
  <2>2. CASE v # u
    BY <1>3, <1>4, <2>2, SMTT(30) DEF SessionsInv, OpenIsUsed
  <2> QED BY <2>1, <2>2
<1>12. RefsMatchSessions'
  <2> SUFFICES ASSUME NEW v \in Users
               PROVE  IF v \in DOMAIN listener' THEN listener'[v].refs = Cardinality(Listening(v)')
                                               ELSE Listening(v)' = {}
    BY DEF RefsMatchSessions
  <2>1. Listening(v)' = IF v = u /\ starts THEN Listening(v) \cup {nextId} ELSE Listening(v)
    BY <1>3, <1>5 DEF Listening
  <2>2. /\ IsFiniteSet(Listening(v)) /\ Cardinality(Listening(v)) \in Nat
        /\ nextId \notin Listening(v)
    BY ListeningFinite DEF SessionsInv
  <2>3. Cardinality(Listening(v) \cup {nextId}) = Cardinality(Listening(v)) + 1
    BY <2>2, FS_AddElement, Zenon
  <2>4. IF v \in DOMAIN listener THEN listener[v].refs = Cardinality(Listening(v)) ELSE Listening(v) = {}
    BY DEF SessionsInv, RefsMatchSessions
  <2>5. Listening(v) = {} => Cardinality(Listening(v)) = 0
    BY FS_EmptySet
  <2> QED BY <1>6, <2>1, <2>2, <2>3, <2>4, <2>5
<1> QED BY <1>7, <1>8, <1>9, <1>10, <1>11, <1>12 DEF SessionsInv

\* The last session of a user to log out stops the listener and closes the
\* database, and no other one does.
LEMMA LogoutStep ==
    ASSUME SessionsInv, NEW id \in DOMAIN sessions, Logout(id)
    PROVE  SessionsInv'
<1>0. PICK u \in Users : u = sessions[id].user
  BY SMTT(30) DEF SessionsInv, SessionTypes, SessionRecord
<1>1. /\ sessions[id].listens /\ lock = {}
      /\ StopListener(u) /\ open' = IF u \in DOMAIN listener' THEN open ELSE open \ {u}
      /\ UNCHANGED <<disk, index, call, lock, nextId, raced>>
  BY <1>0, SMTT(30) DEF Logout, Free, SessionsInv, SessionTypes, SessionRecord
<1>2. /\ DOMAIN sessions' = DOMAIN sessions \ {id}
      /\ \A i \in DOMAIN sessions' : sessions'[i] = sessions[i]
  BY DEF Logout, Without
<1>3. \A v \in Users : Listening(v)' = Listening(v) \ {id}
  BY <1>2, SMTT(30) DEF Listening
<1>4. /\ id \in Listening(u) /\ IsFiniteSet(Listening(u)) /\ Cardinality(Listening(u)) \in Nat
      /\ Cardinality(Listening(u) \ {id}) = Cardinality(Listening(u)) - 1
      /\ Cardinality(Listening(u) \ {id}) \in Nat
  <2>1. id \in Listening(u)
    BY <1>0, <1>1 DEF Listening
  <2>2. IsFiniteSet(Listening(u)) /\ Cardinality(Listening(u)) \in Nat
    BY ListeningFinite, SMTT(30) DEF SessionsInv
  <2> QED BY <2>1, <2>2, FS_RemoveElement, FS_CardinalityType, SMTT(30)
<1>5. u \in DOMAIN listener /\ listener[u].refs = Cardinality(Listening(u)) /\ listener[u] \in ListenerRecord
  BY <1>1, <1>4, SMTT(30) DEF SessionsInv, SessionTypes, RefsMatchSessions
<1>6. \A v \in Users : v # u => Listening(v)' = Listening(v)
  BY <1>0, <1>3 DEF Listening
<1>7. \/ /\ listener[u].refs > 1 /\ DOMAIN listener' = DOMAIN listener
         /\ listener'[u] \in ListenerRecord /\ listener'[u].refs = listener[u].refs - 1
         /\ \A v \in DOMAIN listener : v # u => listener'[v] = listener[v]
      \/ /\ ~(listener[u].refs > 1) /\ DOMAIN listener' = DOMAIN listener \ {u}
         /\ \A v \in DOMAIN listener : v # u => listener'[v] = listener[v]
  <2>1. CASE listener[u].refs > 1
    <3>1. listener' = [listener EXCEPT ![u].refs = @ - 1]
      BY <1>1, <1>5, <2>1 DEF StopListener
    <3>2. /\ DOMAIN listener' = DOMAIN listener
          /\ listener'[u] = [listener[u] EXCEPT !.refs = listener[u].refs - 1]
          /\ \A v \in DOMAIN listener : v # u => listener'[v] = listener[v]
      BY <1>5, <3>1
    <3>3. listener'[u] \in ListenerRecord /\ listener'[u].refs = listener[u].refs - 1
      BY <1>5, <2>1, <3>2 DEF ListenerRecord
    <3> QED BY <2>1, <3>2, <3>3
  <2>2. CASE ~(listener[u].refs > 1)
    <3>1. listener' = Without(listener, u)
      BY <1>1, <1>5, <2>2, SMTT(30) DEF StopListener
    <3> QED BY <2>2, <3>1 DEF Without
  <2> QED BY <2>1, <2>2
<1>8. SessionTypes'
  <2>1. IsFiniteSet(DOMAIN sessions')
    BY <1>2, FS_RemoveElement DEF SessionsInv, SessionTypes
  <2>2. \A v \in DOMAIN listener' : listener'[v] \in ListenerRecord
    BY <1>7, Zenon DEF SessionsInv, SessionTypes
  <2> QED BY <1>1, <1>2, <2>1, <2>2, SMTT(30) DEF SessionsInv, SessionTypes
<1>9. CreationOK' /\ OpenIsWhole' /\ LockOK'
  BY <1>1, ZenonT(30) DEF SessionsInv, CreationOK, Creates, OpenIsWhole, LockOK, Removing, Calls
<1>10. \/ u \in DOMAIN listener' /\ open' = open /\ Listening(u)' # {}
       \/ u \notin DOMAIN listener' /\ open' = open \ {u} /\ Listening(u)' = {}
  <2>1. CASE listener[u].refs > 1
    <3>1. Cardinality(Listening(u) \ {id}) # 0
      BY <1>4, <1>5, <2>1
    <3>2. Listening(u) \ {id} # {}
      BY <3>1, FS_EmptySet
    <3>3. DOMAIN listener' = DOMAIN listener
      BY <1>7, <2>1, SMTT(30)
    <3> QED BY <1>1, <1>3, <1>5, <3>2, <3>3
  <2>2. CASE ~(listener[u].refs > 1)
    <3>1. Cardinality(Listening(u) \ {id}) = 0
      BY <1>4, <1>5, <2>2
    <3>2. IsFiniteSet(Listening(u) \ {id})
      BY <1>4, FS_RemoveElement
    <3>3. Listening(u) \ {id} = {}
      BY <3>1, <3>2, FS_EmptySet, SMTT(30)
    <3> QED BY <1>1, <1>3, <1>7, <2>2, <3>3, SMTT(30)
  <2> QED BY <2>1, <2>2, Zenon
<1>11. ListeningIsOpen'
  BY <1>0, <1>2, <1>10 DEF SessionsInv, ListeningIsOpen, Listening
<1>12. OpenIsUsed'
  <2> SUFFICES ASSUME NEW v \in open'
               PROVE  \/ \E i \in DOMAIN sessions' : sessions'[i].user = v
                      \/ \E s \in Threads : call'[s].user = v /\ call'[s].pc \in {"listen", "enter"}
    BY DEF OpenIsUsed
  <2>1. CASE v = u
    BY <1>10, <2>1 DEF Listening
  <2>2. CASE v # u
    <3>1. \/ \E i \in DOMAIN sessions : sessions[i].user = v
          \/ \E s \in Threads : call[s].user = v /\ call[s].pc \in {"listen", "enter"}
      BY <1>10, <2>2, Zenon DEF SessionsInv, OpenIsUsed
    <3>2. ASSUME NEW i \in DOMAIN sessions, sessions[i].user = v
          PROVE  \E j \in DOMAIN sessions' : sessions'[j].user = v
      <4>1. i # id
        BY <1>0, <2>2, <3>2
      <4> QED BY <1>2, <3>2, <4>1
    <3>3. call' = call
      BY <1>1
    <3> QED BY <3>1, <3>2, <3>3, Zenon
  <2> QED BY <2>1, <2>2
<1>13. RefsMatchSessions'
  <2> SUFFICES ASSUME NEW v \in Users
               PROVE  IF v \in DOMAIN listener' THEN listener'[v].refs = Cardinality(Listening(v)')
                                               ELSE Listening(v)' = {}
    BY DEF RefsMatchSessions
  <2>1. CASE v = u
    BY <1>1, <1>3, <1>4, <1>5, <1>7, <1>10, <2>1, ZenonT(30)
  <2>2. CASE v # u
    BY <1>6, <1>7, <2>2 DEF SessionsInv, RefsMatchSessions
  <2> QED BY <2>1, <2>2
<1> QED BY <1>8, <1>9, <1>11, <1>12, <1>13 DEF SessionsInv

-----------------------------------------------------------------------------
(* Deleting, new addresses, restarts *)

LEMMA DeleteSteps ==
    ASSUME SessionsInv, NEW t \in Threads,
           (\E u \in Users : DeleteWallet(t, u)) \/ DeleteCheck(t)
    PROVE  SessionsInv'
<1>1. index' \in [Users -> Nat] /\ UNCHANGED <<disk, open, sessions, listener, lock, nextId, raced>>
  BY DEF SessionsInv, SessionTypes, DeleteWallet, DeleteCheck, storeVars
<1>2. ASSUME NEW u \in Users, DeleteWallet(t, u) PROVE SessionsInv'
  <2> DEFINE x == [pc |-> "check", user |-> u, id |-> 0]
  <2>1. x \in CallRecord /\ x.pc = "check" /\ x.user = u
    BY DEF CallRecord
  <2>2. call' = [call EXCEPT ![t] = x] /\ call[t].pc = "idle"
    BY <1>2, IdleCall DEF DeleteWallet
  <2> HIDE DEF x
  <2> QED BY <1>1, <2>1, <2>2, PlainCall, Zenon DEF Creates
<1>3. CASE DeleteCheck(t)
  <2>1. call[t].pc = "check"
    BY <1>3 DEF DeleteCheck
  <2>2. CASE call[t].user \in open
    BY <1>1, <1>3, <2>1, <2>2, IdleCall, PlainCall DEF DeleteCheck, Done, Creates
  <2>3. CASE call[t].user \notin open
    <3>1. PICK x \in CallRecord : /\ call' = [call EXCEPT ![t] = x]
                                 /\ x.pc = "remove" /\ x.user = call[t].user /\ x.user \in Users
      BY <1>3, <2>1, <2>3, NextCall DEF SessionsInv, DeleteCheck
    <3> QED BY <1>1, <2>1, <2>3, <3>1, PlainCall, ZenonT(30) DEF Creates
  <2> QED BY <2>2, <2>3
<1> QED BY <1>2, <1>3

\* A wallet that is open when its files go was opened after the check.
LEMMA DeleteRemoveStep ==
    ASSUME SessionsInv, NEW t \in Threads, DeleteRemove(t)
    PROVE  SessionsInv'
<1> DEFINE u == call[t].user
<1>1. /\ call[t].pc = "remove" /\ u \in Users /\ disk' = [disk EXCEPT ![u] = "none"] /\ Done(t)
      /\ UNCHANGED <<open, sessions, listener, index, lock, nextId, raced>>
  BY DEF DeleteRemove, SessionsInv, SessionTypes
<1>2. call'[t] = Idle /\ \A s \in Threads : s # t => call'[s] = call[s]
  BY <1>1, IdleCall, OneCall DEF SessionsInv, Done
<1>3. /\ disk' \in [Users -> {"none", "dir", "seed", "db"}] /\ disk'[u] = "none"
      /\ \A v \in Users : v # u => disk'[v] = disk[v]
      /\ index' \in [Users -> Nat]
  BY <1>1, SMTT(30) DEF SessionsInv, SessionTypes
<1>4. CreationOK'
  <2>1. \A s \in Threads : call'[s].pc # "idle" => s # t /\ call'[s] = call[s] /\ call[s].user \in Users
    BY <1>2, IdleCall, ZenonT(30) DEF SessionsInv, SessionTypes
  <2>2. \A v \in Users : disk'[v] \in {disk[v], "none"}
    BY <1>3
  <2> QED BY <2>1, <2>2, SMTT(30) DEF SessionsInv, CreationOK, Creates
<1>5. OpenIsWhole'
  <2>1. Removing(u)
    BY <1>1, Zenon DEF Removing, Calls
  <2>2. \A v \in Users : Removing(v)' => Removing(v)
    BY <1>2, IdleCall DEF Removing, Calls
  <2> QED BY <1>1, <1>3, <2>1, <2>2 DEF SessionsInv, SessionTypes, OpenIsWhole
<1> QED BY <1>1, <1>3, <1>4, <1>5, IdleCall, QuietCall DEF Done

LEMMA NewAddressStep ==
    ASSUME SessionsInv, NEW t \in Threads, NEW id \in DOMAIN sessions, NewAddress(t, id)
    PROVE  SessionsInv'
<1> DEFINE u == sessions[id].user
           x == [pc |-> "increase", user |-> u, id |-> id]
<1>1. u \in Users /\ sessions[id].listens /\ id \in Nat
  BY DEF NewAddress, SessionsInv, SessionTypes, SessionRecord
<1>2. x \in CallRecord /\ x.pc = "increase" /\ x.user = u
  BY <1>1, Zenon DEF CallRecord
<1>3. /\ call' = [call EXCEPT ![t] = x] /\ call[t].pc = "idle"
      /\ listener' = [listener EXCEPT ![u].kept = FALSE]
      /\ UNCHANGED <<disk, open, sessions, index, lock, nextId, raced>>
  BY IdleCall, ZenonT(30) DEF NewAddress, storeVars
<1> HIDE DEF x
<1>4. u \in DOMAIN listener /\ listener[u] \in ListenerRecord
  <2>1. id \in Listening(u)
    BY <1>1 DEF Listening
  <2> QED BY <1>1, <2>1, Zenon DEF SessionsInv, SessionTypes, RefsMatchSessions
<1>5. /\ DOMAIN listener' = DOMAIN listener
      /\ \A v \in DOMAIN listener : listener'[v] \in ListenerRecord /\ listener'[v].refs = listener[v].refs
  <2>1. listener'[u] = [listener[u] EXCEPT !.kept = FALSE]
    BY <1>3, <1>4
  <2>2. listener'[u] \in ListenerRecord /\ listener'[u].refs = listener[u].refs
    BY <1>4, <2>1, Zenon DEF ListenerRecord
  <2> QED BY <1>3, <2>2, Zenon DEF SessionsInv, SessionTypes
<1>6. /\ call' \in [Threads -> CallRecord] /\ call'[t] = x
      /\ \A s \in Threads : call'[s].pc # "idle" => call'[s].user \in Users
      /\ \A s \in Threads : s # t => call'[s] = call[s]
  BY <1>1, <1>2, <1>3, OneCall, Zenon DEF SessionsInv
<1>7. SessionTypes' /\ CreationOK'
  BY <1>2, <1>3, <1>5, <1>6, ZenonT(30) DEF SessionsInv, SessionTypes, CreationOK, Creates
<1>8. OpenIsWhole' /\ LockOK'
  BY <1>2, <1>3, <1>6 DEF SessionsInv, OpenIsWhole, LockOK, Removing, Calls
<1>9. ListeningIsOpen' /\ OpenIsUsed'
  BY <1>2, <1>3, <1>6 DEF SessionsInv, ListeningIsOpen, OpenIsUsed
<1>10. RefsMatchSessions'
  <2>1. \A v \in Users : Listening(v)' = Listening(v)
    BY <1>3 DEF Listening
  <2> QED BY <1>5, <2>1 DEF SessionsInv, RefsMatchSessions
<1> QED BY <1>7, <1>8, <1>9, <1>10 DEF SessionsInv

LEMMA AddressSteps ==
    ASSUME SessionsInv, NEW t \in Threads, IncreaseIndex(t) \/ PublishAddress(t)
    PROVE  SessionsInv'
<1>1. /\ call[t].pc \in {"increase", "publish"} /\ call[t].user \in Users
      /\ UNCHANGED <<disk, open, sessions, listener, lock, nextId, raced>>
  BY DEF IncreaseIndex, PublishAddress, storeVars, SessionsInv, SessionTypes
<1>2. index' \in [Users -> Nat]
  BY <1>1 DEF IncreaseIndex, PublishAddress, SessionsInv, SessionTypes
<1>3. CASE Done(t)
  BY <1>1, <1>2, <1>3, IdleCall, PlainCall DEF Done, Creates
<1>4. CASE Go(t, "publish")
  <2>1. PICK x \in CallRecord : /\ call' = [call EXCEPT ![t] = x]
                               /\ x.pc = "publish" /\ x.user \in Users
    BY <1>1, <1>4, NextCall DEF SessionsInv
  <2> QED BY <1>1, <1>2, <2>1, PlainCall, Zenon DEF Creates
<1> QED BY <1>3, <1>4, Zenon DEF IncreaseIndex, PublishAddress

LEMMA RestartStep ==
    ASSUME SessionsInv, Restart
    PROVE  SessionsInv'
<1>1. /\ disk' \in [Users -> {"none", "dir", "seed", "db"}] /\ index' \in [Users -> Nat] /\ nextId' \in Nat
      /\ open' = {} /\ sessions' = <<>> /\ listener' = <<>> /\ lock' = {}
      /\ call' = [t \in Threads |-> Idle]
  BY DEF Restart, SessionsInv, SessionTypes
<1>2. DOMAIN sessions' = {} /\ DOMAIN listener' = {}
  BY <1>1
<1>3. SessionTypes'
  BY <1>1, <1>2, IdleCall, FS_EmptySet DEF SessionTypes
<1>4. CreationOK' /\ OpenIsWhole' /\ LockOK'
  BY <1>1, IdleCall DEF CreationOK, Creates, OpenIsWhole, LockOK, Calls
<1>5. ListeningIsOpen' /\ OpenIsUsed' /\ RefsMatchSessions'
  BY <1>1, <1>2, Zenon DEF ListeningIsOpen, OpenIsUsed, RefsMatchSessions, Listening
<1> QED BY <1>3, <1>4, <1>5 DEF SessionsInv

-----------------------------------------------------------------------------
(* The theorems *)

LEMMA SessionsInitOK == SessionsInit => SessionsInv
<1> SUFFICES ASSUME SessionsInit PROVE SessionsInv
  OBVIOUS
<1>1. DOMAIN sessions = {} /\ DOMAIN listener = {}
  BY DEF SessionsInit
<1>2. SessionTypes
  BY <1>1, IdleCall, FS_EmptySet DEF SessionsInit, SessionTypes
<1>3. CreationOK /\ OpenIsWhole /\ LockOK
  BY IdleCall DEF SessionsInit, CreationOK, Creates, OpenIsWhole, LockOK, Calls
<1>4. ListeningIsOpen /\ OpenIsUsed /\ RefsMatchSessions
  BY <1>1, Zenon DEF SessionsInit, ListeningIsOpen, OpenIsUsed, RefsMatchSessions, Listening
<1> QED BY <1>2, <1>3, <1>4 DEF SessionsInv

LEMMA SessionsNextOK == SessionsInv /\ [SessionsNext]_sVars => SessionsInv'
<1> SUFFICES ASSUME SessionsInv, [SessionsNext]_sVars PROVE SessionsInv'
  OBVIOUS
<1>1. CASE UNCHANGED sVars
  BY <1>1, TorStep DEF sVars, storeVars, sessionVars
<1>2. CASE AddServices \/ HeartbeatFails \/ TorCreate \/ TorDies
  BY <1>2, TorStep, Zenon DEF AddServices, HeartbeatFails, TorCreate, TorDies, storeVars, sessionVars
<1>3. ASSUME NEW t \in Threads, CallSteps(t) PROVE SessionsInv'
  BY <1>3, CreateDirectoryStep, WriteSeedStep, CreateDBStep, LoginCreatedStep, LoginListenStep,
     DeleteSteps, DeleteRemoveStep, AddressSteps DEF CallSteps
<1>4. ASSUME NEW t \in Threads, NEW u \in Users,
             CreateWallet(t, u) \/ LoginOpen(t, u) \/ DeleteWallet(t, u)
      PROVE  SessionsInv'
  BY <1>4, CreateWalletStep, LoginOpenStep, DeleteSteps
<1>5. ASSUME NEW t \in Threads, NEW id \in DOMAIN sessions, NewAddress(t, id) \/ RetryTor(t, id)
      PROVE  SessionsInv'
  BY <1>5, NewAddressStep, TorStep DEF RetryTor, storeVars, sessionVars
<1>6. ASSUME NEW id \in DOMAIN sessions, Logout(id) PROVE SessionsInv'
  BY <1>6, LogoutStep
<1>7. CASE Restart
  BY <1>7, RestartStep
<1> QED BY <1>1, <1>2, <1>3, <1>4, <1>5, <1>6, <1>7 DEF SessionsNext

LEMMA SessionsInvariant == SessionsSpec => []SessionsInv
<1> QED BY SessionsInitOK, SessionsNextOK, PTL DEF SessionsSpec

\* For any number of users and calls, and through restarts: the references that
\* ForeignController counts are the sessions that share the listener, so that
\* the last logout stops it and no earlier one does.
THEOREM ListenerIsShared == SessionsSpec => []RefsMatchSessions
<1>1. SessionsInv => RefsMatchSessions
  BY SMTT(30) DEF SessionsInv
<1> QED BY <1>1, SessionsInvariant, PTL

\* Deleting a wallet never removes the files of one that is logged in, unless it
\* was logged in between SqliteStore's check and the removal; and a database is
\* open only for a session or for a call that is about to store one.
THEOREM DeletesOnlyClosed == SessionsSpec => []InUseIsOnDisk
<1>1. SessionsInv => InUseIsOnDisk
  BY DEF SessionsInv, InUseIsOnDisk, OpenIsWhole, ListeningIsOpen, OpenIsUsed
<1> QED BY <1>1, SessionsInvariant, PTL
=============================================================================
