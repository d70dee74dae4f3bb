---------------------------- MODULE WalletSchema ----------------------------
(***************************************************************************)
(* The tables of a wallet database and how SqliteStore::OpenWallet brings  *)
(* an older database to the current schema.  A table is its set of columns;*)
(* of the rows only the slates' are kept.  A database written by an earlier*)
(* release has the tables that release created.                            *)
(***************************************************************************)
EXTENDS Naturals, FiniteSets

CONSTANTS
    Slates,     \* slates whose transactions are stored
    MaxOpens    \* bound on openings

VARIABLES
    version,    \* VersionTable::GetCurrentVersion: 0 without the table
    tables,     \* table -> columns
    slateRows,  \* slate -> whether its armored slatepack is stored
    usable,     \* the database is open
    saved,      \* slates that were stored
    opens

schemaVars == <<version, tables, slateRows, usable, saved, opens>>

LATEST_SCHEMA_VERSION == 4

OutputColumns == {"id", "commitment", "status", "transaction_id", "encrypted"}
MetadataColumns == {"id", "next_tx_id", "refresh_block_height", "restore_leaf_index"}
ContextColumns == {"slate_id", "iv", "enc_context"}
SlateColumns == {"slate_id", "stage", "iv", "slate", "armored_slatepack"}
AccountColumns == {"parent_path", "account_name", "next_child_index", "current_address_index"}
TransactionColumns == {"id", "slate_id", "encrypted"}

\* The tables of a wallet, of which the migrations change these four.
Tables(outputs, contexts, slate, accounts) ==
    [outputs |-> outputs, transactions |-> TransactionColumns, metadata |-> MetadataColumns,
     slate_contexts |-> contexts, slate |-> slate, accounts |-> accounts]

\* The tables CreateWalletDB makes.
Created == Tables(OutputColumns, ContextColumns, SlateColumns, AccountColumns)

\* The accounts table before the address index was added.
OldAccounts == AccountColumns \ {"current_address_index"}

\* The tables of a database of each version, as the migrations take them.
TablesOf(v) ==
    CASE v = 0 -> Tables({"id", "status", "encrypted"}, {"slate_id", "enc_context"}, {}, OldAccounts)
      [] v = 2 -> Tables(OutputColumns, ContextColumns, SlateColumns \ {"armored_slatepack"}, OldAccounts)
      [] v = 3 -> Tables(OutputColumns, ContextColumns, SlateColumns, OldAccounts)
      [] v = 4 -> Created

\* VersionTable::UpdateSchema; CreateTable writes version 2.
UpdatedVersion(v) == IF v = 0 THEN 2 ELSE LATEST_SCHEMA_VERSION

\* OutputsTable::UpdateSchema copies the outputs to a table with the columns
\* of the current schema.
UpdatedOutputs(v, columns) == IF v >= 1 THEN columns ELSE OutputColumns

\* SlateContextTable::UpdateSchema drops the contexts of an older schema.
UpdatedContexts(v, columns) == IF v < 2 THEN ContextColumns ELSE columns

\* SlateTable::UpdateSchema copies every slate without its slatepack.
UpdatedSlates(v, columns) == IF v < 3 THEN SlateColumns ELSE columns

UpdatedSlateRows(v, rows) == IF v < 2 THEN <<>> ELSE IF v < 3 THEN [s \in DOMAIN rows |-> FALSE] ELSE rows

\* The column is only added to the latest but one version.
UpdatedAccountsOnce(v, columns) == IF v = 3 THEN columns \cup {"current_address_index"} ELSE columns

\* AccountsTable::UpdateSchema; CreateTable does nothing when the table exists,
\* and adding a column that exists fails and is ignored.
UpdatedAccounts(v, columns) ==
    CASE v < 2 /\ columns = {} -> AccountColumns
      [] v \in {2, 3} -> columns \cup {"current_address_index"}
      [] OTHER -> columns

\* SqliteStore::OpenWallet of a closed wallet; the update is one transaction.
OpenWallet ==
    /\ ~usable
    /\ opens < MaxOpens
    /\ opens' = opens + 1
    /\ usable' = TRUE
    /\ IF version < LATEST_SCHEMA_VERSION
       THEN /\ version' = UpdatedVersion(version)
            /\ tables' = Tables(UpdatedOutputs(version, tables.outputs),
                                UpdatedContexts(version, tables.slate_contexts),
                                UpdatedSlates(version, tables.slate),
                                UpdatedAccounts(version, tables.accounts))
            /\ slateRows' = UpdatedSlateRows(version, slateRows)
       ELSE UNCHANGED <<version, tables, slateRows>>
    /\ UNCHANGED saved

\* CloseWallet, or the program ends.
CloseWallet ==
    /\ usable
    /\ usable' = FALSE
    /\ UNCHANGED <<version, tables, slateRows, saved, opens>>

\* SlateTable::SaveSlate of a slate with its armored slatepack.
SaveSlate(s) ==
    /\ usable
    /\ s \notin DOMAIN slateRows
    /\ slateRows' = [t \in DOMAIN slateRows \cup {s} |-> IF t = s THEN TRUE ELSE slateRows[t]]
    /\ saved' = saved \cup {s}
    /\ UNCHANGED <<version, tables, usable, opens>>

\* A database a release before the current one left behind, or a new one: its
\* tables are current and its version is the 2 of VersionTable::CreateTable.
SchemaInit ==
    /\ \/ version = 2 /\ tables = Created /\ usable = TRUE
       \/ version \in {0, 2, 3, 4} /\ tables = TablesOf(version) /\ usable = FALSE
    /\ slateRows = <<>>
    /\ saved = {}
    /\ opens = 0

SchemaNext == OpenWallet \/ CloseWallet \/ \E s \in Slates : SaveSlate(s)

SchemaSpec == SchemaInit /\ [][SchemaNext]_schemaVars

-----------------------------------------------------------------------------
\* Whatever release wrote the database, after two openings its schema is the
\* one CreateWalletDB makes, and the version says so.  No migration loses a
\* slate that was stored, although it loses the slatepacks of the ones stored
\* before the version said 3.
SchemaConverges ==
    /\ usable /\ opens >= 2 => version = LATEST_SCHEMA_VERSION /\ tables = Created
    /\ saved \subseteq DOMAIN slateRows
=============================================================================
