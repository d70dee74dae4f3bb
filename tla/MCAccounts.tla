----------------------------- MODULE MCAccounts -----------------------------
(***************************************************************************)
(* The wallets of MCWallet; the sessions of one user, who logs in through  *)
(* two threads of the server while tor dies once and the program restarts  *)
(* once; and the database of a wallet that an older release may have       *)
(* written.  Each moves while the others do nothing.                       *)
(***************************************************************************)
EXTENDS MCWallet, Sessions, WalletSchema

AInit ==
    \/ WInit /\ SessionsInit /\ SchemaInit /\ version = LATEST_SCHEMA_VERSION
    \/ part = "sessions" /\ WalletInit /\ SessionsInit /\ SchemaInit /\ version = LATEST_SCHEMA_VERSION
    \/ part = "schema" /\ WalletInit /\ SessionsInit /\ SchemaInit
ANext ==
    \/ WNext /\ UNCHANGED <<sVars, schemaVars>>
    \/ part = "sessions" /\ SessionsNext /\ UNCHANGED <<part, walletVars, schemaVars>>
    \/ part = "schema" /\ SchemaNext /\ UNCHANGED <<part, walletVars, sVars>>
ASpec == AInit /\ [][ANext]_<<part, walletVars, sVars, schemaVars>> /\ SessionsFair
=============================================================================
