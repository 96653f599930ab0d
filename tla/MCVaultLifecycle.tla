--------------------------- MODULE MCVaultLifecycle ---------------------------
(* VaultLifecycle with one material store besides the identity.            *)
EXTENDS VaultLifecycle

SmallStore == <<"transit">>
=============================================================================
