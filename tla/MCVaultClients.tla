--------------------------- MODULE MCVaultClients ---------------------------
(* VaultClients for TLC: the paths of the vault, interchangeable processes,  *)
(* interchangeable contents of a memory directory.                           *)
EXTENDS VaultClients, TLC

VaultPaths ==
  {UserPath} \cup {<<"note", s>> : s \in Sessions}
    \cup ({"file", "manifest"} \X Directories)

VaultSymmetry == Permutations(Clients) \cup Permutations(Contents)
=============================================================================
