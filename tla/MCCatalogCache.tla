--------------------------- MODULE MCCatalogCache ---------------------------
(* The catalog of one owner, its poll thread and one more patching thread. *)
EXTENDS CatalogCache
=============================================================================
