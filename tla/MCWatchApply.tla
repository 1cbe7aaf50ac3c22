---------------------------- MODULE MCWatchApply ----------------------------
(* CatalogWatchApply on a store of two directory sessions or one of each.  *)
EXTENDS WatchApply
=============================================================================
