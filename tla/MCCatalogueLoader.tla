------------------------- MODULE MCCatalogueLoader -------------------------
(* Small instances of CatalogueLoader for TLC.                             *)
EXTENDS CatalogueLoader
=============================================================================
