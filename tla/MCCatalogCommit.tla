--------------------------- MODULE MCCatalogCommit ---------------------------
\* CatalogCommit for TLC: two processes and a few opens, see MCCatalogCommit.cfg.
EXTENDS CatalogCommit
=============================================================================
