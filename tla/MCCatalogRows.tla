--------------------------- MODULE MCCatalogRows ---------------------------
\* CatalogRows on small catalogs, whose clients name live rows or any rows.
EXTENDS CatalogRows

LiveOrAny == {{}, {"stale", "replace"}}
=============================================================================
