--------------------------- MODULE MCCatalogQuery ---------------------------
\* CatalogQuery: two tables, two data files, one batch of the sink.
EXTENDS CatalogQuery

OneBatch == <<1>>
=============================================================================
