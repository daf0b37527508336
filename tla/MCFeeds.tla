------------------------------ MODULE MCFeeds ------------------------------
\* Feeds: a stream of batches with two consumers, and a tailer.
EXTENDS Feeds

\* The stream of the run that passes: batches of one length.
EvenLens == <<2, 2>>

\* measure_ingest_throughput with 5 records and a batch size of 2.
UnevenLens == <<2, 2, 1>>
=============================================================================
