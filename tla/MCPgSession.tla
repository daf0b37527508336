----------------------------- MODULE MCPgSession -----------------------------
\* PgSession: two sessions; clients that write, or that attach and create.
EXTENDS PgSession

\* The rows of DuckDB's ATTACH, schema before snapshot.
AttachRows == <<"schema", "snapshot">>

Writers ==
    [scripts |-> {<<"file", "insertStats">>, <<"schema", "snapshot">>,
                  <<"file", "drop">>, <<"insertStats">>},
     attach |-> <<>>, txns |-> 2]

Attachers ==
    [scripts |-> {<<"table", "column">>, <<"setStats">>, <<"drop">>},
     attach |-> AttachRows, txns |-> 1]

WritersOrAttachers == {Writers, Attachers}

OnlyAttachers == {Attachers}
=============================================================================
