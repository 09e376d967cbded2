------------------------------ MODULE MCServer ------------------------------
EXTENDS Server

\* one thing wrong at each place that looks, and two where the order shows
MCDefects ==
    {{}, {"token"}, {"operation", "body"}}
=============================================================================
