------------------------ MODULE MCStreamingResponse ------------------------
EXTENDS StreamingResponse

\* No transformer, one that lets chunks through, one that looks for a pattern.
AtMostOne == {<<>>, <<"pass">>, <<"pattern">>}
=============================================================================
