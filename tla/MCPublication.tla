--------------------------- MODULE MCPublication ---------------------------
EXTENDS PublicationInvariant
SecondRetried == <<0, 1, 0, 0>>  \* retryCount of the four steps
OneRetried == <<1>>
ReaderThird == {3}               \* step 3 only reads the workspace
AllWritable == {}
=============================================================================
