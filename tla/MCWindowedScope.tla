--------------------------- MODULE MCWindowedScope ---------------------------
EXTENDS WindowedScope

MCDirections == <<"desc">>
=============================================================================
