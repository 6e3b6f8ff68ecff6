--------------------------- MODULE MCTfbHandlers ---------------------------
EXTENDS TfbHandlers

\* No number, one in range, and one above the maximum.
MCParsed == {-1, 1, 3}
=============================================================================
