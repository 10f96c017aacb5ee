--------------------------- MODULE MCStorerProbe ---------------------------
EXTENDS StorerProbe, TLC

\* A far chunk between two near ones; it is too dear for the threshold the
\* storer announces and not for the default.
Prices == <<1, 3, 1>>
=============================================================================
