--------------------------- MODULE ListHandlerMC ---------------------------
EXTENDS ListHandler

CONSTANTS a, b, c, d

\* No item, two, three, and four: more than two batches of a limit of two.
MCSnapshots == {<<>>, <<a, b>>, <<a, b, c>>, <<a, b, c, d>>}

=============================================================================
