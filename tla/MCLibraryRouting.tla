--------------------------- MODULE MCLibraryRouting ---------------------------
EXTENDS LibraryRouting
=============================================================================
