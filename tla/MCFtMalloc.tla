----------------------------- MODULE MCFtMalloc -----------------------------
EXTENDS FtMalloc
=============================================================================
