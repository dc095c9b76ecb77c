---------------------------- MODULE MCDocumentFetch ----------------------------
EXTENDS DocumentFetch
=============================================================================
