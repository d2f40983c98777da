--------------------------- MODULE MCKeywordSerp ---------------------------
\* Small instances of KeywordSerpCollection for TLC.
EXTENDS KeywordSerpCollection

EveryMode == AllModes
=============================================================================
