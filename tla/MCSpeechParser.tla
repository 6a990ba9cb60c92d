--------------------------- MODULE MCSpeechParser ---------------------------
EXTENDS SpeechParser
=============================================================================
