------------------------- MODULE MCSoundFileBuffered -------------------------
EXTENDS SoundFileBuffered
===============================================================================
