------------------------------- MODULE MCTimer ------------------------------
EXTENDS Timer

\* 1: a display card or the RTC's second; 2: the floppy or an IDE controller;
\* 3: a channel of the PIT.
Table == 1..4
Video == {1}
Floppy == {2, 4}
Pit == {3, 4}
Nobody == {}
VideoRings == {<<1, 2>>}
NoRings == {}
=============================================================================
