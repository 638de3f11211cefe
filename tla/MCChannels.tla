------------------------------ MODULE MCChannels ------------------------------
EXTENDS Channels
CONSTANT c1
Ops == 1..2
=============================================================================
