------------------------ MODULE MCChannelListener --------------------------
EXTENDS ChannelListener

CONSTANTS c1, c2, p1, p2, p3

Chans2 == {c1, c2}
Props3 == {p1, p2, p3}
====
