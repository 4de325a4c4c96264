--------------------------- MODULE MCConversation ---------------------------
EXTENDS Conversation

CONSTANTS ch1, ch2, c1, c2

Channels2 == {ch1, ch2}
OneCaller == {c1}
TwoCallers == {c1, c2}
=============================================================================
