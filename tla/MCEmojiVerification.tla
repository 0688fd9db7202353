------------------------- MODULE MCEmojiVerification -------------------------
EXTENDS EmojiVerification

CONSTANTS v1, v2, f1
=============================================================================
