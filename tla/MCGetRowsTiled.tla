----------------------------- MODULE MCGetRowsTiled ----------------------------
EXTENDS GetRowsTiled

\* The only row of a partly filled column tile, and an id that is not a row:
\* negative, so a huge uint32_t.
TwoIds == {2, -1}
================================================================================
