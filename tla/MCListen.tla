------------------------------- MODULE MCListen -------------------------------
EXTENDS Listen

MCContents == {"first", "second"}
=============================================================================
