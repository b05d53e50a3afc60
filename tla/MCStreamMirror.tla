--------------------------- MODULE MCStreamMirror ---------------------------
\* All three kinds; a stream longer than the pipe, so that a sender can block
\* on a reader that gave up; a parent and its child.
EXTENDS StreamMirror
=============================================================================
