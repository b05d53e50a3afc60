-------------------------- MODULE MCSubvolumeMirror --------------------------
\* One file, no links, three snapshots: one, one made from it, and one to
\* resume when retention has taken the one before it.
EXTENDS SubvolumeMirror
=============================================================================
