-------------------------- MODULE MCDirectoryMirror --------------------------
\* A file and a link, three snapshots: one sent in full, one that changes it,
\* and one to go on from when an interruption or retention came between.
EXTENDS DirectoryMirror

\* A clone or a broken link is all that its snapshot holds.
RefusedAlone == {c \in Contents : \A p, q \in Paths :
                    p # q /\ c[p] \in Dangling \cup Clones => c[q] = NoFile}
AllStates == Contents
=============================================================================
