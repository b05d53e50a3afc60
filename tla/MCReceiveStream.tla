--------------------------- MODULE MCReceiveStream ---------------------------
\* A stream of one subvolume, one of two sent together (END once, at the
\* end) with a command the receiver does not know, one cut short, and those in
\* which one command has something wrong with its attributes.
EXTENDS ReceiveStream
Make(k, v, a) == [kind |-> k, vol |-> v, attrs |-> a]
Subvol(v)     == Make("subvol", v, "whole")
Op(v)         == Make("op", v, "whole")
Unknown(v)    == Make("unknown", v, "whole")
End           == Make("end", 0, "whole")

Two(a, b)  == <<Make("subvol", 1, a), Op(1), Make("subvol", 2, b), Unknown(2), Op(2), End>>
MCStreams == {<<Subvol(1), Op(1), Op(1), End>>, <<Subvol(1), Op(1)>>}
             \cup {Two("whole", a) : a \in Attributes} \cup {Two(a, "whole") : a \in Attributes}
             \cup {<<Subvol(1), Make("op", 1, a), Op(1), End>> : a \in {"no path", "bad number"}}
=============================================================================
