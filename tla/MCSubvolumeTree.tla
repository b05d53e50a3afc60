-------------------------- MODULE MCSubvolumeTree --------------------------
EXTENDS SubvolumeTree

At(in, path) == [in |-> in, path |-> path]
Unused == [state |-> "free", origin |-> 0, dir |-> At(1, <<>>), name |-> NoName]
Is(origin, dir, name) == [state |-> "linked", origin |-> origin, dir |-> dir, name |-> name]
Files(s) == [i \in Ids |-> IF i <= Len(s) THEN s[i] ELSE Unused]
TopRoot == Is(0, At(1, <<>>), NoName)

(* The whole filesystem is mounted, with the subvolume in a directory; the *)
(* name of the snapshot directory ends in that of a directory of the top.  *)
Whole == [fs |-> Files(<<TopRoot, Is(0, At(1, <<"data">>), "vol"), Is(2, SnapDir, "s")>>),
          dirs |-> {SnapDir, At(1, <<"naps">>), At(1, <<"data">>)},
          mount |-> 1, directory |-> <<"mnt", "data", "vol", "snaps">>]

(* The subvolume and a snapshot of it were there before the subvolume that *)
(* is mounted, into which they were moved.                                 *)
Host == [fs |-> Files(<<TopRoot, Is(0, At(4, <<>>), "vol"), Is(2, SnapDir, "s"),
                        Is(0, At(1, <<>>), "host")>>),
         dirs |-> {SnapDir, At(1, <<>>), At(4, <<>>)},
         mount |-> 4, directory |-> <<"mnt", "vol", "snaps">>]

(* Two subvolumes beside the one looked up, one in the other. *)
Nested == [fs |-> Files(<<TopRoot, Is(0, At(1, <<>>), "vol"), Is(0, At(4, <<>>), "a"),
                          Is(0, At(1, <<>>), "b")>>),
           dirs |-> {At(1, <<>>), At(3, <<>>), At(4, <<>>)},
           mount |-> 1, directory |-> <<"mnt", "vol", "snaps">>]

(* A snapshot has been moved into another subvolume, which may be given   *)
(* the name that the subvolume looked up has.                             *)
Apart == [fs |-> Files(<<TopRoot, Is(0, At(1, <<>>), "vol"), Is(2, At(4, <<"snaps">>), "s"),
                         Is(0, At(1, <<>>), "b")>>),
          dirs |-> {At(1, <<>>), At(1, <<"old">>), At(4, <<"snaps">>)},
          mount |-> 1, directory |-> <<"mnt", "vol", "snaps">>]

NameEndings == {<<"snaps", "naps">>}
Filesystems == {Whole, Host, Nested, Apart}
=============================================================================
