----------------------------- MODULE SendStreams -----------------------------
(***************************************************************************)
(* The send streams of the kernel, as far as the mirrors can tell them     *)
(* apart, and what a receiver's operations do to a tree of files           *)
(* (pkg/receive/receivers/directory/directory.go and, with the same system *)
(* calls, pkg/receive/receivers/local/local.go; with remote commands in    *)
(* their place pkg/receive/receivers/sshdir/sshdir.go).                    *)
(***************************************************************************)
EXTENDS Integers, Sequences, SequencesExt, FiniteSets, FiniteSetsExt

CONSTANTS Paths,          (* the files of the subvolume                    *)
          Links,          (* the paths that are links                      *)
          Values,         (* what a file can hold; where a link can lead   *)
          Inodes,         (* of these, files that only hard links lead to  *)
          Dangling,       (* targets of links that a mirror does not have  *)
          Clones,         (* data that shares its extents with other data  *)
          Blank,          (* a file created and not written yet            *)
          NoFile          (* no such file                                  *)

ASSUME StreamsAssumption == /\ IsFiniteSet(Paths)
                            /\ Links \subseteq Paths /\ Inodes \subseteq Values
                            /\ Dangling \subseteq Values /\ Clones \subseteq Values
                            /\ {Blank, NoFile} \cap Values = {}

File(p)   == <<"file", p>>
Orphan(p) == <<"orphan", p>>      \* the name an inode has before its rename
Names     == {"file", "orphan"} \X Paths

\* The local receivers join the target of a symbolic link to their destination.
Below(v) == <<"below the destination", v>>

Held     == Values \cup {Blank, NoFile} \cup {Below(v) : v \in Values}
Contents == [Paths -> Values \cup {NoFile}]
Nothing  == [p \in Paths |-> NoFile]
Empty    == [n \in Names |-> NoFile]

\* What a tree shows under the files' own names, and what it shows once a
\* local receiver has made it hold the given contents.
Visible(tree) == [p \in Paths |-> tree[File(p)]]
Received(contents) == [p \in Paths |-> IF p \in Links /\ contents[p] \notin Inodes \cup {NoFile}
                                       THEN Below(contents[p]) ELSE contents[p]]

Cmd(op, name, to, val) == [op |-> op, name |-> name, to |-> to, val |-> val]
Begin(op) == Cmd(op, NoFile, NoFile, NoFile)

\* Extents that another file of the snapshot has are not written but cloned.
Data(p, v) == Cmd(IF v \in Clones THEN "clone" ELSE "write", File(p), NoFile, v)

\* A new file appears under an orphan name, gets its name, then its data; a
\* symbolic link is created with its target, and gets its owner and times
\* under its name; a hard link needs no new inode.  The attributes of files,
\* which succeed whenever the command before them has, are left out.
Create(p, v) ==
    IF p \in Links
    THEN IF v \in Inodes
         THEN << Cmd("link", File(p), NoFile, v) >>
         ELSE << Cmd("symlink", Orphan(p), NoFile, v),
                 Cmd("rename", Orphan(p), File(p), NoFile),
                 Cmd("attributes", File(p), NoFile, NoFile) >>
    ELSE << Cmd("mkfile", Orphan(p), NoFile, NoFile),
            Cmd("rename", Orphan(p), File(p), NoFile),
            Data(p, v) >>

\* The commands that make p, as it was, what it is now.
Change(p, was, is) ==
    CASE was = is                    -> << >>
      [] was # is /\ is = NoFile     -> << Cmd("unlink", File(p), NoFile, NoFile) >>
      [] was # is /\ was = NoFile    -> Create(p, is)
      [] OTHER -> IF p \in Links
                  THEN << Cmd("unlink", File(p), NoFile, NoFile) >> \o Create(p, is)
                  ELSE << Data(p, is) >>

\* Files come in the order of their inodes.
PathOrder == SetToSeq(Paths)

\* The stream that turns one state of the files into another.
Stream(op, from, to) ==
    << Begin(op) >>
    \o FlattenSeq([i \in 1..Len(PathOrder) |-> LET p == PathOrder[i] IN Change(p, from[p], to[p])])
    \o << Begin("end") >>

-----------------------------------------------------------------------------
(* os.Create truncates, os.Symlink and os.Link want a free name, the others *)
(* an existing file; os.Chown and os.Chtimes follow a link to its target.   *)

\* A link to nothing.
Broken(held) == held \in Dangling \cup {Below(v) : v \in Dangling}

Succeeds(tree, c) == CASE c.op = "mkfile"             -> TRUE
                       [] c.op \in {"symlink", "link"} -> tree[c.name] = NoFile
                       [] c.op = "attributes"         -> tree[c.name] # NoFile /\ ~Broken(tree[c.name])
                       [] OTHER                       -> tree[c.name] # NoFile

Applied(tree, c) == CASE c.op = "mkfile"  -> [tree EXCEPT ![c.name] = Blank]
                      [] c.op = "rename"  -> [tree EXCEPT ![c.to] = tree[c.name], ![c.name] = NoFile]
                      [] c.op = "unlink"  -> [tree EXCEPT ![c.name] = NoFile]
                      [] c.op = "symlink" -> [tree EXCEPT ![c.name] = Below(c.val)]
                      [] c.op = "attributes" -> tree
                      [] c.op \in {"write", "clone", "link"} -> [tree EXCEPT ![c.name] = c.val]

\* Into a directory nothing is cloned (ErrNotSupported).
DirectorySucceeds(t, c) == c.op # "clone" /\ Succeeds(t, c)

\* The remote commands: touch leaves a file as it is, dd makes it when it is
\* missing, rm -rf does not mind, and ln looks for the other file in the login
\* directory and not in the mirror.
RemoteSucceeds(t, c) == CASE c.op \in {"link", "clone"} -> FALSE
                          [] c.op \in {"unlink", "write"} -> TRUE
                          [] OTHER -> Succeeds(t, c)

RemoteApplied(t, c) == CASE c.op = "mkfile" -> [t EXCEPT ![c.name] = IF @ = NoFile THEN Blank ELSE @]
                         [] c.op = "symlink" -> [t EXCEPT ![c.name] = c.val]
                         [] OTHER -> Applied(t, c)
=============================================================================
