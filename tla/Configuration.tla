---------------------------- MODULE Configuration ----------------------------
(***************************************************************************)
(* The configuration of pkg/cmd/config/config.go and what run.go and       *)
(* prune.go resolve from it: names, mirrors, intervals, and whether it is  *)
(* accepted at all.  A name is a sequence of symbols, so that prefixes and *)
(* the joining dot mean what they mean in the code; a setting that is not  *)
(* given is Unset, a duration that is not given is 0.                      *)
(***************************************************************************)
EXTENDS Integers, Sequences, SequencesExt

CONSTANT Defaults     (* DefaultSnapshotInterval and its three companions  *)

Unset == <<>>
Dot   == <<".">>
Colon == ":"

DurationKeys == {"interval", "minRetention", "retention", "retentionInterval"}

\* The fields of config.go that decide what is done; base is the last element
\* of the path, isRoot says that the mirror's path is a subvolume and not a
\* directory inside one.
IsSubvolume(s) == /\ {s.name, s.base, s.snapshotName} \subseteq Seq(STRING)
                  /\ {s.mirrors, s.excludeMirrors} \subseteq Seq(STRING)
                  /\ s.disabled \in BOOLEAN /\ s.durations \in [DurationKeys -> Int]
IsVolume(v)    == /\ {v.name, v.base} \subseteq Seq(STRING)
                  /\ v.mirrors \in Seq(STRING)
                  /\ v.disabled \in BOOLEAN /\ v.durations \in [DurationKeys -> Int]
                  /\ \A j \in DOMAIN v.subvolumes : IsSubvolume(v.subvolumes[j])
IsMirror(m)    == /\ {m.name, m.format} \subseteq STRING
                  /\ {m.remote, m.isRoot, m.disabled} \subseteq BOOLEAN
IsConfig(c)    == /\ \A i \in DOMAIN c.volumes : IsVolume(c.volumes[i])
                  /\ c.mirrors \in Seq(ToSet(c.mirrors))
                  /\ \A k \in DOMAIN c.mirrors : IsMirror(c.mirrors[k])
                  /\ c.concurrency \in Int /\ c.durations \in [DurationKeys -> Int]

-----------------------------------------------------------------------------
(* Names.                                                                  *)

OrElse(name, default) == IF name # Unset THEN name ELSE default

VolumeName(v)    == OrElse(v.name, v.base)
SubvolumeName(s) == OrElse(s.name, s.base)

\* Seeded fault: what the comment at SnapshotName says, "Defaults to the
\* subvolume name".
BareSnapshotName(v, s) == OrElse(s.snapshotName, SubvolumeName(s))

SnapshotName(v, s) == OrElse(s.snapshotName, VolumeName(v) \o Dot \o SubvolumeName(s))

-----------------------------------------------------------------------------
(* Mirrors.                                                                *)

Known(c, name)     == \E k \in DOMAIN c.mirrors : c.mirrors[k].name = name
GetMirror(c, name) == c.mirrors[SelectInSeq(c.mirrors, LAMBDA m : m.name = name)]

\* The volume's mirrors and then the subvolume's, without the unknown and the
\* excluded ones.  One that is named twice is there twice.
ResolveMirrors(c, v, s) ==
    LET names == v.mirrors \o s.mirrors
        kept[k \in 0..Len(names)] ==
            IF k = 0 THEN <<>>
            ELSE IF Known(c, names[k]) /\ names[k] \notin ToSet(s.excludeMirrors)
                 THEN Append(kept[k - 1], names[k])
                 ELSE kept[k - 1]
    IN  kept[Len(names)]

Formats == {"subvolume", "directory", "gzip", "lzw", "zlib", "zstd"}
IsCompressed(format) == format \in {"gzip", "lzw", "zlib", "zstd"}

\* syncmanager.New: which manager serves a mirror; every scheme has the same
\* formats, the subvolume format being the default.
Manager(m) == CASE IsCompressed(m.format)              -> "compressed"
                [] m.format \in {"subvolume", ""}      -> "subvolume"
                [] m.format = "directory"              -> "directory"
                [] OTHER                               -> "unsupported"

-----------------------------------------------------------------------------
(* Durations, and what Validate lets through.                              *)

\* The most specific level that sets it, or the default.
Resolve(c, v, s, key) ==
    LET given == SelectSeq(<<s.durations[key], v.durations[key], c.durations[key]>>,
                           LAMBDA d : d # 0)
    IN  IF given = <<>> THEN Defaults[key] ELSE Head(given)

IsUnique(names) == \A i, j \in DOMAIN names : names[i] = names[j] => i = j

ValidName(name) == name # Unset /\ Colon \notin ToSet(name)

ValidSubvolume(c, v, s) ==
    /\ ValidName(SubvolumeName(s))
    /\ s.base # Unset
    /\ Resolve(c, v, s, "interval") < Resolve(c, v, s, "minRetention")
    /\ Resolve(c, v, s, "retention") > Resolve(c, v, s, "minRetention")
    /\ Resolve(c, v, s, "retentionInterval") < Resolve(c, v, s, "retention")

ValidVolume(v) == ValidName(VolumeName(v)) /\ v.base # Unset

\* Nothing is said of snapshot names.
Validate(c) ==
    /\ IsUnique([i \in DOMAIN c.volumes |-> VolumeName(c.volumes[i])])
    /\ \A i \in DOMAIN c.volumes :
          LET v == c.volumes[i] IN
          /\ ValidVolume(v)
          /\ IsUnique([j \in DOMAIN v.subvolumes |-> SubvolumeName(v.subvolumes[j])])
          /\ \A j \in DOMAIN v.subvolumes : ValidSubvolume(c, v, v.subvolumes[j])
=============================================================================
