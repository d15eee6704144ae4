------------------------------ MODULE FsPaths ------------------------------
(***************************************************************************)
(* Paths and entries shared by the virtual file systems of src/src/fs.     *)
(*                                                                         *)
(* A path that went through normalizePath is the sequence of its names;    *)
(* the root is the empty sequence.  An entry (FsEntry) is a file with its  *)
(* content, a directory, or a symbolic link with an absolute target.  The  *)
(* content of a file is the sequence of the writes it is made of, so that  *)
(* a lost or a doubled write shows.  Times are left out: nothing but ls    *)
(* and test -nt looks at them.                                             *)
(***************************************************************************)
EXTENDS Naturals, Sequences, SequencesExt, FiniteSets, TLC

Root == <<>>

Parent(p) == Front(p)

Child(p, k) == Append(p, k)

Under(p, d) == IsPrefix(d, p)

Below(p, d) == IsStrictPrefix(d, p)

(* The proper ancestors of p other than the root.                          *)
Ancestors(p) == {SubSeq(p, 1, n) : n \in 1..(Len(p) - 1)}

(* p, moved from below d to below e.                                       *)
Moved(p, d, e) == e \o SubSeq(p, Len(d) + 1, Len(p))

Modes == {"default", "host", "changed"}

Dir(m) == [t |-> "dir", m |-> m]

File(c, m) == [t |-> "file", c |-> c, m |-> m]

Link(to) == [t |-> "link", to |-> to, m |-> "default"]

(* What a query that throws answers.                                       *)
Err(e) == [t |-> "err", e |-> e]

None == Err("none")

Entry(Writes, Targets) ==
  [t : {"dir"}, m : Modes]
    \cup [t : {"file"}, c : Seq(Writes), m : Modes]
    \cup [t : {"link"}, to : Targets, m : Modes]

Set(entries, p, n) ==
  [x \in DOMAIN entries \cup {p} |-> IF x = p THEN n ELSE entries[x]]

(* The entries, and a new directory at each of the paths that have none.   *)
WithNew(entries, paths) ==
  [x \in DOMAIN entries \cup paths |->
     IF x \in DOMAIN entries THEN entries[x] ELSE Dir("default")]

Without(entries, p) == [x \in DOMAIN entries \ {p} |-> entries[x]]

=============================================================================
