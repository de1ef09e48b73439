-------------------------------- MODULE Jdk ---------------------------------
(***************************************************************************)
(* jdk.rs: where the class files of a JDK home are found.  A home is       *)
(* [jmods |-> files, rt |-> jars]: the jmod files as [name, magic,         *)
(* classes], jre/lib/rt.jar and lib/rt.jar as [readable, classes].         *)
(* `classes` is a function from the names of the classes in it to the      *)
(* classes.                                                                *)
(***************************************************************************)
EXTENDS Naturals, Sequences, SequencesExt

NoHome == [missing |-> TRUE]

\* `open_jmod` takes a file with the magic only.
GoodJmods(home) == {m \in home.jmods : m.magic = "JM"}

\* java.base first, then the rest.
JmodTables(files) ==
  LET base == {m \in files : m.name = "java.base"}
      s    == SetToSeq(base) \o SetToSeq(files \ base)
  IN  [i \in DOMAIN s |-> s[i].classes]

\* The first that can be opened.
RtTable(home) ==
  LET readable == {i \in DOMAIN home.rt : home.rt[i].readable}
  IN  IF readable = {} THEN <<>> ELSE <<home.rt[Min(readable)].classes>>

\* (A change TLC has to notice: a Java 8 home is not read.)
OpenJmodsOnly(home) == JmodTables(GoodJmods(home))

\* `open`: the readable jmods, else the first rt.jar.
Open(home) ==
  IF GoodJmods(home) # {} THEN JmodTables(GoodJmods(home)) ELSE RtTable(home)

\* `class_bytes` for every name: the first source that has the class.
ClassBytes(sources) ==
  LET Has(c) == {i \in DOMAIN sources : c \in DOMAIN sources[i]}
  IN  [c \in UNION {DOMAIN sources[i] : i \in DOMAIN sources} |-> sources[Min(Has(c))][c]]

=============================================================================
