------------------------------- MODULE Mangle -------------------------------
(***************************************************************************)
(* jnisafe-check/src/mangle.rs: the symbol a native method is exported     *)
(* under, and the Java name a Rust name stands for.  A name is a sequence  *)
(* of characters; the escaping is modelled character by character because  *)
(* that distinct methods have distinct symbols rests on it.                *)
(***************************************************************************)
EXTENDS Naturals, Sequences, FiniteSets, SequencesExt

\* Capitals of the letters in use, and the UTF-16 unit of a character that has
\* no escape of its own.
Capital  == [a |-> "A", b |-> "B", c |-> "C", f |-> "F", g |-> "G"]
Uppers   == {Capital[c] : c \in DOMAIN Capital}
Digits   == {"0", "1", "2", "3", "4"}
CodeUnit == [c \in {"$"} |-> <<"0", "0", "2", "4">>]

\* (A change TLC has to notice: an underscore in a name is not escaped.)
EscapeNoUnderscore(c) ==
  CASE c \in {"/", "."}      -> <<"_">>
    [] c = ";"               -> <<"_", "2">>
    [] c = "["               -> <<"_", "3">>
    [] c \in DOMAIN CodeUnit -> <<"_", "0">> \o CodeUnit[c]
    [] OTHER                 -> <<c>>

Escape(c) ==
  CASE c \in {"/", "."}      -> <<"_">>
    [] c = "_"               -> <<"_", "1">>
    [] c = ";"               -> <<"_", "2">>
    [] c = "["               -> <<"_", "3">>
    [] c \in DOMAIN CodeUnit -> <<"_", "0">> \o CodeUnit[c]
    [] OTHER                 -> <<c>>

MangleUnit(s) == FlattenSeq([i \in DOMAIN s |-> Escape(s[i])])

JavaPrefix == <<"Java", "_">>

ShortSymbol(class, method) == JavaPrefix \o MangleUnit(class) \o <<"_">> \o MangleUnit(method)

LongSymbol(class, method, args) == ShortSymbol(class, method) \o <<"_", "_">> \o MangleUnit(args)

-----------------------------------------------------------------------------
Underscores(n) == [i \in 1..n |-> "_"]
Leading(s)     == Cardinality({i \in DOMAIN s : \A j \in 1..i : s[j] = "_"})

\* Of each `_`-separated segment but the first, the first character that is not
\* a digit is capitalised.
Camel(core) ==
  LET Starts(i) == \E u \in 1..(i - 1) :
                     core[u] = "_" /\ \A j \in (u + 1)..(i - 1) : core[j] \in Digits
  IN  FlattenSeq([i \in DOMAIN core |->
        CASE core[i] = "_"                            -> <<>>
          [] core[i] \in DOMAIN Capital /\ Starts(i)  -> <<Capital[core[i]]>>
          [] OTHER                                    -> <<core[i]>>])

\* One leading underscore is dropped; a name with a capital is left alone.
SnakeToLowerCamel(name) ==
  LET lead == Leading(name)
      trail == Leading(Reverse(name))
      kept == IF lead = 0 THEN 0 ELSE lead - 1
  IN  IF \E i \in DOMAIN name : name[i] \in Uppers THEN name
      ELSE IF lead = Len(name) THEN Underscores(kept)
      ELSE Underscores(kept) \o Camel(SubSeq(name, lead + 1, Len(name) - trail))
             \o Underscores(trail)

\* `a.B` and `a.B::C` to `a/B` and `a/B$C`; `::` is one character here.
ClassDottedToInternal(s) ==
  [i \in DOMAIN s |-> CASE s[i] = "." -> "/" [] s[i] = "::" -> "$" [] OTHER -> s[i]]

=============================================================================
