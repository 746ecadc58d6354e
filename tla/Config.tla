------------------------------- MODULE Config -------------------------------
(***************************************************************************)
(* How needvar of objfs.go computes the options of a process from the      *)
(* command line and the configuration file.  A section of the file, and    *)
(* the flags given on the command line, are functions from some options to *)
(* their values.                                                           *)
(***************************************************************************)
EXTENDS Naturals, Sequences

CONSTANT Default    \* the default of every option

Opt == DOMAIN Default

ASSUME OptionsAssumption == {"storage", "auth", "credentials", "datadir", "keyring"} \subseteq Opt

\* A map with the entries of another merged into it.
Merge(m, s) == [o \in DOMAIN m |-> IF o \in DOMAIN s THEN s[o] ELSE m[o]]

\* cflag.Visit: the flags given, of those named.
Visit(flags, names) == [o \in DOMAIN flags \cap names |-> flags[o]]

Section(file, n) == IF n \in DOMAIN file THEN file[n] ELSE [o \in {} |-> ""]

\* Mutant: the section is merged after the flags.
flagMapSectionLast(file, flags) ==
    LET base == Merge(Merge(Default, Section(file, "")), flags)
    IN Merge(base, Section(file, base["storage"]))

\* The flag map of needvar.  A file that cannot be read is an empty one.
flagMap(file, flags) ==
    LET all == Merge(Default, flags)
        base == Merge(Merge(all, Section(file, "")), Visit(flags, {"storage"}))
        section == Merge(base, Section(file, base["storage"]))
    IN Merge(section, Visit(flags, Opt \ {"storage"}))

\* The value of option o in the first of the sources that has it.
FirstOf(sources, o) ==
    LET having == {n \in DOMAIN sources : o \in DOMAIN sources[n]}
    IN sources[CHOOSE n \in having : \A m \in having : n <= m][o]

\* What the comment on the configuration variables says: the command line takes
\* precedence over the file, and a section over the unnamed one; "storage" names
\* a section, which may in turn name the storage.
Documented(file, flags, o) ==
    LET unnamed == Section(file, "")
        named == Section(file, FirstOf(<<flags, unnamed, Default>>, "storage"))
    IN IF o = "storage" THEN FirstOf(<<named, flags, unnamed, Default>>, o)
       ELSE FirstOf(<<flags, named, unnamed, Default>>, o)
=============================================================================
