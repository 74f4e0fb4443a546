----------------------------- MODULE MCUpgrade -----------------------------
(* Model-checking instance of Upgrade. AllVersions: one entry installed    *)
(* and one in the tree, of all versions up to three characters of four.    *)
(* Several: up to two entries with every reason to upgrade, and three in   *)
(* every order. Replacements: the port is replaced by a new one.           *)
EXTENDS Upgrade, Vercomp

CONSTANTS port, new

Entry(name, version, revision, variants, epoch) ==
    [name |-> name, version |-> version, revision |-> revision,
     variants |-> variants, epoch |-> epoch]

a == 10
Strings ==
    UNION {[1 .. k -> {0, 1, a, Separator}] : k \in 1 .. 3} \cup [1 .. 2 -> {0, 2, a, a + 1}]

AllVersions ==
    {[list |-> <<Entry(port, v, 0, "", 0)>>, others |-> {}, active |-> {},
      tree |-> Entry(port, w, 0, "", 0), opts |-> {"nodeps"}] :
        v, w \in Strings}

(* 9, 10 in two revisions, 10 with a variant, 1a, and 8 in a later epoch.  *)
Stock ==
    {Entry(port, <<9>>, 0, "", 0), Entry(port, <<1, 0>>, 0, "", 0),
     Entry(port, <<1, 0>>, 1, "", 0), Entry(port, <<1, 0>>, 1, "u", 0),
     Entry(port, <<1, Separator, a>>, 0, "", 0), Entry(port, <<8>>, 0, "", 1)}

Lists(k) == {l \in [1 .. k -> Stock] : IsInjective(l)}

Options ==
    {{"uninstall_old"}, {"force"}, {"force", "uninstall_old", "do_dependents"},
     {"enforce", "uninstall_old"}, {"platform"}, {"revupgrade"}, {"second", "uninstall_old"},
     {"uninstall_old", "processall"}, {"force", "uninstall_old", "processall"}}

Installed(lists, options) ==
    {c \in {[list |-> l, others |-> {}, active |-> s, tree |-> t, opts |-> o] :
               l \in lists, s \in {{}} \cup {{e} : e \in Stock}, t \in Stock, o \in options} :
        c.active \subseteq Range(c.list)}

Several ==
    Installed(Lists(1) \cup Lists(2), Options) \cup Installed(Lists(3), {{"uninstall_old"}})

NewEntry == Entry(new, <<9>>, 0, "", 0)

Replacements ==
    {[list |-> <<e>>, others |-> s, active |-> {e},
      tree |-> NewEntry, opts |-> o] :
        e \in Stock, o \in Options, s \in {{}, {NewEntry}}} \cup
    {[list |-> <<e>>, others |-> {NewEntry}, active |-> {NewEntry},
      tree |-> NewEntry, opts |-> o] : e \in Stock, o \in Options}

SameSegments(v, w) == Segments(v) = Segments(w)

(* The reference is an order of the versions that can be compared.         *)
ASSUME ReferenceOK ==
    LET short == {s \in Strings : Len(s) < 3}
    IN  \A u, v, w \in short :
            Comparable(u, v) /\ Comparable(v, w) /\ Comparable(u, w) =>
                /\ SameSegments(u, v) <=> ~NewerVersion(u, v) /\ ~NewerVersion(v, u)
                /\ ~(NewerVersion(u, v) /\ NewerVersion(v, u))
                /\ NewerVersion(u, v) /\ NewerVersion(v, w) => NewerVersion(u, w)

MCCases == AllVersions \cup Several \cup Replacements
=============================================================================
