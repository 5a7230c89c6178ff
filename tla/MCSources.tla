----------------------------- MODULE MCSources -----------------------------
(* Sources for TLC: the tags of one repository, named after their text.     *)
EXTENDS Sources

Tag(core, final, suffix, text, prefixes) ==
    [core |-> core, final |-> final, suffix |-> suffix, text |-> text, prefixes |-> prefixes]

\* 2.0.10 < v1.9.0 < v2.0 < v2.0.0 < v2.0.0-rc.1 < v2.0.9 in the alphabet; two
\* more have numbers beyond int, for whose largest value 99 stands.
T2_0_10    == Tag(<<2, 0, 10>>, TRUE, <<>>, 1, {})
V1_9_0     == Tag(<<1, 9, 0>>, TRUE, <<>>, 2, {})
V2_0       == Tag(<<2, 0>>, TRUE, <<>>, 3, {"v2."})
V2_0_0     == Tag(<<2, 0, 0>>, TRUE, <<>>, 4, {"v2."})
V2_0_0_rc1 == Tag(<<2, 0, 0>>, FALSE, <<1>>, 5, {"v2."})
V2_0_9     == Tag(<<2, 0, 9>>, TRUE, <<>>, 6, {"v2."})
V2_101     == Tag(<<2, 101>>, TRUE, <<>>, 7, {"v2."})
V2_102     == Tag(<<2, 102>>, TRUE, <<>>, 8, {"v2."})

SomeTags == {T2_0_10, V1_9_0, V2_0, V2_0_0, V2_0_0_rc1, V2_0_9, V2_101, V2_102}

Published(t) == [tag |-> t, draft |-> FALSE, prerelease |-> ~t.final]

SomeReleases ==
    {Published(t) : t \in {T2_0_10, V2_0, V2_0_0, V2_0_0_rc1, V2_0_9, V2_101, V2_102}}
        \cup {[tag |-> V2_0_9, draft |-> TRUE, prerelease |-> FALSE]}

PreReleases == {Published(t) : t \in {V2_0_0, V2_0_0_rc1}}

SourceSpec(scheme, wellFormed, prefix, prereleases) ==
    [scheme |-> scheme, wellFormed |-> wellFormed, prefix |-> prefix,
     prereleases |-> prereleases]

SomeSpecs ==
    {SourceSpec("github", TRUE, p, pre) : p \in {AnyPrefix, "v2."}, pre \in BOOLEAN}
        \cup {SourceSpec("docker", TRUE, AnyPrefix, FALSE),
              SourceSpec("docker", FALSE, AnyPrefix, FALSE),
              SourceSpec("other", TRUE, AnyPrefix, FALSE)}

PreReleaseSpecs == {SourceSpec("github", TRUE, AnyPrefix, TRUE)}
=============================================================================
