----------------------------- MODULE MCPackages -----------------------------
(***************************************************************************)
(* Four packages: a and the older b require each other, and only the newer  *)
(* b requires c.                                                            *)
(***************************************************************************)
EXTENDS PackageInstall, TLC

Ref(n, v) == [name |-> n, version |-> v]
a == Ref(1, 1)
b == Ref(2, 1)
b2 == Ref(2, 2)
c == Ref(3, 1)

MCRefs == {a, b, b2, c}

MCRequires ==
  [r \in MCRefs |-> CASE r = a  -> <<b>>
                      [] r = b  -> <<a>>
                      [] r = b2 -> <<c>>
                      [] r = c  -> <<>>]

Nothing == [n \in {} |-> 0]

\* The cycle, in a manifest whose second line raises the minimum of the first
\* and whose walk takes MaxIterations; a development line repeated until the walk
\* is given up; the newer b replaced by the older; a package whose requirement
\* is excluded.
MCManifests ==
  {[direct |-> <<b, b2>>, dev |-> <<>>, replaces |-> Nothing, excludes |-> {}],
   [direct |-> <<>>, dev |-> <<c, c, c, c, c, c>>, replaces |-> Nothing, excludes |-> {}],
   [direct |-> <<b2>>, dev |-> <<>>, replaces |-> [n \in {2} |-> 1], excludes |-> {}],
   [direct |-> <<a>>, dev |-> <<>>, replaces |-> Nothing, excludes |-> {b}]}

Plain ==
  [verb |-> "install", offline |-> FALSE, frozen |-> FALSE, no_dev |-> FALSE,
   strict |-> FALSE, refused |-> {}]

MCCommands ==
  {Plain,
   [Plain EXCEPT !.strict = TRUE, !.refused = {c}],
   [Plain EXCEPT !.offline = TRUE, !.no_dev = TRUE],
   [Plain EXCEPT !.offline = TRUE, !.frozen = TRUE],
   [Plain EXCEPT !.verb = "sync"],
   [Plain EXCEPT !.verb = "sync", !.offline = TRUE]}

Symmetry == Permutations(Projects)
=============================================================================
