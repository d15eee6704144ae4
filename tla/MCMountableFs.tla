--------------------------- MODULE MCMountableFs ---------------------------
(* Instance of MountableFs for TLC: a base with /d/x, a file system with   *)
(* /x mounted at /v/m (so /v is there only because of the mount), and an   *)
(* empty one that can be mounted at /d, hiding what the base has there.    *)
EXTENDS MountableFs

MCTargets ==
  {<<"d">>, <<"d", "x">>, <<"v">>, <<"v", "m">>, <<"v", "m", "x">>}

MCLinkTargets == {<<"d", "x">>}

MCNameOrder == <<"d", "m", "v", "x">>

MCMountPoints == {<<"v", "m">>, <<"d">>, <<"v">>}

MCInitial ==
  [s \in Stores |->
    CASE s = "base" -> (Root :> Dir("default")) @@ (<<"d">> :> Dir("default"))
                         @@ (<<"d", "x">> :> File(<<101>>, "default"))
      [] s = "one" -> (Root :> Dir("default")) @@ (<<"x">> :> File(<<102>>, "default"))
      [] s = "two" -> (Root :> Dir("default"))]

MCMounted == (<<"v", "m">> :> "one")

Symmetry == Permutations(Callers)

=============================================================================
