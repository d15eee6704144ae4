---------------------------- MODULE MCOverlayFs ----------------------------
(* Instance of OverlayFs for TLC: a host tree /a/x, /b with one file that  *)
(* is too large to read, and paths that name a directory, a file in it, a  *)
(* file beside it and a new path two levels below the root.                *)
EXTENDS OverlayFs

MCTargets == {<<"a">>, <<"a", "x">>, <<"b">>, <<"c", "x">>}

MCLinkTargets == {<<"b">>}

MCNameOrder == <<"a", "b", "c", "x">>

MCLower ==
  (<<"a">> :> Dir("host")) @@ (<<"a", "x">> :> File(<<101>>, "host"))
    @@ (<<"b">> :> File(<<102>>, "host"))

MCHuge == {<<"b">>}

Symmetry == Permutations(Callers)

=============================================================================
