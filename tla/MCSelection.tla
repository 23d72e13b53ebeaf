----------------------------- MODULE MCSelection -----------------------------
(***************************************************************************)
(* Two instances in two storefronts, of which one speaks the language.     *)
(***************************************************************************)
EXTENDS Selection

CONSTANTS x, y, us, jp

MCRegionOf == [i \in {x, y} |-> IF i = x THEN us ELSE jp]

\* A song in one storefront and its video in the other; lyrics in both, or
\* only where the language is not spoken.
MCWorlds ==
  {<<"song", {<<"song", us>>, <<"mv", jp>>}>>,
   <<"lyrics", {<<"lyrics", us>>, <<"lyrics", jp>>}>>,
   <<"lyrics", {<<"lyrics", us>>}>>}

=============================================================================
