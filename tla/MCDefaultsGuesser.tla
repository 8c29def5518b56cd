------------------------- MODULE MCDefaultsGuesser -------------------------
(* DefaultsGuesser with three strings: empty, a short name and a name too *)
(* long for NetBIOS (see MCDefaultsGuesser.cfg).                           *)
EXTENDS DefaultsGuesser

CONSTANTS ShortStr, LongStr

MCStrLen(s) == CASE s = Empty    -> 0
                 [] s = ShortStr -> 5
                 [] s = LongStr  -> 17
=============================================================================
