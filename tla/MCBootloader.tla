---------------------------- MODULE MCBootloader -----------------------------
(* A small instance of Bootloader. *)
EXTENDS Bootloader

\* The images differ in length and share prefixes; version 3 was signed for two
\* images, one of them also signed as version 1, and the image of version 4 has
\* bad vectors.
MCSigned ==
    {[version |-> 1, image |-> <<"x">>],
     [version |-> 2, image |-> <<"x", "y", "x">>],
     [version |-> 3, image |-> <<"y", "x">>],
     [version |-> 3, image |-> <<"x">>],
     [version |-> 4, image |-> <<"y", "y">>]}

\* ... and a header that nobody signed: the oldest image with the top version.
MCHeader == MCSigned \cup {[version |-> 4, image |-> <<"x">>]}

MCBootable == {<<"x">>, <<"x", "y", "x">>, <<"y", "x">>}
==============================================================================
