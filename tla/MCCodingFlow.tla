---------------------------- MODULE MCCodingFlow ----------------------------
(* Changes of two files; a restored controlled write may keep at most one. *)
EXTENDS CodingFlow

MCIndex == {1, 2}
MCRemnants == {{}, {1}, {2}}

=============================================================================
