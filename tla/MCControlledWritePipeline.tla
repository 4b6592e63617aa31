---------------------- MODULE MCControlledWritePipeline ----------------------
(* A change set of two files; a restored source may keep at most one.      *)
EXTENDS ControlledWritePipeline

MCIndex == {1, 2}
MCRemnants == {{}, {1}, {2}}

=============================================================================
