-------------------------------- MODULE MCBoot --------------------------------
(* An instance of Boot: an early initcall, an empty level and a level of   *)
(* two; the command line may blacklist any of the functions.               *)
EXTENDS Boot

MCinitcalls == << <<"e">>, <<>>, <<"f", "g">> >>
=============================================================================
