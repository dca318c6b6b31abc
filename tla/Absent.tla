-------------------------------- MODULE Absent --------------------------------
(* None of Python: what a variable holds that has no value.                     *)
CONSTANT None
===============================================================================
