---- MODULE MCShell ----
(* Small instances of Shell, whose constants are sets of model values.  *)
EXTENDS Shell
====
