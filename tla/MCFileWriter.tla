---------------------------- MODULE MCFileWriter ----------------------------
(***************************************************************************)
(* FileWriter on small instances.                                          *)
(***************************************************************************)
EXTENDS FileWriter, TLC

CONSTANTS a, b, link, loop

OneResolve == (a :> a)

(* Two files, one of them under two names. *)
AliasResolve == (a :> a) @@ (b :> b) @@ (link :> a)

(* One file, and a name that does not resolve. *)
LoopResolve == (a :> a) @@ (loop :> a)
=============================================================================
