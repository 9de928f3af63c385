-------------------------- MODULE MCServerCommands --------------------------
(* The service over a file, or memory, of one or two blocks. *)
EXTENDS ServerCommands

Cfg(type, size, readOnly, preallocate) ==
  [kind |-> type, size |-> size, readOnly |-> readOnly, preallocate |-> preallocate]
MCConfigs == {Cfg("memory", 2, FALSE, FALSE), Cfg("file", 1, FALSE, FALSE),
              Cfg("file", 2, FALSE, TRUE), Cfg("file", 2, TRUE, FALSE)}
=============================================================================
