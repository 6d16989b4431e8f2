---------------------------- MODULE MCWorkspace ----------------------------
(* A workspace of two members; one depends on the other and on a package of *)
(* a registry, which are built side by side.                                *)
EXTENDS Workspace

CONSTANTS app, lib, reg   \* model values

Pkgs3    == {app, lib, reg}
Members2 == {app, lib}
DepsOf   == [p \in Pkgs3 |-> IF p = app THEN {lib, reg} ELSE {}]
Two      == 1 .. 2
AllPostures == {"Trust", "Find", "Verify"}
=============================================================================
