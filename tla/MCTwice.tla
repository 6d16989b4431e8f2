------------------------------ MODULE MCTwice ------------------------------
(* Small crates for Twice.tla: all choices of entry points, in hash order. *)
EXTENDS Twice

CONSTANT NoFn   \* a model value

L4 == 1 .. 4
OneExtern == {10}

\* Two functions share a path.
Shared == [f \in Fns |-> IF f \in {2, 3} THEN 2 ELSE f]

Crate(body, entry) ==
    [kind |-> [f \in Local |-> IF f = 4 THEN "bodyless" ELSE "fn"],
     body |-> body, pub |-> {}, globals |-> << >>,
     attrs |-> [f \in Local |-> IF f \in entry THEN {"check_unsafe"} ELSE {}],
     is_dependency |-> FALSE]

\* Any entry points; each function makes up to two calls.
Pairs   == {<< >>, <<2>>, <<3, 1>>, <<10, 3>>, <<2, 2>>, <<4, 10>>, <<NoFn, 1>>}
Crates3 == {Crate(<<x, y, z, << >> >>, entry) :
                x, y, z \in Pairs, entry \in SUBSET {1, 2, 3}}
=============================================================================
