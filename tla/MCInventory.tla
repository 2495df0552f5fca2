----------------------------- MODULE MCInventory ----------------------------
(* A small instance of Inventory for TLC. *)
EXTENDS Inventory, TLC

Gpu(i) == [index |-> i, total |-> 8, allocated |-> 0]

Valid == [hostname |-> 9, cpu |-> 4, memory |-> 16, gpus |-> <<Gpu(0)>>]

\* A valid request, and requests that break one rule of ValidateRegister each.
MCRegisterInput == {Valid, [Valid EXCEPT !.hostname = 0], [Valid EXCEPT !.cpu = -1],
                    [Valid EXCEPT !.gpus = <<Gpu(0), Gpu(0)>>],
                    [Valid EXCEPT !.gpus = <<Gpu(-1)>>],
                    [Valid EXCEPT !.gpus = <<[Gpu(0) EXCEPT !.allocated = 9]>>]}

\* Two transactions are open at once only between walks: they are on different
\* workers, or one waits for the other, and a walk sees none of it before a COMMIT.
OneWriterDuringWalk ==
    walk.phase = "idle" \/ Cardinality({b \in Writer : write[b].pc # "idle"}) <= 1

Symmetry == Permutations(Writer)

MCReport == {<<>>, <<Gpu(0), Gpu(1)>>, <<Gpu(0), Gpu(0)>>}
=============================================================================
