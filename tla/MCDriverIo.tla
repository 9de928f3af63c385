------------------------------ MODULE MCDriverIo ------------------------------
(* The driver's I/O handlers on a namespace of a few two-byte blocks. *)
EXTENDS DriverIo

MCBuffers == {[pages |-> <<1, 4, 2, 3>>, off |-> 1, room |-> 2],
              [pages |-> <<6, 5, 7>>, off |-> 0, room |-> 1],
              [pages |-> <<8, 0, 7>>, off |-> 0, room |-> 2]}
MCTrims == {<<[slba |-> 0, nlb |-> 2]>>,
            <<[slba |-> 1, nlb |-> 1], [slba |-> 2, nlb |-> 2], [slba |-> 0, nlb |-> 0]>>}
=============================================================================
