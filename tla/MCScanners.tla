----------------------------- MODULE MCScanners -----------------------------
(* Small instances of Scanners for TLC. *)
EXTENDS Scanners

\* Two flights and more, among them one without bags, bags of equal weight, one
\* without weight, and more bags than scanners.
InputsConst == {<< <<1, 2>>, <<2, 1, 1, 1>> >>, << <<2, 0, 1>>, <<>>, <<1>> >>, << <<3>>, <<1, 1>> >>}
=============================================================================
