--------------------------- MODULE MCWorkStealing ---------------------------
(* Rows with a payment, two, none, one after a gap in k, and two rows in a height. *)
EXTENDS WorkStealing, TLC

MCRows == [h \in Heights |->
    CASE h = 0 -> << <<0>> >>
      [] h = 1 -> << <<-1, 1, 0>> >>
      [] h = 2 -> << <<0, 2>>, <<-1>> >>
      [] h = 3 -> << <<1>>, <<0>> >>
      [] OTHER -> <<>>]

MCRebuilds == {[start |-> 0, end |-> 3], [start |-> 2, end |-> 1],
               [start |-> MaxUint32 - 1, end |-> MaxUint32]}
Scan(start, end, size, workers) ==
    [start |-> start, end |-> end, size |-> size, workers |-> workers]
MCScans == {Scan(0, 3, 1, 2), Scan(0, 3, 0, 0), Scan(3, 3, 1, 1),
            Scan(1, MaxUint32, 3, 2), Scan(0, MaxUint32, 3, 1)}
=============================================================================
