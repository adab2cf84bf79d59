------------------------------ MODULE MCAnyTls ------------------------------
(***************************************************************************)
(* The anytls forwarder and listener for TLC: a stream buffer of one piece *)
(* stands for the 32 of the code and a connection of one frame for the     *)
(* kernel's buffers, so that both fill; three pieces from one side, enough *)
(* to fill the stream, the readLoop and the connection and to wait with    *)
(* the next, or one from each.                                             *)
(***************************************************************************)
EXTENDS AnyTls

MCLoads ==
    {f \in [Sides -> 0 .. 3] : f["client"] + f["server"] = 3 /\ f["client"] * f["server"] = 0}
    \cup {[s \in Sides |-> 1]}

=============================================================================
