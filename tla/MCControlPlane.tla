----------------------------- MODULE MCControlPlane -----------------------------
(* ControlPlane with a three-attempt cycle in units of its first backoff,  *)
(* the production schedule in 16 bits for every timeout of a whole second  *)
(* up to two minutes, and nine channels a graph might hand over: two that  *)
(* lie apart, an overlapping one, a misaligned one, none at all, one with  *)
(* an offset into a larger area, a malformed and an absent chunk, and one  *)
(* whose window reaches past the end of its area.                          *)
EXTENDS ControlPlane

MCBackoff == [n \in 1 .. 3 |-> 2 ^ (n - 1)]
MCProduction == [attempts |-> 6, initial |-> 250, ceiling |-> 4000]
MCTimeouts == {1000 * s : s \in 0 .. 120}

Channel(at, max, offset, size, chunk) ==
    [at |-> at, max |-> max, offset |-> offset, size |-> size, chunk |-> chunk]

MCChannels ==
    {Channel(2, 4, 0, 4, "valid"), Channel(6, 4, 0, 4, "valid"), Channel(4, 4, 0, 4, "valid"),
     Channel(3, 4, 0, 4, "valid"), Channel(0, 4, 0, 4, "valid"), Channel(6, 9, 2, 2, "valid"),
     Channel(10, 4, 0, 4, "malformed"), Channel(10, 2, 0, 2, "absent"),
     Channel(10, 4, 2, 4, "valid")}
=============================================================================
