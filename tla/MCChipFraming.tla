--------------------------- MODULE MCChipFraming ---------------------------
(***************************************************************************)
(* Messages for ChipFraming: those btchipReader looks for, the longest,    *)
(* and some whose bytes can be taken for something else.                   *)
(***************************************************************************)
EXTENDS ChipFraming

Filler(n) == [i \in 1..n |-> 17]

Scan(rssi, data) ==
  <<160, 18 + Len(data), 3, 4>> \o Filler(11) \o <<255, 127, rssi, 38, 0, 0, Len(data)>> \o data

Response(b) == <<32, 3, 1, 3, 0, b, DC>>
Boot        == <<160, 18, 1, 0>> \o Filler(18)
Longest     == <<160, 255, 21, 0>> \o Filler(255)
ShortMesh   == <<32, 2, 30, 1, 0, 0>>
GapEvent    == <<160, 20, 3, 1, 4>> \o Filler(19)

Advertisements ==
  {Scan(r, d) : r \in {160, DB, DC},
     d \in {<<>>, <<DB>>, <<DB, DC>>, <<DC, DB>>, <<DB, 17, DC>>, <<DB, 17, DD, DC>>}}

MCMessage ==
  Advertisements \cup {Response(17), Response(DB), Boot, Longest, ShortMesh, GapEvent}
=============================================================================
