---------------------------- MODULE MCSegmentRing ----------------------------
(***************************************************************************)
(* Instances of SegmentRing for TLC: a buffer of either direction.         *)
(* Requests and datagrams are such that the buffer can be filled exactly   *)
(* and can be left with a gap at its end.                                  *)
(***************************************************************************)
EXTENDS SegmentRing

VARIABLE side   \* "tx" or "rx": whose buffer it is

MCDatagrams == {9, 10}
\* Behind an SPI header: one datagram or two (what was read from the chip at
\* once), and two sizes of stream data.
MCLens == {Hdr + d : d \in MCDatagrams} \cup
          {Hdr + d + e : d, e \in MCDatagrams}

MCInit == Init /\ side \in {"tx", "rx"}
MCNext == /\ \/ side = "tx" /\ TxNext
             \/ side = "rx" /\ RxNext
          /\ UNCHANGED side
MCSpec == MCInit /\ [][MCNext]_<<vars, side>>
==============================================================================
