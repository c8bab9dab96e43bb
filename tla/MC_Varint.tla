------------------------------ MODULE MC_Varint ------------------------------
(* Numbers of 8 and of 16 bits in place of 32 and 64, through each integer   *)
(* coding that the README lists: every 8-bit number, and the 16-bit numbers  *)
(* around each power of two, where the length, the sign or the overflow of a *)
(* step changes.  Both widths have numbers of every length, and the longest  *)
(* varint has bits to spare, as the ten bytes of a real uint64_t have.       *)
EXTENDS VarintLoop

EdgeNumbers ==
  (0 .. 260) \cup UNION {(2 ^ k - 3) .. (2 ^ k + 3) : k \in 9 .. 16}

AllCodings    == {"int32", "int64"} \X {TYPE_VARINT, TYPE_SVARINT}
SintCodings   == {"int32", "int64"} \X {TYPE_SVARINT}
==============================================================================
