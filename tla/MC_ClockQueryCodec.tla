------------------------- MODULE MC_ClockQueryCodec -------------------------
EXTENDS ClockQueryCodec

\* A long address: its length needs a two-byte varint.
MC_Long == [k \in 1..130 |-> 106]
MC_Addresses == {<<>>, <<106>>, <<106, 117>>, MC_Long}
\* Tags 0x08 0x0A 0x0B 0x0C 0x12, lengths 0-2, continuation bytes 0x80 0xFC 0xFF.
MC_Alphabet == {0, 1, 2, 8, 10, 11, 12, 18, 128, 252, 255}
\* Gas limits: zero (an empty Params), one byte and two varint bytes.
MC_GasValues == {0, 1, 300}
=============================================================================
