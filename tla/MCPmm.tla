------------------------------- MODULE MCPmm -------------------------------
EXTENDS Pmm

Ram(b, n) == [base |-> b, pages |-> n, usable |-> TRUE]
Firmware(b, n) == [base |-> b, pages |-> n, usable |-> FALSE]

\* The bitmap in low memory, a hole, and reserved memory on top.
LowBitmap == <<Ram(0, 4), Firmware(4, 2), Ram(6, 4), Firmware(10, 2)>>
\* Low memory too small for the bitmap, which goes above it.
HighBitmap == <<Ram(0, 1), Firmware(1, 2), Ram(3, 9)>>
\* One entry that holds everything, with a number of pages that is no multiple of 8 bits.
OneEntry == <<Firmware(0, 1), Ram(1, 6)>>
\* The last page is the first of a byte the bitmap has no page for.
OneBitMore == <<Firmware(0, 1), Ram(1, 8)>>

GoodMaps == {LowBitmap, HighBitmap, OneEntry}
AllMaps == GoodMaps \cup {OneBitMore}

=============================================================================
