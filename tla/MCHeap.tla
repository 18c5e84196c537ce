------------------------------- MODULE MCHeap -------------------------------
EXTENDS Heap

\* With units of 2, a header of 4 and a page of 8 bytes: less than a page, a page exactly,
\* and two pages because of the header, which is more than the least expansion.
SomeSizes == {1, 4, 7}

=============================================================================
