-------------------------------- MODULE MCFiles --------------------------------
EXTENDS FileClients

CONSTANTS sub, leaf, x, y

\* vfs_init with one directory and one file, and kmain's checks on that file.
SmallSetup == << [dir |-> TRUE, path |-> <<sub>>, text |-> <<>>],
                 [dir |-> FALSE, path |-> <<sub, leaf>>, text |-> <<x>>] >>
SmallTest == [reads |-> <<sub, leaf>>, writes |-> <<sub, leaf>>, text |-> <<y>>]

\* Not absolute, the root, a file beside the directory, a slash at the end, two in a row.
SomePaths == {<<>>, <<Empty>>, <<leaf>>, <<sub, Empty>>, <<sub, Empty, leaf>>}
SomeTexts == {<<x>>, <<x, y>>}
SomeWholes == {<<>>, <<x>>, <<y>>, <<x, x, y>>}
SomeLines == {<< <<y>> >>, << <<x>>, <<x, y>> >>}
===============================================================================
