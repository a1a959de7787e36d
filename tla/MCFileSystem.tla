---------------------------- MODULE MCFileSystem ----------------------------
\* FileSystem for TLC: names are interchangeable.
EXTENDS FileSystem, TLC

MCSimetria == Permutations(Names)
=============================================================================
