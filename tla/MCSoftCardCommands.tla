-------------------------- MODULE MCSoftCardCommands --------------------------
(* The files of a Belgian eID card, few of each kind, in several orders. *)
EXTENDS SoftCardCommands
CONSTANTS root, df00, df01, ef2f00, ef5031, chip

File(path, size) == [path |-> path, size |-> size]
Dir == File(<<ef2f00>>, 37)
Odf == File(<<df00, ef5031>>, 36)
Id == File(<<df01, ef5031>>, 300)
Deep == File(<<df01, df00, ef2f00>>, 257)
NoPath == File(<<>>, 1)

Lists == {<<Dir, Odf, Id>>, <<Id, Odf, Dir>>, <<Deep, Odf>>, <<Odf, Deep, Id>>,
          <<Dir, File(<<df00>>, 0), File(<<ef2f00>>, 0)>>, <<Dir, NoPath, Odf>>}
MCCards == {[readable |-> TRUE, chip |-> <<chip, 1>>, files |-> l] : l \in Lists}
MCHardChip == <<chip, 1>>
MCPaths == {<<root>>, <<root, df01, ef5031>>, <<df00, ef5031>>, <<df01, df00>>}
==============================================================================
