-------------------------- MODULE MCPaletteProtocol --------------------------
(* PaletteProtocol for TLC: contexts are interchangeable model values.         *)
EXTENDS PaletteProtocol, TLC

ContextSymmetry == Permutations(Contexts)
=============================================================================
