-------------------------- MODULE MCGameObjectPasses --------------------------
EXTENDS GameObjectPasses, TLC

CONSTANTS o1, o2, o3

MCSymmetry == Permutations(Object)
==============================================================================
