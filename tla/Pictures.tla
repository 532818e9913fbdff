------------------------------ MODULE Pictures ------------------------------
(* What scripts see of the 2D renderer: settings, and what is painted.     *)
EXTENDS Integers, Sequences

CONSTANTS Prims,        \* primitives: the room each takes in the buffers
          Textures, Targets, Cameras, Viewports, Samplers,
          AlphaOf,      \* alpha type of each texture and of none
          PictureBound  \* how much is painted in a behaviour, bounds the models

None == "none"

ASSUME PicturesAssumption == None \notin Textures

Canvas == "canvas"
Foreign == "foreign" \* state that effects and models give the device

\* Vertex colours alone, or multiplied with the texture
Blends == {"one", "mul"}

Effect == -1
Model == -2
Wipe == -3

Top(stack) == IF stack = <<>> THEN Canvas ELSE stack[Len(stack)]

\* A primitive on a target, with settings s; a texture its blending does not
\* read has no part in how it looks
Look(p, s, sampler, target) ==
    [prim |-> p, camera |-> s.camera, viewport |-> s.viewport, blend |-> s.blend,
     alpha |-> s.alpha, target |-> target,
     texture |-> IF s.blend = "one" THEN None ELSE s.texture,
     sampler |-> IF s.blend = "one" THEN None ELSE sampler]

Other(p, target) == [prim |-> p, target |-> target]

\* A post effect covers its target whatever the settings are
EffectSettings ==
    [camera |-> Foreign, viewport |-> Foreign, blend |-> "one", alpha |-> Foreign,
     texture |-> Foreign]
=============================================================================
